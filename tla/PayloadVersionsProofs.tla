----------------------- MODULE PayloadVersionsProofs -----------------------
(***************************************************************************)
(* Proofs about PayloadVersions, for any processes, builds and jobs.       *)
(***************************************************************************)
EXTENDS PayloadVersions, SequenceTheorems, TLAPS

USE DefinitionAssumption, DownAssumption, RolesAssumption, MaxDeploysAssumption,
    FirstAssumption

\* What a written envelope is: typed, and its payload raw.
LEMMA EnvelopeWritten ==
  ASSUME NEW v \in Int, NEW origin \in Origins, NEW slots \in SUBSET Slots
  PROVE  /\ Envelope(v, origin, slots) \in Envelopes
         /\ Envelope(v, origin, slots).v = v
         /\ Envelope(v, origin, slots).data = Raw(v)
<1>1. Raw(v) \in Datas
  BY EmptySeq DEF Raw, Datas
<1> QED BY <1>1 DEF Envelope, Envelopes, Raw

\* The definitions of builds are definitions.
LEMMA DefinitionTyped ==
  ASSUME NEW b \in Builds
  PROVE  /\ Definition[b] \in Definitions
         /\ Definition[b].version \in Int /\ Definition[b].slots \in SUBSET Slots
         /\ Definition[b].migrations \in SUBSET Int
         /\ Version(b) \in Int
         /\ Loads(b) => Version(b) >= 0
BY DEF Definitions, Version, Loads, DefineJob, AssertVersioning

\* The template a worker of build b leaves behind.
LEMMA TemplateWritten ==
  ASSUME NEW b \in Builds
  PROVE  /\ Template(b) \in Envelopes \cup {Down}
         /\ Template(b) # Down =>
              /\ Template(b).data = Raw(Template(b).v)
              /\ Template(b).v = Version(b)
              /\ Definition[b].scheduled
<1>1. CASE Definition[b].registered /\ Definition[b].scheduled
  <2>1. Definition[b].version \in Int /\ {} \in SUBSET Slots /\ "single" \in Origins
    BY DefinitionTyped DEF Origins
  <2>2. Template(b) = Envelope(Definition[b].version, "single", {})
    BY <1>1 DEF Template, WriteEnvelope
  <2>3. Version(b) = Definition[b].version
    BY <1>1 DEF Version
  <2> QED BY <1>1, <2>1, <2>2, <2>3, EnvelopeWritten
<1>2. CASE ~(Definition[b].registered /\ Definition[b].scheduled)
  BY <1>2 DEF Template
<1> QED BY <1>1, <1>2

\* One more step raises the payload by one version.
LEMMA OneStepRaises ==
  ASSUME NEW v \in Int, NEW r \in Int, v <= r, NEW dat \in Datas, Raised(dat, v, r)
  PROVE  /\ ApplyStep(dat, r) \in Datas
         /\ Raised(ApplyStep(dat, r), v, r + 1)
<1> DEFINE s == [i \in 1..(r - v) |-> v + i - 1]
<1>1. dat = [born |-> v, steps |-> s]
  BY DEF Raised
<1>2. s \in Seq(Int) /\ Len(s) = r - v
  OBVIOUS
<1>3. Append(s, r) \in Seq(Int) /\ Append(s, r) = [i \in 1..((r + 1) - v) |-> v + i - 1]
  <2> DEFINE t == [i \in 1..((r + 1) - v) |-> v + i - 1]
  <2>1. t \in Seq(Int) /\ Len(t) = Len(s) + 1
    BY <1>2
  <2>2. \A i \in 1..Len(t) : Append(s, r)[i] = t[i]
    <3> SUFFICES ASSUME NEW i \in 1..Len(t) PROVE Append(s, r)[i] = t[i]
      OBVIOUS
    <3>1. CASE i \in 1..Len(s)
      BY <3>1, <1>2, <2>1
    <3>2. CASE i = Len(s) + 1
      BY <3>2, <1>2, <2>1
    <3> QED BY <3>1, <3>2, <2>1, <1>2
  <2>3. Append(s, r) \in Seq(Int) /\ Len(Append(s, r)) = Len(s) + 1
    BY <1>2
  <2> HIDE DEF s, t
  <2>4. Append(s, r) = t
    BY <2>1, <2>2, <2>3, SeqEqual, <1>2
  <2> QED BY <2>3, <2>4 DEF t
<1> DEFINE t == [i \in 1..((r + 1) - v) |-> v + i - 1]
<1>4. t \in Seq(Int) /\ Append(s, r) = t
  BY <1>3
<1> HIDE DEF s, t
<1>5. dat.born = v /\ dat.steps = s
  BY <1>1
<1>6. ApplyStep(dat, r) = [born |-> v, steps |-> t]
  BY <1>4, <1>5 DEF ApplyStep
<1>7. [born |-> v, steps |-> t] \in Datas
  BY <1>4 DEF Datas
<1>8. Raised(ApplyStep(dat, r), v, r + 1)
  BY <1>6 DEF Raised, t
<1> QED BY <1>6, <1>7, <1>8

\* Every envelope a client passes on or writes.
LEMMA ClientWrites ==
  ASSUME TypeOK, NEW c \in Clients, Knows(c)
  PROVE  /\ build[c] \in Builds
         /\ Version(build[c]) = Def(c).version
         /\ WriteEnvelope(Def(c)) \in Envelopes
         /\ WriteEnvelope(Def(c)).v = Def(c).version
         /\ WriteEnvelope(Def(c)).data = Raw(Def(c).version)
         /\ ComposeFlow(Def(c)) \in Envelopes
         /\ ComposeFlow(Def(c)).v = Def(c).version
         /\ ComposeFlow(Def(c)).data = Raw(Def(c).version)
<1>1. build[c] \in Builds
  BY DEF TypeOK, Processes, Knows, Up
<1>2. Def(c).version \in Int /\ Def(c).slots \in SUBSET Slots /\ {} \in SUBSET Slots
  BY <1>1, DefinitionTyped DEF Def
<1>3. Version(build[c]) = Def(c).version
  BY <1>1 DEF Knows, Def, Version
<1>4. "single" \in Origins /\ "flow" \in Origins
  BY DEF Origins
<1>5. WriteEnvelope(Def(c)) = Envelope(Def(c).version, "single", {})
  BY DEF WriteEnvelope
<1>6. ComposeFlow(Def(c)) = Envelope(Def(c).version, "flow", Def(c).slots)
  BY DEF ComposeFlow
<1> QED BY <1>1, <1>2, <1>3, <1>4, <1>5, <1>6, EnvelopeWritten

\* Every step keeps the types.
LEMMA TypeNext ==
  ASSUME TypeOK, StoredIsRaw, \A w \in Workers : DeliveryInv(w), Next
  PROVE  TypeOK'
<1> USE DEF TypeOK, Processes
<1>0. Raw(0) \in Datas
  BY EmptySeq DEF Raw, Datas
<1>1. ASSUME NEW p \in Processes, NEW b \in Builds, Start(p, b) PROVE TypeOK'
  BY <1>1, TemplateWritten, DefinitionTyped
     DEF Start, jobVars, deliveryVars, history
<1>2. ASSUME NEW p \in Processes, Stop(p) PROVE TypeOK'
  <2>1. CASE p \in Workers /\ taken[p] # Down
    BY <1>2, <1>0, <2>1 DEF Stop, Abandon, Idle, history, States
  <2>2. CASE ~(p \in Workers /\ taken[p] # Down)
    BY <1>2, <2>2 DEF Stop, deliveryVars, history
  <2> QED BY <2>1, <2>2
<1>3. ASSUME NEW c \in Clients, NEW j \in Jobs,
             Enqueue(c, j) \/ EnqueueFlow(c, j) \/ EnqueueInBlock(c, j)
      PROVE  TypeOK'
  BY <1>3, ClientWrites
     DEF Enqueue, EnqueueFlow, EnqueueInBlock, Store, rollout, deliveryVars, history, States
<1>4. ASSUME NEW c \in Clients, NEW j \in Jobs, Relay(c, j) PROVE TypeOK'
  BY <1>4 DEF Relay, rollout, deliveryVars, history, States
<1>5. ASSUME NEW c \in Clients, NEW j \in Jobs, NEW k \in Jobs, Replay(c, j, k)
      PROVE  TypeOK'
  BY <1>5 DEF Replay, Store, rollout, deliveryVars, States, Reasons
<1>6. ASSUME NEW j \in Jobs, Occurs(j) \/ Retry(j) \/ Discard(j) PROVE TypeOK'
  BY <1>6 DEF Occurs, Retry, Discard, Store, rollout, deliveryVars, history, States, Reasons
<1>7. ASSUME NEW w \in Workers, NEW j \in Jobs, Dispatch(w, j) PROVE TypeOK'
  <2>1. env[j].v \in Int /\ env[j].data \in Datas
    BY DEF Envelopes
  <2>2. CASE \E why \in Reasons : Refuse(j, why)
    BY <2>2 DEF Refuse, Report, rollout, deliveryVars, history, States
  <2>3. CASE BeginMigration(w, j)
    BY <2>1, <2>3 DEF BeginMigration, rollout, history, States
  <2> QED BY <1>7, <2>2, <2>3 DEF Dispatch, Reasons
<1>8. ASSUME NEW w \in Workers, MigrateStep(w) PROVE TypeOK'
  <2>1. /\ from[w] \in Int /\ env[taken[w]].v \in Int /\ data[w] \in Datas
        /\ env[taken[w]].v <= from[w] /\ Raised(data[w], env[taken[w]].v, from[w])
    BY <1>8 DEF MigrateStep, DeliveryInv, Envelopes
  <2>2. ApplyStep(data[w], from[w]) \in Datas
    BY <2>1, OneStepRaises
  <2> QED BY <1>8, <2>1, <2>2 DEF MigrateStep, rollout, jobVars, history
<1>9. ASSUME NEW w \in Workers, NEW why \in Reasons, step[w] # "idle", Bury(w, why)
      PROVE  TypeOK'
  BY <1>9, <1>0 DEF Bury, Report, Idle, rollout, history, States, DeliveryInv
<1>10. ASSUME NEW w \in Workers, Unreadable(w) \/ ChildrenFor(w) \/ HandlerEnds(w)
       PROVE  TypeOK'
  <2>1. CASE \E why \in Reasons : step[w] # "idle" /\ Bury(w, why)
    BY <2>1, <1>9
  <2>2. CASE step' = [step EXCEPT ![w] = "running"]
             /\ UNCHANGED <<rollout, jobVars, taken, data, from, history>>
    BY <2>2 DEF rollout, jobVars, history
  <2>3. CASE step[w] # "idle" /\ \E end \in {"completed", "waiting"} :
               /\ state' = [state EXCEPT ![taken[w]] = end]
               /\ Idle(w) /\ UNCHANGED <<rollout, env, record, history>>
    BY <2>3, <1>0 DEF Idle, rollout, history, States, DeliveryInv
  <2> QED BY <1>10, <2>1, <2>2, <2>3 DEF Unreadable, ChildrenFor, HandlerEnds, Reasons
<1> QED BY <1>1, <1>2, <1>3, <1>4, <1>5, <1>6, <1>7, <1>8, <1>10 DEF Next

\* No step stores a migrated payload.
LEMMA RawNext ==
  ASSUME TypeOK, StoredIsRaw, Next
  PROVE  StoredIsRaw'
<1> USE DEF StoredIsRaw
<1>1. ASSUME NEW p \in Processes, NEW b \in Builds, Start(p, b) PROVE StoredIsRaw'
  BY <1>1, TemplateWritten DEF Start, jobVars
<1>2. ASSUME NEW p \in Processes, Stop(p) PROVE StoredIsRaw'
  BY <1>2 DEF Stop
<1>3. ASSUME NEW c \in Clients, NEW j \in Jobs,
             Enqueue(c, j) \/ EnqueueFlow(c, j) \/ EnqueueInBlock(c, j)
      PROVE  StoredIsRaw'
  <2>1. PICK e : e.data = Raw(e.v) /\ env' = [env EXCEPT ![j] = e]
    BY <1>3, ClientWrites DEF Enqueue, EnqueueFlow, EnqueueInBlock, Store
  <2>2. UNCHANGED template
    BY <1>3 DEF Enqueue, EnqueueFlow, EnqueueInBlock, rollout
  <2> QED BY <2>1, <2>2 DEF TypeOK
<1>4. ASSUME NEW c \in Clients, NEW j \in Jobs, NEW k \in Jobs, Relay(c, j) \/ Replay(c, j, k)
      PROVE  StoredIsRaw'
  BY <1>4 DEF Relay, Replay, Store, rollout, TypeOK
<1>5. ASSUME NEW j \in Jobs, Occurs(j) \/ Retry(j) \/ Discard(j) PROVE StoredIsRaw'
  <2>1. CASE Occurs(j)
    BY <2>1 DEF Occurs, Store, rollout, TypeOK
  <2>2. CASE Retry(j) \/ Discard(j)
    BY <2>2 DEF Retry, Discard, rollout
  <2> QED BY <1>5, <2>1, <2>2
<1>6. ASSUME NEW w \in Workers, NEW j \in Jobs, Dispatch(w, j) PROVE StoredIsRaw'
  BY <1>6 DEF Dispatch, Refuse, Report, BeginMigration, rollout
<1>7. ASSUME NEW w \in Workers,
             MigrateStep(w) \/ Unreadable(w) \/ ChildrenFor(w) \/ HandlerEnds(w)
      PROVE  StoredIsRaw'
  BY <1>7 DEF MigrateStep, Unreadable, ChildrenFor, HandlerEnds, Bury, Report, rollout, jobVars
<1> QED BY <1>1, <1>2, <1>3, <1>4, <1>5, <1>6, <1>7 DEF Next

\* A delivery that is not touched keeps its place in the loop: its envelope is
\* stored, and a stored envelope never changes.
LEMMA DeliveryKept ==
  ASSUME NEW w \in Workers, DeliveryInv(w),
         step'[w] = step[w], taken'[w] = taken[w], data'[w] = data[w], from'[w] = from[w],
         step[w] # "idle" => /\ build'[w] = build[w]
                             /\ state'[taken[w]] # "none"
                             /\ env'[taken[w]] = env[taken[w]]
  PROVE  DeliveryInv(w)'
BY DEF DeliveryInv, Def, Up, Raised

\* Every step keeps every delivery in its loop.
LEMMA DeliveryNext ==
  ASSUME TypeOK, StoredIsRaw, \A x \in Workers : DeliveryInv(x), Next, NEW w \in Workers
  PROVE  DeliveryInv(w)'
<1>0. DeliveryInv(w) /\ (step[w] # "idle" => taken[w] \in Jobs /\ state[taken[w]] # "none")
  BY DEF DeliveryInv
<1>1. ASSUME NEW p \in Processes, NEW b \in Builds, Start(p, b) PROVE DeliveryInv(w)'
  BY <1>1, <1>0, DeliveryKept DEF Start, jobVars, deliveryVars, DeliveryInv, Up, TypeOK
<1>2. ASSUME NEW p \in Processes, Stop(p) PROVE DeliveryInv(w)'
  <2>1. CASE p = w
    BY <1>2, <2>1 DEF Stop, Idle, deliveryVars, DeliveryInv, TypeOK
  <2>2. CASE p # w
    <3>1. step'[w] = step[w] /\ taken'[w] = taken[w] /\ data'[w] = data[w] /\ from'[w] = from[w]
      BY <1>2, <2>2 DEF Stop, Idle, deliveryVars, TypeOK
    <3>2. build'[w] = build[w] /\ env' = env /\ \A j \in Jobs : state[j] # "none" => state'[j] # "none"
      BY <1>2, <2>2 DEF Stop, Abandon, TypeOK, Processes
    <3> QED BY <1>0, <3>1, <3>2, DeliveryKept
  <2> QED BY <2>1, <2>2
<1>3. ASSUME NEW j \in Jobs, NEW e, NEW where \in {"row", "waiting"}, Store(j, e, where),
             UNCHANGED deliveryVars, build' = build
      PROVE  DeliveryInv(w)'
  <2>1. step[w] # "idle" => state'[taken[w]] # "none" /\ env'[taken[w]] = env[taken[w]]
    BY <1>3, <1>0 DEF Store, TypeOK
  <2> QED BY <1>3, <1>0, <2>1, DeliveryKept DEF deliveryVars
<1>4. ASSUME NEW c \in Clients, NEW j \in Jobs, NEW k \in Jobs,
             Enqueue(c, j) \/ EnqueueFlow(c, j) \/ EnqueueInBlock(c, j) \/ Replay(c, j, k)
      PROVE  DeliveryInv(w)'
  BY <1>4, <1>3 DEF Enqueue, EnqueueFlow, EnqueueInBlock, Replay, rollout
<1>4a. ASSUME NEW j \in Jobs, Occurs(j) PROVE DeliveryInv(w)'
  BY <1>4a, <1>3 DEF Occurs, rollout
<1>5. ASSUME NEW j \in Jobs, (\E c \in Clients : Relay(c, j)) \/ Retry(j) \/ Discard(j)
      PROVE  DeliveryInv(w)'
  <2>1. \A i \in Jobs : state[i] # "none" => state'[i] # "none"
    BY <1>5 DEF Relay, Retry, Discard, TypeOK
  <2> QED BY <1>5, <1>0, <2>1, DeliveryKept DEF Relay, Retry, Discard, rollout, deliveryVars
<1>6. ASSUME NEW x \in Workers, NEW j \in Jobs, Dispatch(x, j) PROVE DeliveryInv(w)'
  <2>1. \A i \in Jobs : state[i] # "none" => state'[i] # "none"
    BY <1>6 DEF Dispatch, Refuse, Report, BeginMigration, TypeOK
  <2>2. env' = env /\ build' = build
    BY <1>6 DEF Dispatch, Refuse, Report, BeginMigration, rollout
  <2>3. CASE x = w /\ BeginMigration(w, j) /\ VersionIsKnown(Def(w), env[j]) /\ Up(w)
    <3>1. /\ step'[w] = "migrating" /\ taken'[w] = j /\ from'[w] = env[j].v
          /\ data'[w] = Raw(env[j].v) /\ state'[j] # "none"
      BY <2>3 DEF BeginMigration, TypeOK, StoredIsRaw
    <3>2. env[j].v \in Int
      BY DEF TypeOK, Envelopes
    <3>3. Raised(Raw(env[j].v), env[j].v, env[j].v)
      <4>1. [i \in 1..0 |-> env[j].v + i - 1] = <<>>
        OBVIOUS
      <4>2. env[j].v - env[j].v = 0
        BY <3>2
      <4> QED BY <4>1, <4>2 DEF Raised, Raw
    <3>4. (env[j].v .. (env[j].v - 1)) = {}
      BY <3>2
    <3> QED BY <2>2, <2>3, <3>1, <3>2, <3>3, <3>4 DEF DeliveryInv, VersionIsKnown, Def, Up
  <2>4. CASE x # w \/ \E why \in Reasons : Refuse(j, why)
    <3>1. step'[w] = step[w] /\ taken'[w] = taken[w] /\ data'[w] = data[w] /\ from'[w] = from[w]
      BY <1>6, <2>4 DEF Dispatch, Refuse, Report, BeginMigration, deliveryVars, TypeOK
    <3> QED BY <1>0, <2>1, <2>2, <3>1, DeliveryKept
  <2> QED BY <1>6, <2>3, <2>4 DEF Dispatch, Reasons
<1>7. ASSUME NEW x \in Workers, step[x] # "idle", env' = env, build' = build,
             \A i \in Jobs : state[i] # "none" => state'[i] # "none",
             Idle(x)
      PROVE  DeliveryInv(w)'
  BY <1>7, <1>0, DeliveryKept DEF Idle, TypeOK, DeliveryInv
<1>8. ASSUME NEW x \in Workers, MigrateStep(x) PROVE DeliveryInv(w)'
  <2>1. CASE x = w
    <3> DEFINE v == env[taken[w]].v
    <3>1. /\ from[w] \in Int /\ v \in Int /\ data[w] \in Datas /\ v <= from[w]
          /\ (v .. (from[w] - 1)) \subseteq Def(w).migrations
          /\ Raised(data[w], v, from[w]) /\ from[w] \in Def(w).migrations
          /\ from[w] < Def(w).version /\ Def(w).version \in Int
          /\ taken[w] \in Jobs /\ Up(w) /\ state[taken[w]] # "none"
      BY <1>8, <2>1, <1>0, DefinitionTyped
         DEF MigrateStep, DeliveryInv, Envelopes, TypeOK, Up, Def, Processes
    <3>2. Raised(ApplyStep(data[w], from[w]), v, from[w] + 1)
      BY <3>1, OneStepRaises
    <3>3. (v .. ((from[w] + 1) - 1)) \subseteq Def(w).migrations
      BY <3>1
    <3>4. /\ data'[w] = ApplyStep(data[w], from[w]) /\ from'[w] = from[w] + 1
          /\ UNCHANGED <<env, state, taken, step, build>> /\ step[w] = "migrating"
      BY <1>8, <2>1 DEF MigrateStep, rollout, jobVars, TypeOK
    <3> QED BY <3>1, <3>2, <3>3, <3>4 DEF DeliveryInv, Def, Up
  <2>2. CASE x # w
    BY <1>8, <2>2, <1>0, DeliveryKept DEF MigrateStep, rollout, jobVars, TypeOK
  <2> QED BY <2>1, <2>2
<1>9. ASSUME NEW x \in Workers, ChildrenFor(x),
             step' = [step EXCEPT ![x] = "running"],
             ~ChildrenShort(Def(x), env[taken[x]]),
             UNCHANGED <<rollout, jobVars, taken, data, from, history>>
      PROVE  DeliveryInv(w)'
  <2>1. CASE x = w
    <3>1. from[w] \in Int /\ Def(w).version \in Int
      BY <1>9, <2>1, <1>0, DefinitionTyped
         DEF ChildrenFor, DeliveryInv, TypeOK, Up, Def, Processes
    <3>2. UNCHANGED <<env, state, taken, build, data, from>> /\ step'[w] = "running"
      BY <1>9, <2>1 DEF rollout, jobVars, TypeOK
    <3>3. from[w] = Def(w).version
      BY <1>9, <2>1, <1>0, <3>1 DEF ChildrenFor, DeliveryInv
    <3> QED BY <1>9, <2>1, <1>0, <3>1, <3>2, <3>3
            DEF ChildrenFor, ChildrenShort, DeliveryInv, Def, Up, Raised
  <2>2. CASE x # w
    BY <1>9, <2>2, <1>0, DeliveryKept DEF rollout, jobVars, TypeOK
  <2> QED BY <2>1, <2>2
<1>10. ASSUME NEW x \in Workers, Unreadable(x) \/ ChildrenFor(x) \/ HandlerEnds(x)
       PROVE  DeliveryInv(w)'
  <2>1. CASE \E why \in Reasons : step[x] # "idle" /\ Bury(x, why)
    BY <2>1, <1>7 DEF Bury, Report, rollout, TypeOK
  <2>2. CASE step[x] # "idle" /\ \E end \in {"completed", "waiting"} :
               /\ state' = [state EXCEPT ![taken[x]] = end]
               /\ Idle(x) /\ UNCHANGED <<rollout, env, record, history>>
    BY <2>2, <1>7 DEF rollout, TypeOK
  <2>3. CASE ChildrenFor(x) /\ ~ChildrenShort(Def(x), env[taken[x]])
    BY <2>3, <1>9 DEF ChildrenFor
  <2> QED BY <1>10, <2>1, <2>2, <2>3 DEF Unreadable, ChildrenFor, HandlerEnds, Reasons
<1> QED BY <1>1, <1>2, <1>4, <1>4a, <1>5, <1>6, <1>8, <1>10 DEF Next

\* Every step of an orderly rollout keeps `newest` between what is written and
\* what the workers read.
LEMMA InOrderNext ==
  ASSUME TypeOK, InOrder, RecordsAreOfJobs, \A w \in Workers : DeliveryInv(w), Next
  PROVE  InOrder'
<1> SUFFICES ASSUME orderly' PROVE InOrder'
  BY DEF InOrder
<1>0. /\ newest \in Int
      /\ \A p \in Processes : Up(p) => build[p] \in Builds /\ Version(build[p]) \in Int
      /\ \A j \in Jobs : env[j].v \in Int
  BY DefinitionTyped DEF TypeOK, Envelopes, Up
<1>1. ASSUME NEW p \in Processes, NEW b \in Builds, Start(p, b) PROVE InOrder'
  <2>1. orderly /\ WorkersFirst(p, b)
    BY <1>1 DEF Start
  <2>2. Version(b) \in Int /\ newest' \in Int /\ newest <= newest'
        /\ (Writes(p, b) => Version(b) <= newest')
        /\ (newest' = newest \/ (Writes(p, b) /\ newest' = Version(b)))
    BY <1>0, <1>1, DefinitionTyped DEF Start
  <2>3. /\ UNCHANGED <<state, env, record>>
        /\ build'[p] = b /\ \A q \in Processes \ {p} : build'[q] = build[q]
        /\ template' = IF p \in Workers THEN Template(b) ELSE template
    BY <1>1 DEF Start, jobVars, TypeOK
  <2>4. template' # Down => template'.v <= newest'
    <3>1. CASE p \in Workers
      BY <2>2, <2>3, <3>1, TemplateWritten DEF Writes
    <3>2. CASE p \notin Workers
      <4>1. template # Down => template.v \in Int
        BY DEF TypeOK, Envelopes
      <4> QED BY <1>0, <2>1, <2>2, <2>3, <3>2, <4>1 DEF InOrder
    <3> QED BY <3>1, <3>2
  <2>5. \A c \in Clients : Up(c)' => Version(build'[c]) <= newest'
    <3> SUFFICES ASSUME NEW c \in Clients, Up(c)' PROVE Version(build'[c]) <= newest'
      OBVIOUS
    <3>1. CASE c = p
      BY <2>2, <2>3, <3>1 DEF Writes
    <3>2. CASE c # p
      BY <1>0, <2>1, <2>2, <2>3, <3>2 DEF InOrder, Up, Processes
    <3> QED BY <3>1, <3>2
  <2>6. \A w \in Workers : Up(w)' => newest' <= Version(build'[w])
    <3> SUFFICES ASSUME NEW w \in Workers, Up(w)' PROVE newest' <= Version(build'[w])
      OBVIOUS
    <3>1. CASE w = p
      BY <1>0, <2>1, <2>2, <2>3, <3>1 DEF WorkersFirst
    <3>2. CASE w # p
      <4>1. Up(w) /\ build'[w] = build[w] /\ Version(build[w]) \in Int
        BY <1>0, <2>3, <3>2 DEF Up, Processes
      <4>2. newest <= Version(build[w])
        BY <2>1, <4>1 DEF InOrder
      <4>3. Writes(p, b) => Version(build[w]) >= Version(b)
        BY <2>1, <4>1, <3>2 DEF WorkersFirst
      <4> QED BY <1>0, <2>2, <4>1, <4>2, <4>3
    <3> QED BY <3>1, <3>2
  <2>7. \A j \in Jobs : (state[j] # "none" => env[j].v <= newest') /\ record[j] # "version_ahead"
    BY <1>0, <2>1, <2>2 DEF InOrder
  <2> QED BY <2>3, <2>4, <2>5, <2>6, <2>7 DEF InOrder
<1>2. ASSUME NEW p \in Processes, Stop(p) PROVE InOrder'
  <2>1. \A q \in Processes : Up(q)' => Up(q) /\ build'[q] = build[q]
    BY <1>2 DEF Stop, Up, TypeOK
  <2>2. UNCHANGED <<template, orderly, newest, env, record>>
    BY <1>2 DEF Stop
  <2>3. \A j \in Jobs : state'[j] # "none" => state[j] # "none"
    BY <1>2 DEF Stop, Abandon, TypeOK, DeliveryInv
  <2> QED BY <2>1, <2>2, <2>3 DEF InOrder, Processes
<1>3. ASSUME NEW j \in Jobs, NEW e \in Envelopes, NEW where \in {"row", "waiting"},
             Store(j, e, where), orderly => e.v <= newest,
             UNCHANGED rollout, \A i \in Jobs : record'[i] = "version_ahead" => record[i] = "version_ahead"
      PROVE  InOrder'
  <2>1. orderly /\ UNCHANGED <<build, template, newest>>
    BY <1>3 DEF rollout
  <2>2. \A i \in Jobs : (state'[i] # "none" => env'[i].v <= newest)
    BY <1>3, <2>1 DEF Store, InOrder, TypeOK
  <2> QED BY <1>3, <2>1, <2>2 DEF InOrder, Up
<1>4. ASSUME NEW c \in Clients, NEW j \in Jobs,
             Enqueue(c, j) \/ EnqueueFlow(c, j) \/ EnqueueInBlock(c, j)
      PROVE  InOrder'
  <2>1. PICK e \in Envelopes, where \in {"row", "waiting"} :
          Store(j, e, where) /\ e.v = Version(build[c])
    BY <1>4, ClientWrites DEF Enqueue, EnqueueFlow, EnqueueInBlock
  <2>2. UNCHANGED <<rollout, record>> /\ Up(c)
    BY <1>4 DEF Enqueue, EnqueueFlow, EnqueueInBlock, Knows
  <2>3. orderly => e.v <= newest
    BY <2>1, <2>2 DEF InOrder
  <2> QED BY <1>3, <2>1, <2>2, <2>3
<1>5. ASSUME NEW j \in Jobs, Occurs(j) PROVE InOrder'
  <2>1. template \in Envelopes /\ Store(j, template, "waiting") /\ UNCHANGED <<rollout, record>>
    BY <1>5 DEF Occurs, TypeOK
  <2>2. orderly => template.v <= newest
    BY <1>5 DEF InOrder, Occurs
  <2> QED BY <1>3, <2>1, <2>2
<1>6. ASSUME NEW c \in Clients, NEW j \in Jobs, NEW k \in Jobs, Replay(c, j, k),
             state[j] # "none"
      PROVE  InOrder'
  <2>1. env[j] \in Envelopes /\ Store(k, env[j], "waiting") /\ UNCHANGED rollout
    BY <1>6 DEF Replay, TypeOK
  <2>2. \A i \in Jobs : record'[i] = "version_ahead" => record[i] = "version_ahead"
    BY <1>6 DEF Replay, TypeOK
  <2>3. orderly => env[j].v <= newest
    BY <1>6 DEF InOrder
  <2> QED BY <1>3, <2>1, <2>2, <2>3
<1>7. ASSUME NEW c \in Clients, NEW j \in Jobs, NEW k \in Jobs, Replay(c, j, k) PROVE InOrder'
  BY <1>6, <1>7 DEF RecordsAreOfJobs, Replay
<1>8. ASSUME UNCHANGED <<rollout, env>>,
             \A i \in Jobs : state'[i] # "none" => state[i] # "none",
             orderly => \A i \in Jobs : record'[i] = "version_ahead" => record[i] = "version_ahead"
      PROVE  InOrder'
  BY <1>8 DEF InOrder, rollout, Up
<1>9. ASSUME NEW j \in Jobs, (\E c \in Clients : Relay(c, j)) \/ Retry(j) \/ Discard(j)
      PROVE  InOrder'
  <2>1. UNCHANGED <<rollout, env>> /\ \A i \in Jobs : state'[i] # "none" => state[i] # "none"
    BY <1>9 DEF Relay, Retry, Discard, TypeOK
  <2>2. \A i \in Jobs : record'[i] = "version_ahead" => record[i] = "version_ahead"
    BY <1>9 DEF Relay, Retry, Discard, TypeOK
  <2> QED BY <1>8, <2>1, <2>2
<1>10. ASSUME NEW w \in Workers, NEW j \in Jobs, Dispatch(w, j) PROVE InOrder'
  <2>1. UNCHANGED <<rollout, env>> /\ \A i \in Jobs : state'[i] # "none" => state[i] # "none"
    BY <1>10 DEF Dispatch, Refuse, Report, BeginMigration, TypeOK
  <2>2. ASSUME orderly, Def(w).registered PROVE VersionIsKnown(Def(w), env[j])
    <3>1. env[j].v <= newest /\ newest <= Version(build[w]) /\ Up(w)
      BY <1>10, <2>2 DEF InOrder, Dispatch
    <3>2. Version(build[w]) = Def(w).version
      BY <2>2 DEF Version, Def
    <3> QED BY <1>0, <3>1, <3>2 DEF VersionIsKnown, Processes
  <2>3. orderly => \A i \in Jobs : record'[i] = "version_ahead" => record[i] = "version_ahead"
    BY <1>10, <2>2 DEF Dispatch, Refuse, Report, BeginMigration, TypeOK
  <2> QED BY <1>8, <2>1, <2>3
<1>11. ASSUME NEW w \in Workers,
              MigrateStep(w) \/ Unreadable(w) \/ ChildrenFor(w) \/ HandlerEnds(w)
       PROVE  InOrder'
  <2>1. step[w] # "idle" /\ taken[w] \in Jobs /\ state[taken[w]] # "none"
    BY <1>11 DEF MigrateStep, Unreadable, ChildrenFor, HandlerEnds, DeliveryInv
  <2>2. UNCHANGED <<rollout, env>>
    BY <1>11 DEF MigrateStep, Unreadable, ChildrenFor, HandlerEnds, Bury, Report, jobVars
  <2>3. \A i \in Jobs : state'[i] # "none" => state[i] # "none"
    BY <1>11, <2>1 DEF MigrateStep, Unreadable, ChildrenFor, HandlerEnds, Bury, Report, jobVars, TypeOK
  <2>4. \A i \in Jobs : record'[i] = "version_ahead" => record[i] = "version_ahead"
    BY <1>11, <2>1 DEF MigrateStep, Unreadable, ChildrenFor, HandlerEnds, Bury, Report, jobVars, TypeOK
  <2> QED BY <1>8, <2>2, <2>3, <2>4
<1> QED BY <1>1, <1>2, <1>4, <1>5, <1>7, <1>9, <1>10, <1>11 DEF Next

\* A dead record is of a job that was stored.
LEMMA RecordsNext ==
  ASSUME TypeOK, RecordsAreOfJobs, \A w \in Workers : DeliveryInv(w), Next
  PROVE  RecordsAreOfJobs'
<1> USE DEF RecordsAreOfJobs, TypeOK
<1>1. ASSUME NEW p \in Processes, Stop(p) \/ \E b \in Builds : Start(p, b)
      PROVE  RecordsAreOfJobs'
  BY <1>1 DEF Start, Stop, Abandon, jobVars, DeliveryInv
<1>2. ASSUME NEW c \in Clients, NEW j \in Jobs, NEW k \in Jobs,
             \/ Enqueue(c, j) \/ EnqueueFlow(c, j) \/ EnqueueInBlock(c, j) \/ Relay(c, j)
             \/ Replay(c, j, k)
      PROVE  RecordsAreOfJobs'
  BY <1>2 DEF Enqueue, EnqueueFlow, EnqueueInBlock, Relay, Replay, Store
<1>3. ASSUME NEW j \in Jobs, Occurs(j) \/ Retry(j) \/ Discard(j) PROVE RecordsAreOfJobs'
  BY <1>3 DEF Occurs, Retry, Discard, Store
<1>4. ASSUME NEW w \in Workers, NEW j \in Jobs, Dispatch(w, j) PROVE RecordsAreOfJobs'
  BY <1>4 DEF Dispatch, Refuse, Report, BeginMigration
<1>5. ASSUME NEW w \in Workers,
             MigrateStep(w) \/ Unreadable(w) \/ ChildrenFor(w) \/ HandlerEnds(w)
      PROVE  RecordsAreOfJobs'
  BY <1>5 DEF MigrateStep, Unreadable, ChildrenFor, HandlerEnds, Bury, Report, jobVars, DeliveryInv
<1> QED BY <1>1, <1>2, <1>3, <1>4, <1>5 DEF Next

\* A step that lets go of no job, and stores j at most, loses nothing.
LEMMA NothingLetGo ==
  ASSUME TypeOK, NothingIsLost, NEW j \in Jobs,
         UNCHANGED source, dropped \subseteq dropped',
         \A i \in Jobs : Accounted(i) => Accounted(i)' \/ source[i] \in dropped',
         \A i \in Jobs \ {j} : state'[i] # "none" => state[i] # "none",
         state'[j] # "none" => state[j] # "none" \/ Accounted(j)' \/ source[j] \in dropped'
  PROVE  NothingIsLost'
BY DEF NothingIsLost

\* Every step keeps every enqueue somewhere.
LEMMA LostNext ==
  ASSUME TypeOK, NothingIsLost, RecordsAreOfJobs, \A w \in Workers : DeliveryInv(w), Next
  PROVE  NothingIsLost'
<1>1. ASSUME NEW p \in Processes, NEW b \in Builds, Start(p, b) PROVE NothingIsLost'
  BY <1>1 DEF Start, jobVars, history, NothingIsLost, Kept, Accounted
<1>0. ASSUME NEW j \in Jobs, UNCHANGED source, dropped \subseteq dropped',
             \A i \in Jobs \ {j} : state'[i] = state[i] /\ record'[i] = record[i],
             Accounted(j)' \/ source[j] \in dropped'
      PROVE  NothingIsLost'
  BY <1>0, NothingLetGo DEF Kept, Accounted
<1>2. ASSUME NEW j \in Jobs, UNCHANGED history,
             \A i \in Jobs \ {j} : state'[i] = state[i] /\ record'[i] = record[i],
             Accounted(j)'
      PROVE  NothingIsLost'
  BY <1>2, <1>0 DEF history
<1>3. ASSUME NEW p \in Processes, Stop(p) PROVE NothingIsLost'
  <2>1. CASE p \in Workers /\ taken[p] # Down
    <3>1. PICK j \in Jobs : j = taken[p]
      BY <2>1 DEF DeliveryInv
    <3>2. Accounted(j)' /\ UNCHANGED history
          /\ \A i \in Jobs \ {j} : state'[i] = state[i] /\ record'[i] = record[i]
      BY <1>3, <2>1, <3>1 DEF Stop, Abandon, Kept, Accounted, TypeOK
    <3> QED BY <1>2, <3>1, <3>2
  <2>2. CASE ~(p \in Workers /\ taken[p] # Down)
    BY <1>3, <2>2 DEF Stop, history, NothingIsLost, Kept, Accounted
  <2> QED BY <2>1, <2>2
<1>4. ASSUME NEW c \in Clients, NEW j \in Jobs,
             Enqueue(c, j) \/ EnqueueFlow(c, j) \/ EnqueueInBlock(c, j) \/ Relay(c, j)
      PROVE  NothingIsLost'
  <2>1. Accounted(j)' /\ UNCHANGED history
        /\ \A i \in Jobs \ {j} : state'[i] = state[i] /\ record'[i] = record[i]
    BY <1>4 DEF Enqueue, EnqueueFlow, EnqueueInBlock, Relay, Store, Kept, Accounted, TypeOK
  <2> QED BY <1>2, <2>1
<1>5. ASSUME NEW j \in Jobs, Occurs(j) \/ Retry(j) PROVE NothingIsLost'
  <2>1. Accounted(j)' /\ UNCHANGED history
        /\ \A i \in Jobs \ {j} : state'[i] = state[i] /\ record'[i] = record[i]
    BY <1>5 DEF Occurs, Retry, Store, Kept, Accounted, TypeOK
  <2> QED BY <1>2, <2>1
<1>6. ASSUME NEW j \in Jobs, Discard(j) PROVE NothingIsLost'
  BY <1>6, NothingLetGo DEF Discard, Kept, Accounted, TypeOK
<1>7. ASSUME NEW c \in Clients, NEW j \in Jobs, NEW k \in Jobs, Replay(c, j, k)
      PROVE  NothingIsLost'
  <2>1. /\ state[k] = "none" /\ ~Accounted(k) /\ j # k
        /\ Accounted(k)' /\ source'[k] = source[j] /\ UNCHANGED dropped
    BY <1>7 DEF Replay, Store, Kept, Accounted, RecordsAreOfJobs, TypeOK
  <2>2. \A i \in Jobs \ {k} : source'[i] = source[i] /\ state'[i] = state[i]
    BY <1>7 DEF Replay, Store, TypeOK
  <2>3. \A i \in Jobs \ {j, k} : Accounted(i) => Accounted(i)'
    BY <1>7, <2>2 DEF Replay, Store, Kept, Accounted, TypeOK
  <2>4. \A i \in Jobs : Accounted(i) => \E x \in Jobs : source'[x] = source[i] /\ Accounted(x)'
    BY <2>1, <2>2, <2>3
  <2>5. state[j] # "none"
    BY <1>7 DEF Replay, RecordsAreOfJobs
  <2>6. ASSUME NEW i \in Jobs, state'[i] # "none"
        PROVE  source'[i] \in dropped' \/ \E x \in Jobs : source'[x] = source'[i] /\ Accounted(x)'
    <3>1. CASE i = k
      BY <2>1, <3>1
    <3>2. CASE i # k
      BY <2>1, <2>2, <2>4, <2>6, <3>2 DEF NothingIsLost
    <3> QED BY <3>1, <3>2
  <2> QED BY <2>6 DEF NothingIsLost
<1>8. ASSUME NEW w \in Workers, NEW j \in Jobs, Dispatch(w, j) PROVE NothingIsLost'
  <2>1. /\ Accounted(j)' \/ source[j] \in dropped'
        /\ UNCHANGED source /\ dropped \subseteq dropped'
        /\ \A i \in Jobs \ {j} : state'[i] = state[i] /\ record'[i] = record[i]
    BY <1>8 DEF Dispatch, Refuse, Report, BeginMigration, Kept, Accounted, TypeOK, Reasons, history
  <2> QED BY <1>0, <2>1
<1>9. ASSUME NEW w \in Workers, MigrateStep(w) PROVE NothingIsLost'
  BY <1>9 DEF MigrateStep, jobVars, history, NothingIsLost, Kept, Accounted
<1>10. ASSUME NEW w \in Workers, Unreadable(w) \/ ChildrenFor(w) \/ HandlerEnds(w)
       PROVE  NothingIsLost'
  <2>1. PICK j \in Jobs : j = taken[w]
    BY <1>10 DEF Unreadable, ChildrenFor, HandlerEnds, DeliveryInv
  <2>2. CASE UNCHANGED <<jobVars, history>>
    BY <2>2 DEF jobVars, history, NothingIsLost, Kept, Accounted
  <2>3. CASE ~UNCHANGED <<jobVars, history>>
    <3>1. /\ Accounted(j)' \/ source[j] \in dropped'
          /\ UNCHANGED source /\ dropped \subseteq dropped'
          /\ \A i \in Jobs \ {j} : state'[i] = state[i] /\ record'[i] = record[i]
      BY <1>10, <2>1, <2>3
         DEF Unreadable, ChildrenFor, HandlerEnds, Bury, Report, Kept, Accounted, TypeOK, jobVars, history
    <3> QED BY <1>0, <2>1, <3>1
  <2> QED BY <2>2, <2>3
<1> QED BY <1>1, <1>3, <1>4, <1>5, <1>6, <1>7, <1>8, <1>9, <1>10 DEF Next

-----------------------------------------------------------------------------
\* The initial states: every process on the first build, nothing enqueued.
LEMMA InitIndInv == Init => IndInv
<1> SUFFICES ASSUME Init PROVE IndInv
  OBVIOUS
<1>1. /\ Envelope(0, "single", {}) \in Envelopes
      /\ Envelope(0, "single", {}).data = Raw(Envelope(0, "single", {}).v)
  BY EnvelopeWritten DEF Origins
<1>2. Raw(0) \in Datas
  BY EmptySeq DEF Raw, Datas
<1>3. TypeOK
  BY <1>1, <1>2, TemplateWritten, DefinitionTyped DEF Init, TypeOK, Processes, States, Reasons
<1>4. StoredIsRaw
  BY <1>1, TemplateWritten DEF Init, StoredIsRaw
<1>5. InOrder
  BY TemplateWritten, DefinitionTyped DEF Init, InOrder, Processes
<1>6. RecordsAreOfJobs /\ NothingIsLost
  BY DEF Init, RecordsAreOfJobs, NothingIsLost
<1>7. \A w \in Workers : DeliveryInv(w)
  BY DEF Init, DeliveryInv
<1> QED BY <1>3, <1>4, <1>5, <1>6, <1>7 DEF IndInv

\* Every step keeps the inductive invariant.
LEMMA NextIndInv == IndInv /\ [Next]_vars => IndInv'
<1> SUFFICES ASSUME IndInv, [Next]_vars PROVE IndInv'
  OBVIOUS
<1>1. CASE Next
  BY <1>1, TypeNext, RawNext, DeliveryNext, InOrderNext, RecordsNext, LostNext DEF IndInv
<1>2. CASE UNCHANGED vars
  BY <1>2 DEF vars, rollout, jobVars, deliveryVars, history, IndInv, TypeOK, StoredIsRaw,
              InOrder, RecordsAreOfJobs, NothingIsLost, Kept, Accounted, DeliveryInv, Raised, Def, Up
<1> QED BY <1>1, <1>2

\* Init => IndInv and its preservation give the invariant of the rollout.
THEOREM InvariantHolds == Spec => []IndInv
BY InitIndInv, NextIndInv, PTL DEF Spec

\* A handler sees its producer's payload raised to exactly its own version,
\* whatever builds the envelope passed through.
THEOREM HandlerSeesItsVersionHolds == Spec => []HandlerSeesItsVersion
<1>1. IndInv => HandlerSeesItsVersion
  BY DEF IndInv, DeliveryInv, HandlerSeesItsVersion
<1> QED BY <1>1, InvariantHolds, PTL

\* A handler that waits on children never runs over an envelope no flow filled.
THEOREM HandlerSeesItsSlotsHolds == Spec => []HandlerSeesItsSlots
<1>1. IndInv => HandlerSeesItsSlots
  BY DEF IndInv, DeliveryInv, HandlerSeesItsSlots
<1> QED BY <1>1, InvariantHolds, PTL

\* In the rollout the docs ask for, no job is ever refused as ahead.
THEOREM NothingIsAheadInOrderHolds == Spec => []NothingIsAheadInOrder
<1>1. IndInv => NothingIsAheadInOrder
  BY DEF IndInv, InOrder, NothingIsAheadInOrder
<1> QED BY <1>1, InvariantHolds, PTL

\* No enqueue is lost in a rollout.
THEOREM NothingIsLostHolds == Spec => []NothingIsLost
<1>1. IndInv => NothingIsLost
  BY DEF IndInv
<1> QED BY <1>1, InvariantHolds, PTL

=============================================================================

----------------------------- MODULE DeadReplay -----------------------------
(***************************************************************************)
(* jobs.dead.replay and jobs.dead.discard (Client.ts) over the dead record *)
(* of one job whose payload names an idempotency key, composed with that   *)
(* key and its deliveries (Idempotency).                                   *)
(*                                                                         *)
(* A replay is three acts, each a round trip of its own: it forgets the    *)
(* key, enqueues a job, drops the record.  Operators are clients in other  *)
(* processes: two may replay the same record, and any may die midway.      *)
(***************************************************************************)
EXTENDS Idempotency

CONSTANTS
  Operators,
  Originals     \* deliveries of jobs enqueued before any replay

ASSUME OriginalsAssumption == Originals \subseteq Deliveries

VARIABLES
  ready,        \* deliveries whose job is enqueued
  record,       \* the dead queue keeps the record
  buried,       \* deliveries whose failure buried the job
  at,           \* where each operator's call stands
  spent,        \* history: what had returned and settled when it forgot the key
  replays,      \* deliveries enqueued by a replay
  before,       \* history: `spent` of the replay each of them comes from
  dropped       \* history: the record was discarded

replayVars == <<ready, record, buried, at, spent, replays, before, dropped>>
allVars    == <<vars, replayVars>>

ReplayTypeOK ==
  /\ ready \subseteq Deliveries /\ replays \subseteq ready
  /\ buried \subseteq Deliveries
  /\ record \in BOOLEAN /\ dropped \in BOOLEAN
  /\ at \in [Operators -> {"idle", "read", "forgot", "enqueued", "done", "refused"}]
  /\ spent \in [Operators -> SUBSET Deliveries]
  /\ before \in [Deliveries -> SUBSET Deliveries]

ReplayInit ==
  /\ Init
  /\ ready = Originals /\ replays = {} /\ buried = {}
  /\ record = FALSE /\ dropped = FALSE
  /\ at = [o \in Operators |-> "idle"]
  /\ spent = [o \in Operators |-> {}]
  /\ before = [d \in Deliveries |-> {}]

\* The report of a delivery that gave up writes the record; a detached body may
\* still be running then.
Bury(d) ==
  /\ buried = {} /\ pc[d] \in {"failed", "detached", "trailing", "ended"}
  /\ d \notin replays
  /\ buried' = {d} /\ record' = TRUE
  /\ UNCHANGED <<vars, ready, at, spent, replays, before, dropped>>

\* dead.read finds the record; the definition is known, not part of a flow, and
\* the payload migrates and validates.
ReplayReads(o) ==
  /\ at[o] = "idle" /\ record
  /\ at' = [at EXCEPT ![o] = "read"]
  /\ UNCHANGED <<vars, ready, record, buried, spent, replays, before, dropped>>

Settled == {d \in Deliveries : Returned(d) /\ pc[d] \in Ends}

ReplayForgets_Skipped(o) ==
  /\ at[o] = "read"
  /\ at' = [at EXCEPT ![o] = IF keyState = "running" THEN "refused" ELSE "forgot"]
  /\ spent' = [spent EXCEPT ![o] = Settled]
  /\ UNCHANGED <<vars, ready, record, buried, replays, before, dropped>>

ReplayForgets_TakesLease(o) ==
  /\ at[o] = "read"
  /\ ForgetLua_TakesLease
  /\ troubled' = (troubled \/ keyState = "complete")
  /\ at' = [at EXCEPT ![o] = "forgot"]
  /\ spent' = [spent EXCEPT ![o] = Settled]
  /\ UNCHANGED <<callVars, due, missed, lapsed, ready, record, buried, replays, before,
                 dropped>>

\* forgetKey: a held key refuses the replay, a complete one is deleted.
ReplayForgets(o) ==
  /\ at[o] = "read"
  /\ ForgetLua
  /\ troubled' = (troubled \/ keyState = "complete")
  /\ at' = [at EXCEPT ![o] = IF keyState = "running" THEN "refused" ELSE "forgot"]
  /\ spent' = [spent EXCEPT ![o] = Settled]
  /\ UNCHANGED <<callVars, due, missed, lapsed, ready, record, buried, replays, before,
                 dropped>>

ReplayEnqueues_AfterDrop(o, d) ==
  /\ at[o] = "forgot" /\ d \notin ready
  /\ record' = FALSE
  /\ at' = [at EXCEPT ![o] = "enqueued"]
  /\ UNCHANGED <<vars, ready, buried, spent, replays, before, dropped>>

\* driver.enqueue without uniqueness: a new job, with deliveries of its own.
ReplayEnqueues(o, d) ==
  /\ at[o] = "forgot" /\ d \notin ready
  /\ ready' = ready \cup {d}
  /\ replays' = replays \cup {d}
  /\ before' = [before EXCEPT ![d] = spent[o]]
  /\ at' = [at EXCEPT ![o] = "enqueued"]
  /\ UNCHANGED <<vars, record, buried, spent, dropped>>

\* dead.remove; its answer is not looked at.
ReplayDrops(o) ==
  /\ at[o] = "enqueued"
  /\ record' = FALSE
  /\ at' = [at EXCEPT ![o] = "done"]
  /\ UNCHANGED <<vars, ready, buried, spent, replays, before, dropped>>

\* A round trip of the replay rejects, or the operator's process dies: what was
\* done stays done, and the operator may try again.
ReplayFails(o) ==
  /\ at[o] \in {"read", "forgot", "enqueued"}
  /\ at' = [at EXCEPT ![o] = "idle"]
  /\ spent' = [spent EXCEPT ![o] = {}]
  /\ UNCHANGED <<vars, ready, record, buried, replays, before, dropped>>

\* An operator refused by a held key asks again later.
ReplayAgain(o) ==
  /\ at[o] = "refused"
  /\ at' = [at EXCEPT ![o] = "idle"]
  /\ spent' = [spent EXCEPT ![o] = {}]
  /\ UNCHANGED <<vars, ready, record, buried, replays, before, dropped>>

\* jobs.dead.discard drops the record and enqueues nothing.
Discard ==
  /\ record
  /\ record' = FALSE /\ dropped' = TRUE
  /\ UNCHANGED <<vars, ready, buried, at, spent, replays, before>>

\* The key and its deliveries move as Idempotency says; a delivery is handed out
\* only once its job is enqueued.
KeySteps ==
  /\ Next
  /\ \A d \in Deliveries \ ready : pc'[d] = pc[d]
  /\ UNCHANGED replayVars

ReplayNext ==
  \/ KeySteps
  \/ \E d \in Deliveries : Bury(d)
  \/ \E o \in Operators :
       \/ ReplayReads(o) \/ ReplayForgets(o)
       \/ \E d \in Deliveries : ReplayEnqueues(o, d)
       \/ ReplayDrops(o) \/ ReplayFails(o) \/ ReplayAgain(o)
  \/ Discard

ReplaySpec == ReplayInit /\ [][ReplayNext]_allVars

-----------------------------------------------------------------------------
\* A replay never hands back what was kept before it: when its delivery is
\* answered from a complete key, the body that completed it had not yet settled
\* when the replay forgot the key.
ReplayOutlivesOldResult ==
  \A d \in replays : pc[d] = "answered" => answer[d] \notin before[d]

\* A buried job is never lost, whoever fails or dies in the middle of a replay:
\* its record is kept, or a replay enqueued it, or an operator discarded it.
DeadJobNotLost == buried # {} => record \/ replays # {} \/ dropped

\* Replays reach the key only as an operator's forget does: every behaviour of
\* the composition is one of the key alone, so what is proved of Idempotency
\* holds here.
ReplayImplementsKey == Spec

-----------------------------------------------------------------------------
(***************************************************************************)
(* The inductive invariant behind the properties, beside IndInv of the     *)
(* key.                                                                    *)
(***************************************************************************)

\* No delivery of S settles again, and the key keeps no result of one: what a
\* replay's forget leaves behind for good.
LeftBehind(S) == S \subseteq Settled /\ (keyState = "complete" => kept \notin S)

ReplayInv ==
  /\ ReplayTypeOK
  /\ \A d \in Deliveries \ ready : pc[d] = "idle"
  /\ \A o \in Operators : at[o] = "forgot" => LeftBehind(spent[o])
  /\ \A o \in Operators : at[o] = "enqueued" => replays # {}
  /\ \A d \in replays : LeftBehind(before[d])
  /\ ReplayOutlivesOldResult
  /\ DeadJobNotLost

=============================================================================

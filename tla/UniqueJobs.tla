----------------------------- MODULE UniqueJobs -----------------------------
(***************************************************************************)
(* The jobs of one uniqueness key: what Delivery.ts resolves a `unique`    *)
(* policy to, the deduplication options RedisDriver.ts adds a job with,    *)
(* and what becomes of several enqueues that share the key while jobs      *)
(* wait, run, fail, are retried, replayed and cancelled.                   *)
(*                                                                         *)
(* BullMQ decides atomically in `add`.  The deduplication key names the    *)
(* job it guards; it goes with its ttl or, without one, when that job      *)
(* finishes or is removed.                                                 *)
(***************************************************************************)
EXTENDS Naturals

CONSTANTS
  Policies,      \* delivery policies: a mode, its ttlMs and the delayMs
  Jobs,          \* ids of jobs
  NoJob,
  MaxEnqueues    \* bound: calls of jobs.enqueue

Modes == {"keepFirst", "keepLast", "noOverlap"}

\* A ttlMs or delayMs of 0 stands for one that is not given.
ASSUME PoliciesAssumption == Policies \subseteq [mode : Modes, ttlMs : Nat, delayMs : Nat]
ASSUME NoJobAssumption == NoJob \notin Jobs
ASSUME MaxEnqueuesAssumption == MaxEnqueues \in Nat

VARIABLES
  policy,        \* what the definition declares
  state,         \* where each job is
  wait,          \* what is left of a delayed job's delay
  key,           \* the job the deduplication key names
  ttl,           \* what is left of the key's window, 0 for a key without one
  next,          \* BullMQ keeps a later enqueue behind the active job
  enqueues,
  plain,         \* jobs stored without uniqueness
  retried,       \* history: jobs an operator retried
  outrun,        \* history: the delay of the job a keepLast key names ran ahead
                 \* of the key's window
  owed           \* history: no body of a unique job started since the last
                 \* enqueue, and none was cancelled

vars == <<policy, state, wait, key, ttl, next, enqueues, plain, retried, outrun, owed>>

Live   == {"delayed", "waiting", "active"}
States == Live \cup {"none", "completed", "failed", "removed"}

TypeOK ==
  /\ policy \in Policies
  /\ state \in [Jobs -> States]
  /\ wait \in [Jobs -> Nat]
  /\ key \in Jobs \cup {NoJob}
  /\ ttl \in Nat
  /\ next \in BOOLEAN
  /\ enqueues \in 0..MaxEnqueues
  /\ plain \subseteq Jobs
  /\ retried \subseteq Jobs
  /\ outrun \in BOOLEAN
  /\ owed \in BOOLEAN

Init ==
  /\ policy \in Policies
  /\ state = [j \in Jobs |-> "none"] /\ wait = [j \in Jobs |-> 0]
  /\ key = NoJob /\ ttl = 0 /\ next = FALSE
  /\ enqueues = 0 /\ plain = {} /\ retried = {}
  /\ outrun = FALSE /\ owed = FALSE

-----------------------------------------------------------------------------
(* What a policy resolves to.                                              *)

\* resolveUnique: keepLast needs a window.
ResolveUnique(p) == p.mode = "keepLast" => p.ttlMs > 0

\* toDeduplication: noOverlap has no ttl, whatever the policy gives.
DeduplicationTtl(p) == IF p.mode = "noOverlap" THEN 0 ELSE p.ttlMs

KeepLastIfActive_Never(p) == FALSE

KeepLastIfActive(p) == p.mode = "noOverlap"
Replace(p)          == p.mode = "keepLast"

\* resolveDelayMs: a keepLast job waits out its window at least.
ResolveDelayMs(p, mode) ==
  IF mode = "keepLast" /\ p.ttlMs > p.delayMs THEN p.ttlMs ELSE p.delayMs

-----------------------------------------------------------------------------
(* Enqueues.                                                               *)

\* The job is stored, behind its delay if it has one.
Stored(states, j, delay) == [states EXCEPT ![j] = IF delay > 0 THEN "delayed" ELSE "waiting"]

AddUnique_WithoutKey(j, states) ==
  /\ state' = Stored(states, j, ResolveDelayMs(policy, policy.mode))
  /\ wait' = [wait EXCEPT ![j] = ResolveDelayMs(policy, policy.mode)]
  /\ UNCHANGED <<key, ttl, next, outrun>>

\* The key is free: j takes it.
AddUnique(j, states) ==
  /\ state' = Stored(states, j, ResolveDelayMs(policy, policy.mode))
  /\ wait' = [wait EXCEPT ![j] = ResolveDelayMs(policy, policy.mode)]
  /\ key' = j /\ ttl' = DeduplicationTtl(policy) /\ outrun' = FALSE
  /\ UNCHANGED next

\* jobs.enqueue.  A taken key drops the enqueue, unless it replaces the delayed
\* job the key names, or is kept behind the active one.
Enqueue(j) ==
  /\ state[j] = "none" /\ enqueues < MaxEnqueues /\ ResolveUnique(policy)
  /\ \/ key = NoJob /\ AddUnique(j, state)
     \/ /\ key # NoJob /\ Replace(policy) /\ state[key] = "delayed"
        /\ AddUnique(j, [state EXCEPT ![key] = "removed"])
     \/ /\ key # NoJob /\ KeepLastIfActive(policy) /\ state[key] = "active"
        /\ next' = TRUE /\ UNCHANGED <<state, wait, key, ttl, outrun>>
     \/ /\ key # NoJob
        /\ ~(Replace(policy) /\ state[key] = "delayed")
        /\ ~(KeepLastIfActive(policy) /\ state[key] = "active")
        /\ UNCHANGED <<state, wait, key, ttl, next, outrun>>
  /\ enqueues' = enqueues + 1 /\ owed' = TRUE
  /\ UNCHANGED <<policy, plain, retried>>

\* jobs.dead.replay stores a job without uniqueness, as the relay and a schedule
\* do (resolveDeliveryWithoutUniqueness).
EnqueueWithoutUniqueness(j) ==
  /\ state[j] = "none" /\ enqueues < MaxEnqueues
  /\ state' = Stored(state, j, ResolveDelayMs(policy, "none"))
  /\ wait' = [wait EXCEPT ![j] = ResolveDelayMs(policy, "none")]
  /\ plain' = plain \cup {j}
  /\ enqueues' = enqueues + 1
  /\ UNCHANGED <<policy, key, ttl, next, retried, outrun, owed>>

-----------------------------------------------------------------------------
(* What becomes of the jobs.                                               *)

\* Time passes: for the delays, which count from the client's timestamp and end by
\* a worker's clock, for the key's window, which Redis counts from the add, or for
\* both.  Latency and skew set them apart by any amount.
Tick(delays, window) ==
  /\ delays => \E j \in Jobs : state[j] = "delayed" /\ wait[j] > 0
  /\ window => ttl > 0
  /\ delays \/ window
  /\ wait' = IF delays THEN [j \in Jobs |-> IF wait[j] > 0 THEN wait[j] - 1 ELSE 0] ELSE wait
  /\ ttl' = IF window THEN ttl - 1 ELSE ttl
  /\ key' = IF window /\ ttl = 1 THEN NoJob ELSE key
  /\ outrun' = (outrun \/ (Replace(policy) /\ key' # NoJob /\ wait'[key'] < ttl'))
  /\ UNCHANGED <<policy, state, next, enqueues, plain, retried, owed>>

Promote(j) ==
  /\ state[j] = "delayed" /\ wait[j] = 0
  /\ state' = [state EXCEPT ![j] = "waiting"]
  /\ UNCHANGED <<policy, wait, key, ttl, next, enqueues, plain, retried, outrun, owed>>

\* A worker takes the job and calls the handler.
BodyStarts(j) ==
  /\ state[j] = "waiting"
  /\ state' = [state EXCEPT ![j] = "active"]
  /\ owed' = (owed /\ j \in plain \cup retried)
  /\ UNCHANGED <<policy, wait, key, ttl, next, enqueues, plain, retried, outrun>>

\* BullMQ lets go of a key without a ttl with its job; what it kept behind that
\* job becomes a job k of its own, under the key.
LetGo(j, states, k) ==
  IF key # j \/ ttl > 0
  THEN state' = states /\ UNCHANGED <<wait, key, next>>
  ELSE IF ~next
  THEN state' = states /\ key' = NoJob /\ UNCHANGED <<wait, next>>
  ELSE /\ states[k] = "none"
       /\ state' = Stored(states, k, ResolveDelayMs(policy, policy.mode))
       /\ wait' = [wait EXCEPT ![k] = ResolveDelayMs(policy, policy.mode)]
       /\ key' = k /\ next' = FALSE

\* The delivery ends, for good or with an attempt left.
AttemptEnds(j, end, k) ==
  /\ state[j] = "active"
  /\ IF end = "waiting"
     THEN state' = [state EXCEPT ![j] = "waiting"] /\ UNCHANGED <<wait, key, next>>
     ELSE LetGo(j, [state EXCEPT ![j] = end], k)
  /\ UNCHANGED <<policy, ttl, enqueues, plain, retried, outrun, owed>>

\* jobs.retry queues a failed job again; the key it let go of is not taken back.
Retry(j) ==
  /\ state[j] = "failed"
  /\ state' = [state EXCEPT ![j] = "waiting"]
  /\ retried' = retried \cup {j}
  /\ UNCHANGED <<policy, wait, key, ttl, next, enqueues, plain, outrun, owed>>

\* jobs.cancel removes a job that is not running, and its key with it.
Cancel(j) ==
  /\ state[j] \in {"delayed", "waiting"}
  /\ state' = [state EXCEPT ![j] = "removed"]
  /\ IF key = j THEN key' = NoJob /\ ttl' = 0 /\ next' = FALSE
                ELSE UNCHANGED <<key, ttl, next>>
  /\ owed' = (owed /\ j \in plain \cup retried)
  /\ UNCHANGED <<policy, wait, enqueues, plain, retried, outrun>>

Next ==
  \/ \E delays, window \in BOOLEAN : Tick(delays, window)
  \/ \E j \in Jobs :
       \/ Enqueue(j) \/ EnqueueWithoutUniqueness(j) \/ Promote(j) \/ BodyStarts(j)
       \/ Retry(j) \/ Cancel(j)
       \/ \E end \in {"completed", "failed", "waiting"}, k \in Jobs : AttemptEnds(j, end, k)

Spec == Init /\ [][Next]_vars

-----------------------------------------------------------------------------
(* Properties                                                              *)

\* Two deliveries of a noOverlap key run side by side only if one of them is of
\* a job an operator retried or that was stored without uniqueness; the same of
\* keepFirst without a window.  (A body that timeoutMs or a stall cut off from
\* its delivery is the runtime's, and is not counted.)
NoUnexcusedOverlap ==
  policy.mode = "noOverlap" \/ (policy.mode = "keepFirst" /\ policy.ttlMs = 0) =>
    \A j, k \in {i \in Jobs : state[i] = "active"} \ (plain \cup retried) : j = k

\* Work that must reflect the latest enqueue always runs after it: with
\* keepLast and noOverlap, as long as no body started since the last enqueue a
\* job of the key is on its way, or is kept behind the active one.  Retries and
\* replays by an operator neither count nor get in the way.  One case is excused,
\* because resolveDelayMs gives a keepLast job a delay as long as its window and
\* no longer: when the delay is over before the window, by latency or by the
\* clocks, the job leaves the reach of a replacement while its key still swallows
\* enqueues, and what they asked for is not run.
EnqueueIsFollowedByRun ==
  policy.mode \in {"keepLast", "noOverlap"} /\ owed =>
    \/ next \/ \E j \in Jobs \ (plain \cup retried) : state[j] \in {"delayed", "waiting"}
    \/ policy.mode = "keepLast" /\ outrun

-----------------------------------------------------------------------------
(***************************************************************************)
(* The inductive invariant behind the properties.                          *)
(***************************************************************************)

Excused == plain \cup retried

\* The modes whose key lasts as long as its job.
KeyLastsWithJob == policy.mode = "noOverlap" \/ (policy.mode = "keepFirst" /\ policy.ttlMs = 0)

UnstoredIsNotExcused == \A j \in Jobs : state[j] = "none" => j \notin Excused

\* The key names every live job that has no excuse, and only such a job.
KeyNamesTheJob ==
  KeyLastsWithJob =>
    /\ ttl = 0
    /\ \A j \in Jobs \ Excused : state[j] \in Live => key = j
    /\ key # NoJob => state[key] \in Live /\ key \notin Excused

\* A keepLast key has a window and names a stored job; unless the delay of that
\* job ran ahead, the window does not outlast it.
WindowWithinDelay ==
  policy.mode = "keepLast" /\ key # NoJob =>
    /\ state[key] # "none" /\ ttl > 0
    /\ ~outrun => state[key] = "delayed" /\ key \notin Excused /\ wait[key] >= ttl

NextIsBehindTheKey == next => key # NoJob /\ policy.mode = "noOverlap"

IndInv ==
  /\ TypeOK /\ UnstoredIsNotExcused /\ KeyNamesTheJob /\ WindowWithinDelay
  /\ NextIsBehindTheKey /\ EnqueueIsFollowedByRun

=============================================================================

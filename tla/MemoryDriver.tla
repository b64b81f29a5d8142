---------------------------- MODULE MemoryDriver ----------------------------
(***************************************************************************)
(* memoryDriver (testing/index.ts), the driver tests run against: the list *)
(* of recorded jobs, the line of pending ones, and the cancellation marks, *)
(* composed with the store of the key the jobs run under (MemoryKey).      *)
(* One queue; the runs of handlers overlap when a test does not await      *)
(* runNext.  A member of Jobs is one MemoryJob object.                     *)
(***************************************************************************)
EXTENDS MemoryKey, Sequences, SequencesExt

CONSTANTS
  Jobs,          \* the MemoryJob objects enqueues create
  Keyed,         \* the jobs whose definition names the key
  RowId,         \* a job id an enqueue derives from an outbox row
  MaxStarts      \* bound: deliveries of one job

ASSUME MaxStartsAssumption == MaxStarts \in Nat
ASSUME KeyedAssumption     == Keyed \subseteq Jobs
ASSUME RunsAssumption      == Deliveries = Keyed \X (1..MaxStarts)

VARIABLES
  recorded, pending,               \* sequences of jobs
  id, state, attempts, started,    \* the fields of each job
  marked,                          \* the delivery each id is cancelled for
  paused, consumed                 \* the queue is paused, has a consumer

fields == <<id, state, attempts, started>>
lines  == <<recorded, pending>>
driverVars == <<lines, fields, marked, paused, consumed>>
allVars == <<vars, driverVars>>

\* Where the latest run of a keyed job stands in runUnderKey.
Place(j) == pc[<<j, started[j]>>]

Ids == Nat \cup {RowId}

TypeOK ==
  /\ recorded \in Seq(Jobs) /\ pending \in Seq(Jobs)
  /\ state \in [Jobs -> {"none", "waiting", "active", "completed", "failed", "removed"}]
  /\ attempts \in [Jobs -> 0..MaxStarts]
  /\ started \in [Jobs -> 0..MaxStarts]
  /\ \A j \in Jobs : id[j] \in Ids /\ attempts[j] <= started[j]
  /\ \A k \in DOMAIN marked : marked[k] \in 1..MaxStarts
  /\ paused \in BOOLEAN /\ consumed \in BOOLEAN

DriverInit ==
  /\ Init
  /\ recorded = <<>> /\ pending = <<>>
  /\ id = [j \in Jobs |-> 0]
  /\ state = [j \in Jobs |-> "none"]
  /\ attempts = [j \in Jobs |-> 0]
  /\ started = [j \in Jobs |-> 0]
  /\ marked = [k \in {} |-> 0]
  /\ paused = FALSE /\ consumed = FALSE

\* jobAt: the first recorded job that answers to the id.
Answering(k) == SelectInSeq(recorded, LAMBDA j : id[j] = k)
Known(k)     == Answering(k) # 0
JobAt(k)     == recorded[Answering(k)]

-----------------------------------------------------------------------------
\* enqueue: a kept id gives the kept job back; without an id of the caller's the
\* job is numbered after the length of `recorded`.
Enqueue(j, given) ==
  /\ state[j] = "none"
  /\ given => ~Known(RowId)
  /\ id' = [id EXCEPT ![j] = IF given THEN RowId ELSE Len(recorded) + 1]
  /\ state' = [state EXCEPT ![j] = "waiting"]
  /\ recorded' = Append(recorded, j)
  /\ pending' = Append(pending, j)
  /\ UNCHANGED <<vars, attempts, started, marked, paused, consumed>>

\* runNext hands the first pending job of a queue that is not paused to its
\* consumer; drain does the same over and over.
RunNext ==
  /\ pending # <<>> /\ ~paused /\ consumed
  /\ LET j == Head(pending)
     IN /\ started[j] < MaxStarts
        /\ pending' = Tail(pending)
        /\ state' = [state EXCEPT ![j] = "active"]
        /\ started' = [started EXCEPT ![j] = @ + 1]
  /\ UNCHANGED <<vars, recorded, id, attempts, marked, paused, consumed>>

\* A run's promise settles: completed with the body's result or a kept one; failed
\* with an error of the prologue, of the body, or of timeoutMs, whatever the body
\* does after it.
RunEnds(j, how) ==
  /\ state[j] = "active"
  /\ j \in Keyed =>
       Place(j) \in IF how = "completed" THEN {"answered", "returned"}
                    ELSE {"idle", "failed", "detached", "trailing", "ended"}
  /\ state' = [state EXCEPT ![j] = how]
  /\ attempts' = [attempts EXCEPT ![j] = @ + 1]
  /\ UNCHANGED <<vars, lines, id, started, marked, paused, consumed>>

RunHeld_StaysOut(j) ==
  /\ j \in Keyed /\ state[j] = "active" /\ Place(j) = "held"
  /\ state' = [state EXCEPT ![j] = "waiting"]
  /\ UNCHANGED <<vars, lines, id, attempts, started, marked, paused, consumed>>

\* The run met a held key: the job goes back to the head of the line, and
\* runNext throws that it cannot reschedule it.
RunHeld(j) ==
  /\ j \in Keyed /\ state[j] = "active" /\ Place(j) = "held"
  /\ state' = [state EXCEPT ![j] = "waiting"]
  /\ pending' = <<j>> \o pending
  /\ UNCHANGED <<vars, recorded, id, attempts, started, marked, paused, consumed>>

\* jobs.retry of a failed job; any other answers unknown_job or not_failed.
Retry(k) ==
  /\ Known(k) /\ state[JobAt(k)] = "failed"
  /\ state' = [state EXCEPT ![JobAt(k)] = "waiting"]
  /\ attempts' = [attempts EXCEPT ![JobAt(k)] = 0]
  /\ pending' = Append(pending, JobAt(k))
  /\ UNCHANGED <<vars, recorded, id, started, marked, paused, consumed>>

\* splice(indexOf(j), 1), which takes the last element when j is not there.
Spliced(s, j) ==
  LET at == SelectInSeq(s, LAMBDA i : i = j)
  IN IF s = <<>> THEN s ELSE RemoveAt(s, IF at = 0 THEN Len(s) ELSE at)

\* jobs.cancel of a waiting job takes it out of both lists; nothing refers to the
\* object then, and its fields are given a constant value.
CancelRemoves(k) ==
  /\ Known(k) /\ state[JobAt(k)] = "waiting"
  /\ pending' = Spliced(pending, JobAt(k))
  /\ recorded' = Spliced(recorded, JobAt(k))
  /\ state' = [state EXCEPT ![JobAt(k)] = "removed"]
  /\ id' = [id EXCEPT ![JobAt(k)] = 0]
  /\ attempts' = [attempts EXCEPT ![JobAt(k)] = 0]
  /\ started' = [started EXCEPT ![JobAt(k)] = 0]
  /\ UNCHANGED <<vars, marked, paused, consumed>>

\* jobs.cancel of a running job marks the delivery under way.
CancelMarks(k) ==
  /\ Known(k) /\ state[JobAt(k)] = "active"
  /\ marked' = [x \in DOMAIN marked \cup {k} |->
       IF x = k THEN started[JobAt(k)] ELSE marked[x]]
  /\ UNCHANGED <<vars, lines, fields, paused, consumed>>

\* The runtime's sweep asks for a running delivery: takeCancellation hands out
\* the mark of its id if it names this delivery.
TakeCancelled(j) ==
  /\ state[j] = "active" /\ id[j] \in DOMAIN marked
  /\ marked[id[j]] = started[j]
  /\ marked' = [x \in DOMAIN marked \ {id[j]} |-> marked[x]]
  /\ UNCHANGED <<vars, lines, fields, paused, consumed>>

\* pause and resume; consume and Consumer.close.
Pause(on) ==
  /\ paused # on /\ paused' = on
  /\ UNCHANGED <<vars, lines, fields, marked, consumed>>

Consume(on) ==
  /\ consumed # on /\ consumed' = on
  /\ UNCHANGED <<vars, lines, fields, marked, paused>>

-----------------------------------------------------------------------------
\* The key and the calls over it move as MemoryKey says; a call is made by a run
\* under way.
KeySteps ==
  /\ Next
  /\ \A j \in Keyed, n \in 1..MaxStarts :
       pc[<<j, n>>] = "idle" /\ pc'[<<j, n>>] # "idle" =>
         state[j] = "active" /\ started[j] = n
  /\ UNCHANGED driverVars

DriverNext ==
  \/ KeySteps
  \/ \E j \in Jobs :
       \/ \E given \in BOOLEAN : Enqueue(j, given)
       \/ \E how \in {"completed", "failed"} : RunEnds(j, how)
       \/ RunHeld(j) \/ TakeCancelled(j)
       \/ Retry(id[j]) \/ CancelRemoves(id[j]) \/ CancelMarks(id[j])
  \/ RunNext
  \/ \E on \in BOOLEAN : Pause(on) \/ Consume(on)

DriverSpec == DriverInit /\ [][DriverNext]_allVars

-----------------------------------------------------------------------------
\* The line of pending jobs is exactly the recorded jobs that wait, each once:
\* no order of runs, retries, cancellations and held keys runs a job twice over
\* or leaves one that nothing will ever run.
PendingIsWaiting ==
  /\ Len(pending) = Cardinality(ToSet(pending))
  /\ ToSet(pending) = {j \in ToSet(recorded) : state[j] = "waiting"}

-----------------------------------------------------------------------------
(***************************************************************************)
(* The inductive invariant behind PendingIsWaiting.                        *)
(***************************************************************************)

Once(s) == \A i, k \in 1..Len(s) : s[i] = s[k] => i = k

\* Each list has a job once: what `recorded` keeps is what was enqueued and not
\* removed, so a removal finds the job in both and takes no other's place.
DriverInv ==
  /\ recorded \in Seq(Jobs) /\ pending \in Seq(Jobs)
  /\ state \in [Jobs -> {"none", "waiting", "active", "completed", "failed", "removed"}]
  /\ Once(recorded) /\ Once(pending)
  /\ ToSet(recorded) = {j \in Jobs : state[j] \notin {"none", "removed"}}
  /\ ToSet(pending) = {j \in Jobs : state[j] = "waiting"}

=============================================================================

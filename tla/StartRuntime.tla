---------------------------- MODULE StartRuntime ----------------------------
(***************************************************************************)
(* jobs.start in several processes at once (startRuntime of Runtime.ts):   *)
(* the schedules of every queue are reconciled with what the code declares *)
(* (reconcileSchedules of RedisDriver.ts), then the consumers are opened.  *)
(* Every request is a round trip of its own: another process may be in the *)
(* middle of the same work, a request may fail, a process may die.         *)
(***************************************************************************)
EXTENDS Naturals, FiniteSets

CONSTANTS
  Processes,
  Queues,
  QueuesOf,      \* the queues of the handlers each process passes to start
  Schedulers,    \* names of job schedulers
  Ours,          \* the ones that carry the prefix of this library
  QueueOf,       \* the queue each scheduler is on
  Declared       \* the schedules the handlers of each process declare

ASSUME OursAssumption     == Ours \subseteq Schedulers
ASSUME QueueOfAssumption  == QueueOf \in [Schedulers -> Queues]
ASSUME QueuesOfAssumption == QueuesOf \in [Processes -> SUBSET Queues]
ASSUME DeclaredAssumption ==
  /\ Declared \in [Processes -> SUBSET Ours]
  /\ \A p \in Processes : \A s \in Declared[p] : QueueOf[s] \in QueuesOf[p]

VARIABLES
  stored,        \* the schedulers BullMQ keeps and fires
  start,         \* where each process' jobs.start stands
  todo,          \* queues it has not reconciled
  stale,         \* removals it sent that have not landed
  left,          \* declared schedules of its current queue it has not upserted
  consuming,     \* queues each process has an unclosed Worker on
  opened,        \* the ones whose consumer openConsumers holds
  refused,       \* queues whose consumer could not be opened
  unclosed       \* history: queues whose consumer could not be closed again

workVars == <<todo, stale, left>>
consumerVars == <<consuming, opened, refused, unclosed>>
startVars == <<stored, start, workVars, consumerVars>>

StartPhases == {"idle", "reading", "removing", "upserting", "opening", "closing", "started",
                "failed", "dead"}

StartTypeOK ==
  /\ stored \subseteq Schedulers
  /\ start \in [Processes -> StartPhases]
  /\ todo \in [Processes -> SUBSET Queues]
  /\ stale \in [Processes -> SUBSET Schedulers]
  /\ left \in [Processes -> SUBSET Ours]
  /\ consuming \in [Processes -> SUBSET Queues]
  /\ opened \in [Processes -> SUBSET Queues]
  /\ refused \in [Processes -> SUBSET Queues]
  /\ unclosed \in [Processes -> SUBSET Queues]

\* Redis holds whatever earlier deploys and other tools left there.
StartInit ==
  /\ stored \in {S \in SUBSET Schedulers : Schedulers \ Ours \subseteq S}
  /\ start = [p \in Processes |-> "idle"]
  /\ todo = [p \in Processes |-> {}]
  /\ stale = [p \in Processes |-> {}]
  /\ left = [p \in Processes |-> {}]
  /\ consuming = [p \in Processes |-> {}]
  /\ opened = [p \in Processes |-> {}]
  /\ refused = [p \in Processes |-> {}]
  /\ unclosed = [p \in Processes |-> {}]

Goes(p, phase) == start' = [start EXCEPT ![p] = phase]

\* The assertions of startRuntime hold and every schedule of every queue of this
\* process' handlers carries a payload its schema accepts: only then is a
\* scheduler touched.
StartCalled(p) ==
  /\ start[p] = "idle"
  /\ Goes(p, IF QueuesOf[p] = {} THEN "opening" ELSE "reading")
  /\ todo' = [todo EXCEPT ![p] = QueuesOf[p]]
  /\ UNCHANGED <<stored, stale, left, consumerVars>>

StartRefused(p) ==
  /\ start[p] = "idle"
  /\ Goes(p, "failed")
  /\ UNCHANGED <<stored, workVars, consumerVars>>

On(q) == {s \in Schedulers : QueueOf[s] = q}

Stale_EveryUndeclared(p, q) == (stored \cap On(q)) \ Declared[p]
Stale_None(p, q) == {}
Stale_AllOurs(p, q) == stored \cap On(q) \cap Ours

\* `stale`: known by the prefix alone, and not declared by this process.
Stale(p, q) == (stored \cap On(q) \cap Ours) \ Declared[p]

\* getJobSchedulers answers, and the removal of every stale scheduler is sent.
ReadsSchedulers(p, q) ==
  /\ start[p] = "reading" /\ q \in todo[p]
  /\ Goes(p, "removing")
  /\ todo' = [todo EXCEPT ![p] = @ \ {q}]
  /\ stale' = [stale EXCEPT ![p] = Stale(p, q)]
  /\ left' = [left EXCEPT ![p] = Declared[p] \cap On(q)]
  /\ UNCHANGED <<stored, consumerVars>>

\* A removal lands.  Promise.all gives up on the first one that rejects and
\* recalls none of the others, so it may land after the start failed.
Removes(p, s) ==
  /\ start[p] \in {"removing", "failed"} /\ s \in stale[p]
  /\ stored' = stored \ {s}
  /\ stale' = [stale EXCEPT ![p] = @ \ {s}]
  /\ UNCHANGED <<start, todo, left, consumerVars>>

Removed(p) ==
  /\ start[p] = "removing" /\ stale[p] = {}
  /\ Goes(p, "upserting")
  /\ UNCHANGED <<stored, workVars, consumerVars>>

\* upsertJobScheduler, one schedule after the other.
Upserts(p, s) ==
  /\ start[p] = "upserting" /\ s \in left[p]
  /\ stored' = stored \cup {s}
  /\ left' = [left EXCEPT ![p] = @ \ {s}]
  /\ UNCHANGED <<start, todo, stale, consumerVars>>

NextQueue(p) ==
  /\ start[p] = "upserting" /\ left[p] = {}
  /\ Goes(p, IF todo[p] = {} THEN "opening" ELSE "reading")
  /\ UNCHANGED <<stored, workVars, consumerVars>>

\* A read, a removal or an upsert rejects (a recurrence Redis refuses, too):
\* jobs.start rejects, and what was removed and upserted stays so.
ReconcileFails(p) ==
  /\ start[p] \in {"reading", "removing", "upserting"}
  /\ Goes(p, "failed")
  /\ UNCHANGED <<stored, workVars, consumerVars>>

\* An upsert whose reply was lost.
UpsertReplyLost(p, s) ==
  /\ start[p] = "upserting" /\ s \in left[p]
  /\ stored' = stored \cup {s}
  /\ Goes(p, "failed")
  /\ UNCHANGED <<workVars, consumerVars>>

-----------------------------------------------------------------------------
(* openConsumers: every consumer is opened at once, and every answer heard. *)

Unheard(p, q) ==
  start[p] = "opening" /\ q \in QueuesOf[p] \ (opened[p] \cup refused[p])

ConsumerOpens(p, q) ==
  /\ Unheard(p, q)
  /\ opened' = [opened EXCEPT ![p] = @ \cup {q}]
  /\ consuming' = [consuming EXCEPT ![p] = @ \cup {q}]
  /\ UNCHANGED <<stored, start, workVars, refused, unclosed>>

\* consume rejects, before it made its Worker or while that Worker, which runs
\* from then on, waits to be ready: nobody holds it to close it.
ConsumerRefused(p, q) ==
  /\ Unheard(p, q)
  /\ refused' = [refused EXCEPT ![p] = @ \cup {q}]
  /\ UNCHANGED consuming \/ consuming' = [consuming EXCEPT ![p] = @ \cup {q}]
  /\ UNCHANGED <<stored, start, workVars, opened, unclosed>>

OpeningEnds_AtFirst(p) ==
  /\ start[p] = "opening" /\ opened[p] \cup refused[p] # {}
  /\ Goes(p, IF refused[p] = {} THEN "started" ELSE "closing")
  /\ UNCHANGED <<stored, workVars, consumerVars>>

\* Promise.allSettled: with one refusal the opened ones are closed again.
OpeningEnds(p) ==
  /\ start[p] = "opening" /\ opened[p] \cup refused[p] = QueuesOf[p]
  /\ Goes(p, IF refused[p] = {} THEN "started" ELSE "closing")
  /\ UNCHANGED <<stored, workVars, consumerVars>>

\* consumer.close() resolves, or rejects, which is logged and swallowed.
ConsumerCloses(p, q) ==
  /\ start[p] = "closing" /\ q \in opened[p]
  /\ opened' = [opened EXCEPT ![p] = @ \ {q}]
  /\ \/ consuming' = [consuming EXCEPT ![p] = @ \ {q}] /\ UNCHANGED unclosed
     \/ unclosed' = [unclosed EXCEPT ![p] = @ \cup {q}] /\ UNCHANGED consuming
  /\ UNCHANGED <<stored, start, workVars, refused>>

\* Every close was answered: start throws the first refusal.
StartRejects(p) ==
  /\ start[p] = "closing" /\ opened[p] = {}
  /\ Goes(p, "failed")
  /\ UNCHANGED <<stored, workVars, consumerVars>>

\* The process dies; a removal that was sent may or may not have landed.
StarterDies(p) ==
  /\ start[p] # "dead"
  /\ Goes(p, "dead")
  /\ stale' = [stale EXCEPT ![p] = {}]
  /\ consuming' = [consuming EXCEPT ![p] = {}]
  /\ opened' = [opened EXCEPT ![p] = {}]
  /\ UNCHANGED <<stored, todo, left, refused, unclosed>>

-----------------------------------------------------------------------------
StartStep(p) ==
  \/ StartCalled(p) \/ StartRefused(p)
  \/ \E q \in Queues :
       \/ ReadsSchedulers(p, q) \/ ConsumerOpens(p, q) \/ ConsumerRefused(p, q)
       \/ ConsumerCloses(p, q)
  \/ \E s \in Schedulers : Removes(p, s) \/ Upserts(p, s) \/ UpsertReplyLost(p, s)
  \/ Removed(p) \/ NextQueue(p) \/ ReconcileFails(p)
  \/ OpeningEnds(p) \/ StartRejects(p) \/ StarterDies(p)

StartNext == \E p \in Processes : StartStep(p)

StartSpec == StartInit /\ [][StartNext]_startVars

-----------------------------------------------------------------------------
(* Properties                                                              *)

\* The processes past `idle`: their jobs.start was called, however it ended, or
\* they died before.
Called == {p \in Processes : start[p] # "idle"}

\* A schedule of a process that started fires, whatever other processes start,
\* fail or die meanwhile, unless one of them has handlers on its queue and its
\* code does not declare it.
StartedKeepsFiring ==
  \A p \in Processes : \A s \in Declared[p] :
    start[p] = "started" /\ s \notin stored =>
      \E o \in Called : QueueOf[s] \in QueuesOf[o] /\ s \notin Declared[o]

\* Once a process started, its queues hold no schedule of this library that none
\* of the processes whose jobs.start was called declares.  Of a queue it has no
\* handler on it says nothing: a schedule deleted with its queue's last handler
\* goes on firing.
DeletedStopsFiring ==
  \A p \in Processes : \A s \in Ours :
    start[p] = "started" /\ QueueOf[s] \in QueuesOf[p] /\ s \in stored =>
      \E o \in Called : s \in Declared[o]

\* A scheduler without the library's prefix survives every reconciliation.
ForeignSurvives == Schedulers \ Ours \subseteq stored

\* A start that resolved consumes every queue of its handlers; one that rejected
\* has closed whatever it opened, and leaves a Worker running only on a queue
\* whose consume itself rejected or whose close did.
StartIsAllOrNothing ==
  \A p \in Processes :
    /\ start[p] = "started" => consuming[p] = QueuesOf[p]
    /\ start[p] = "failed" => consuming[p] \subseteq refused[p] \cup unclosed[p]

-----------------------------------------------------------------------------
(***************************************************************************)
(* The inductive invariant behind the properties.                          *)
(***************************************************************************)

Reconciles == {"reading", "removing", "upserting", "opening", "started"}

\* A removal under way is of a scheduler of this library its process does not
\* declare, an upsert of one it does; nothing is left over between two queues.
WorkIsOnItsOwn ==
  \A p \in Processes :
    /\ todo[p] \subseteq QueuesOf[p]
    /\ stale[p] \subseteq {s \in Ours \ Declared[p] : QueueOf[s] \in QueuesOf[p]}
    /\ left[p] \subseteq Declared[p]
    /\ start[p] \in {"idle"} \cup (Reconciles \ {"removing"}) => stale[p] = {}
    /\ start[p] \in {"idle"} \cup (Reconciles \ {"removing", "upserting"}) => left[p] = {}
    /\ start[p] \in {"opening", "started"} => todo[p] = {}

\* What every process with handlers on its queue declares is there once one of
\* them has been over that queue, and what none of them declares is gone.
QueuesBehindAreRight ==
  \A p \in Processes : \A s \in Ours :
    start[p] \in Reconciles /\ QueueOf[s] \in QueuesOf[p] \ todo[p] =>
      /\ (\A o \in Called : QueueOf[s] \in QueuesOf[o] => s \in Declared[o])
           => s \in left[p] \cup stored
      /\ (\A o \in Called : s \notin Declared[o]) => s \in stale[p] \/ s \notin stored

\* Every unclosed Worker is accounted for, and nothing is opened before the end of
\* the reconciliation or held after start rejected.
ConsumersAreKnown ==
  \A p \in Processes :
    /\ opened[p] \subseteq consuming[p]
    /\ consuming[p] \subseteq opened[p] \cup refused[p] \cup unclosed[p]
    /\ start[p] \in {"idle", "reading", "removing", "upserting"} =>
         opened[p] = {} /\ refused[p] = {}
    /\ start[p] \notin {"closing", "failed", "dead"} => unclosed[p] = {}
    /\ start[p] = "started" => opened[p] = QueuesOf[p] /\ refused[p] = {}
    /\ start[p] = "failed" => opened[p] = {}

StartInv ==
  /\ StartTypeOK /\ WorkIsOnItsOwn /\ QueuesBehindAreRight /\ ForeignSurvives
  /\ ConsumersAreKnown

=============================================================================

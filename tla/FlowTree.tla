------------------------------ MODULE FlowTree ------------------------------
(***************************************************************************)
(* A flow of any depth (Flow.ts): the deliveries of its jobs through       *)
(* dispatch and childrenFor, and the clients that retry and cancel them    *)
(* (RedisDriver.ts).                                                       *)
(*                                                                         *)
(* BullMQ keeps three collections on every parent: :dependencies (children *)
(* not settled), :processed (results) and :failed.  A child that completes *)
(* or fails for good moves from the first to one of the others; one that   *)
(* is removed leaves it without a trace.  Emptying :dependencies releases  *)
(* a parent in waiting-children.  A node has one parent, so each variable  *)
(* below is the union of the collections of its name.                      *)
(***************************************************************************)
EXTENDS Naturals, FiniteSets

CONSTANTS
  Nodes, Root,   \* the jobs the flow was enqueued with, and the one at the top
  Up,            \* the parent of every other node
  Below,         \* what hangs below a node, at any depth
  SlotsOf,       \* the slots the definition of a node declares
  SlotOf,        \* the slot of its parent each node fills (composeChildId)
  Attempts,      \* the `attempts` of each node
  MaxRetries,    \* bound: calls of jobs.retry that retried
  MaxStalls,     \* bound: how often each node is found stalled
  MaxCancelling  \* bound: calls of jobs.cancel under way at once

Dependents == Nodes \ {Root}
Kids(n)    == {c \in Dependents : Up[c] = n}

ASSUME NodesAssumption      == IsFiniteSet(Nodes) /\ Root \in Nodes
ASSUME UpAssumption         == Up \in [Dependents -> Nodes]
ASSUME AttemptsAssumption   == Attempts \in [Nodes -> Nat \ {0}]
ASSUME MaxRetriesAssumption == MaxRetries \in Nat
ASSUME MaxStallsAssumption  == MaxStalls \in [Nodes -> Nat] /\ MaxCancelling \in Nat

\* A node fills a slot of its parent's definition.
ASSUME SlotOfAssumption ==
  DOMAIN SlotOf = Dependents /\ \A c \in Dependents : SlotOf[c] \in SlotsOf[Up[c]]

\* The nodes are a tree under Root: Below is "child of, or below a child of",
\* and the nodes a node hangs below are a chain.
ASSUME TreeAssumption ==
  /\ Below \in [Nodes -> SUBSET Dependents]
  /\ \A n \in Nodes : n \notin Below[n]
  /\ Below[Root] = Dependents
  /\ \A n \in Nodes : \A c \in Dependents : c \in Below[n] <=> Up[c] = n \/ Up[c] \in Below[n]
  /\ \A n \in Nodes : \A x \in Below[n] : x \in Kids(n) \/ \E k \in Kids(n) : x \in Below[k]
  /\ \A n, m \in Nodes :
       Below[n] \cap Below[m] # {} => n = m \/ n \in Below[m] \/ m \in Below[n]

VARIABLES
  state,         \* state of each job
  dependencies, processed, failed,
  step,          \* where each job's delivery stands
  attemptsMade,
  burial,        \* the reason report buried each job for since it was retried
  counted,       \* the envelopes record how many children each slot was given
  cancelling,    \* nodes a call of jobs.cancel read as not running and will remove
  lost,          \* history: nodes that were removed before they completed
  retries,
  stalls         \* BullMQ: times each job was found stalled

vars == <<state, dependencies, processed, failed, step, attemptsMade, burial, counted,
          cancelling, lost, retries, stalls>>

Unsettled == {"waiting_children", "waiting", "active"}
Done      == {"completed", "swept"}
Reasons   == {"none", "child_dead", "children_short", "gave_up"}

TypeOK ==
  /\ state \in [Nodes -> Unsettled \cup Done \cup {"failed", "removed"}]
  /\ dependencies \subseteq Dependents
  /\ processed \subseteq Dependents
  /\ failed \subseteq Dependents
  /\ step \in [Nodes -> {"none", "reading", "pending", "running", "failing"}]
  /\ attemptsMade \in [Nodes -> Nat]
  /\ burial \in [Nodes -> Reasons]
  /\ counted \in BOOLEAN
  /\ cancelling \subseteq Nodes
  /\ lost \subseteq Dependents
  /\ retries \in 0..MaxRetries
  /\ stalls \in [Nodes -> Nat]

\* composeFlow and toFlowJob: the tree is stored in one act, every parent behind
\* its children; envelopes of an older build carry no counts.
Init ==
  /\ state = [n \in Nodes |-> IF Kids(n) = {} THEN "waiting" ELSE "waiting_children"]
  /\ dependencies = Dependents /\ processed = {} /\ failed = {}
  /\ step = [n \in Nodes |-> "none"]
  /\ attemptsMade = [n \in Nodes |-> 0]
  /\ burial = [n \in Nodes |-> "none"]
  /\ counted \in BOOLEAN
  /\ cancelling = {} /\ lost = {} /\ retries = 0
  /\ stalls = [n \in Nodes |-> 0]

-----------------------------------------------------------------------------
(* What BullMQ does with a job and with the parent it hangs below.         *)

\* n leaves its parent's dependencies, and is the last one there.
Releases(n, p) ==
  /\ n # Root /\ p = Up[n] /\ state[p] = "waiting_children"
  /\ dependencies \cap Kids(p) \subseteq {n}

\* The job of n ends as `end`, and its parent is released if it waited for n only.
Ends(n, end) ==
  /\ state' = [m \in Nodes |-> IF m = n THEN end
                               ELSE IF Releases(n, m) THEN "waiting" ELSE state[m]]
  /\ dependencies' = dependencies \ {n}

\* The collection of its parent a node settles into; the root has none.
Into(collection, n) == collection \cup ({n} \ {Root})

GivesUp_LeavesResult(n) ==
  Ends(n, "failed") /\ processed' = Into(processed, n) /\ UNCHANGED failed

\* The job gave up: ignoreDependencyOnFailure leaves its reason in :failed.
GivesUp(n) ==
  Ends(n, "failed") /\ failed' = Into(failed, n) /\ UNCHANGED processed

\* BullMQ ends an attempt: the job waits again or, for good or as the last one
\* allowed, fails.
SpendAttempt(n, forGood) ==
  /\ attemptsMade' = [attemptsMade EXCEPT ![n] = @ + 1]
  /\ step' = [step EXCEPT ![n] = "none"]
  /\ IF forGood \/ attemptsMade[n] + 1 >= Attempts[n]
     THEN GivesUp(n)
     ELSE state' = [state EXCEPT ![n] = "waiting"] /\ UNCHANGED <<dependencies, processed, failed>>

-----------------------------------------------------------------------------
(* Deliveries.                                                             *)

Taken(n) ==
  /\ state[n] = "waiting"
  /\ state' = [state EXCEPT ![n] = "active"]
  /\ step' = [step EXCEPT ![n] = "reading"]
  /\ UNCHANGED <<dependencies, processed, failed, attemptsMade, burial, counted, cancelling,
                 lost, retries, stalls>>

Arrived_StillStored(n, slot) == {c \in Kids(n) : state[c] = "completed" /\ SlotOf[c] = slot}

Arrived(n, slot) == {c \in processed \cap Kids(n) : SlotOf[c] = slot}
Given(n, slot)   == {c \in Kids(n) : SlotOf[c] = slot}

ChildrenShort_Never(n) == FALSE

\* childrenShort: a slot without a count, or with fewer results than its count.
ChildrenShort(n) ==
  \E slot \in SlotsOf[n] :
    ~counted \/ Cardinality(Arrived(n, slot)) < Cardinality(Given(n, slot))

\* childrenFor over the one atomic read of the three collections: what the
\* refusals mean decides their order.  A definition without slots reads nothing
\* and goes straight to its handler.  report buries for good.
Reads(n) ==
  /\ step[n] = "reading"
  /\ \/ /\ dependencies \cap Kids(n) # {}
        /\ step' = [step EXCEPT ![n] = "pending"]
        /\ UNCHANGED burial
     \/ /\ dependencies \cap Kids(n) = {} /\ failed \cap Kids(n) # {}
        /\ step' = [step EXCEPT ![n] = "failing"]
        /\ burial' = [burial EXCEPT ![n] = "child_dead"]
     \/ /\ (dependencies \cup failed) \cap Kids(n) = {} /\ ChildrenShort(n)
        /\ step' = [step EXCEPT ![n] = "failing"]
        /\ burial' = [burial EXCEPT ![n] = "children_short"]
     \/ /\ (dependencies \cup failed) \cap Kids(n) = {} /\ ~ChildrenShort(n)
        /\ step' = [step EXCEPT ![n] = "running"]
        /\ UNCHANGED burial
  /\ UNCHANGED <<state, dependencies, processed, failed, attemptsMade, counted, cancelling,
                 lost, retries, stalls>>

Waits_Unchecked(n) ==
  /\ step[n] = "pending"
  /\ state' = [state EXCEPT ![n] = "waiting_children"]
  /\ step' = [step EXCEPT ![n] = "none"]
  /\ UNCHANGED <<dependencies, processed, failed, attemptsMade, burial, counted, cancelling,
                 lost, retries, stalls>>

\* waitForChildren: moveToWaitingChildren moves the parent while it still has
\* dependencies.
Waits(n) ==
  /\ step[n] = "pending" /\ dependencies \cap Kids(n) # {}
  /\ state' = [state EXCEPT ![n] = "waiting_children"]
  /\ step' = [step EXCEPT ![n] = "none"]
  /\ UNCHANGED <<dependencies, processed, failed, attemptsMade, burial, counted, cancelling,
                 lost, retries, stalls>>

\* It answers false when the last one settled since the read, and it may reject:
\* the refusal goes out as an ordinary failure, which nobody reports.
WaitFails(n) ==
  /\ step[n] = "pending"
  /\ SpendAttempt(n, FALSE)
  /\ UNCHANGED <<burial, counted, cancelling, lost, retries, stalls>>

\* The handler returned and BullMQ completes the job.
Completes(n) ==
  /\ step[n] = "running"
  /\ step' = [step EXCEPT ![n] = "none"]
  /\ Ends(n, "completed")
  /\ processed' = Into(processed, n)
  /\ UNCHANGED <<failed, attemptsMade, burial, counted, cancelling, lost, retries, stalls>>

\* dispatch rejects on something else: no handler, a version ahead, a payload or a
\* child's result its schema refuses, a read of the collections that failed, the
\* handler itself.  report buries an unrecoverable error and the last attempt.
Throws(n) ==
  /\ step[n] \in {"reading", "running"}
  /\ step' = [step EXCEPT ![n] = "failing"]
  /\ \/ burial' = [burial EXCEPT ![n] = "gave_up"]
     \/ attemptsMade[n] + 1 < Attempts[n] /\ UNCHANGED burial
  /\ UNCHANGED <<state, dependencies, processed, failed, attemptsMade, counted, cancelling,
                 lost, retries, stalls>>

Fails_Postpones(n) ==
  /\ step[n] = "failing"
  /\ step' = [step EXCEPT ![n] = "none"]
  /\ IF burial[n] # "none"
     THEN GivesUp(n)
     ELSE state' = [state EXCEPT ![n] = "waiting"] /\ UNCHANGED <<dependencies, processed, failed>>
  /\ UNCHANGED <<attemptsMade, burial, counted, cancelling, lost, retries, stalls>>

Fails(n) ==
  /\ step[n] = "failing"
  /\ SpendAttempt(n, burial[n] # "none")
  /\ UNCHANGED <<burial, counted, cancelling, lost, retries, stalls>>

\* The worker dies with the delivery; the stalled check queues the job again, or
\* fails it the second time (maxStalledCount is 1), unreported and unburied.
Stalls(n) ==
  /\ state[n] = "active" /\ stalls[n] < MaxStalls[n]
  /\ IF stalls[n] = 0
     THEN state' = [state EXCEPT ![n] = "waiting"] /\ UNCHANGED <<dependencies, processed, failed>>
     ELSE GivesUp(n)
  /\ step' = [step EXCEPT ![n] = "none"]
  /\ burial' = [burial EXCEPT ![n] = "none"]
  /\ stalls' = [stalls EXCEPT ![n] = @ + 1]
  /\ UNCHANGED <<attemptsMade, counted, cancelling, lost, retries>>

\* removeOnComplete drops the job; :processed of its parent keeps its value.  A
\* node is `swept` once it completed and its job is gone, by retention or by a
\* cancel that read it before it ended.
Swept(n) ==
  /\ state[n] = "completed"
  /\ state' = [state EXCEPT ![n] = "swept"]
  /\ UNCHANGED <<dependencies, processed, failed, step, attemptsMade, burial, counted,
                 cancelling, lost, retries, stalls>>

-----------------------------------------------------------------------------
(* Clients.                                                                *)

\* jobs.retry queues a failed job whatever its children do, and returns it to its
\* parent's dependencies wherever the parent is.
Retry(n) ==
  /\ state[n] = "failed" /\ retries < MaxRetries
  /\ state' = [state EXCEPT ![n] = "waiting"]
  /\ dependencies' = Into(dependencies, n) /\ failed' = failed \ {n}
  /\ attemptsMade' = [attemptsMade EXCEPT ![n] = 0]
  /\ burial' = [burial EXCEPT ![n] = "none"]
  /\ retries' = retries + 1
  /\ UNCHANGED <<processed, step, counted, cancelling, lost, stalls>>

\* jobs.cancel reads the state of a job that is not running.  (An ended one is
\* answered finished, a running one is marked: see JobRuntime.)
CancelReads(n) ==
  /\ Cardinality(cancelling) < MaxCancelling
  /\ state[n] \in {"waiting_children", "waiting"}
  /\ cancelling' = cancelling \cup {n}
  /\ UNCHANGED <<state, dependencies, processed, failed, step, attemptsMade, burial, counted,
                 lost, retries, stalls>>

Gone(n) == {n} \cup Below[n]

\* job.remove({ removeChildren: true }), a round trip later: the job goes with all
\* that hangs below it and with its own collections, whatever it came to since the
\* read.  What its parent's :processed or :failed keeps of it stays there.
CancelRemoves(n) ==
  /\ n \in cancelling
  /\ state[n] \notin {"removed", "swept"} /\ \A m \in Gone(n) : state[m] # "active"
  /\ cancelling' = cancelling \ {n}
  /\ state' = [m \in Nodes |->
       IF m \in Gone(n) THEN IF state[m] \in Done THEN "swept" ELSE "removed"
       ELSE IF Releases(n, m) THEN "waiting" ELSE state[m]]
  /\ dependencies' = dependencies \ Gone(n)
  /\ processed' = processed \ Below[n] /\ failed' = failed \ Below[n]
  /\ lost' = lost \cup {m \in Gone(n) \ {Root} : state[m] \notin Done}
  /\ UNCHANGED <<step, attemptsMade, burial, counted, retries, stalls>>

\* Something there is locked by a worker (the answer is then aborting or
\* children_running), or the job is gone: nothing is removed.
CancelRefused(n) ==
  /\ n \in cancelling
  /\ state[n] \in {"removed", "swept"} \/ \E m \in Gone(n) : state[m] = "active"
  /\ cancelling' = cancelling \ {n}
  /\ UNCHANGED <<state, dependencies, processed, failed, step, attemptsMade, burial, counted,
                 lost, retries, stalls>>

-----------------------------------------------------------------------------
Delivery(n) ==
  \/ Taken(n) \/ Reads(n) \/ Waits(n) \/ WaitFails(n) \/ Completes(n) \/ Throws(n) \/ Fails(n)

Next ==
  \E n \in Nodes :
    \/ Delivery(n) \/ Stalls(n) \/ Swept(n) \/ Retry(n)
    \/ CancelReads(n) \/ CancelRemoves(n) \/ CancelRefused(n)

(***************************************************************************)
(* Workers take what waits and handlers end: the flow makes progress for   *)
(* as long as its queues are consumed.  Retries, cancellations and stalls  *)
(* need not happen.                                                        *)
(***************************************************************************)
Fairness == \A n \in Nodes : WF_vars(Delivery(n))

Spec == Init /\ [][Next]_vars
FairSpec == Spec /\ Fairness

-----------------------------------------------------------------------------
(* Properties                                                              *)

\* The handler of a parent runs only when every child the flow was enqueued with
\* completed, however children were retried, cancelled and swept and deliveries
\* postponed or lost before: it never reads a short or a filling slot.
HandlerSeesFullSlots ==
  \A n \in Nodes : step[n] = "running" =>
    Kids(n) \subseteq processed /\ (dependencies \cup failed) \cap Kids(n) = {}

\* A parent that waits on its children waits on something: whichever way the
\* last child leaves while the parent is moved back, somebody releases it.
WaitingParentIsReleasable ==
  \A n \in Nodes : state[n] = "waiting_children" => dependencies \cap Kids(n) # {}

\* children_short is said only of a job that lost a child of its own, or whose
\* envelope carries no counts: sweeping a completed child's job is no loss, and
\* a loss further down is that child's to report.
ShortMeansLost ==
  \A n \in Nodes : burial[n] = "children_short" => lost \cap Kids(n) # {} \/ ~counted

\* The flow completes green only if every job of it did its work: a death, or a
\* removal before completion, at any depth and in any order with retries, buries
\* every job above it.  The job of a child may itself be gone, swept or removed by
\* a cancel that read it before it completed: the work it did stands.
GreenMeansWhole ==
  state[Root] \in Done => \A n \in Nodes : state[n] \in Done

\* The flow comes to an end, and again after every retry: postponing a parent
\* behind its children never leaves it waiting for good.
FlowSettles ==
  (state[Root] \in Unsettled) ~> (state[Root] \notin Unsettled)

-----------------------------------------------------------------------------
(***************************************************************************)
(* The inductive invariant behind the safety properties: a node's state    *)
(* says in which collection of its parent it is, so no retry can take a    *)
(* result from under a running handler; and what completed stands on       *)
(* completed nodes all the way down.                                       *)
(***************************************************************************)
CollectionsFollowNodes ==
  \A c \in Dependents :
    /\ state[c] \in Unsettled => c \in dependencies
    /\ state[c] = "failed" => c \in failed
    /\ c \in processed => state[c] \in Done
    /\ state[c] \in Done /\ state[Up[c]] \notin Done \cup {"removed"} => c \in processed
    /\ state[c] = "removed" => c \in lost

DeliveryIsActive == \A n \in Nodes : step[n] # "none" => state[n] = "active"

DoneToTheBottom ==
  \A n \in Nodes : state[n] \in Done => \A x \in Below[n] : state[x] \in Done

IndInv ==
  /\ TypeOK /\ CollectionsFollowNodes /\ DeliveryIsActive /\ DoneToTheBottom
  /\ HandlerSeesFullSlots /\ WaitingParentIsReleasable /\ ShortMeansLost

=============================================================================

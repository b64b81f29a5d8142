--------------------------- MODULE FlowTreeProofs ---------------------------
(***************************************************************************)
(* A handler sees full slots, a parent moved behind its children has       *)
(* something to wait for, children_short means a lost child and a green    *)
(* flow is whole: for every tree, every division into slots and every      *)
(* number of attempts, retries and stalls.                                 *)
(***************************************************************************)
EXTENDS FlowTree, FiniteSetTheorems, TLAPS

\* childrenShort compares counts, slot by slot; with one child per result that
\* is enough to know that every child a node was given has its result.
LEMMA FullSlotsHoldEveryChild ==
  ASSUME NEW n \in Nodes, ~ChildrenShort(n)
  PROVE  Kids(n) \subseteq processed
<1>1. ASSUME NEW c \in Kids(n)
      PROVE  c \in processed
  <2> DEFINE slot == SlotOf[c]
  <2>1. slot \in SlotsOf[n]
    BY SlotOfAssumption DEF Kids
  <2>2. Given(n, slot) \in SUBSET Nodes /\ IsFiniteSet(Given(n, slot))
    BY NodesAssumption, FS_Subset DEF Given, Kids, Dependents
  <2>3. Arrived(n, slot) \in SUBSET Given(n, slot)
    BY DEF Given, Arrived
  <2>4. /\ IsFiniteSet(Arrived(n, slot))
        /\ Cardinality(Arrived(n, slot)) <= Cardinality(Given(n, slot))
        /\ Cardinality(Given(n, slot)) = Cardinality(Arrived(n, slot))
             => Given(n, slot) = Arrived(n, slot)
    BY <2>2, <2>3, FS_Subset
  <2>5. Cardinality(Given(n, slot)) \in Nat /\ Cardinality(Arrived(n, slot)) \in Nat
    BY <2>2, <2>4, FS_CardinalityType
  <2>6. ~(Cardinality(Arrived(n, slot)) < Cardinality(Given(n, slot)))
    BY <2>1 DEF ChildrenShort
  <2>7. Given(n, slot) = Arrived(n, slot)
    BY <2>4, <2>5, <2>6
  <2> QED
    BY <2>7 DEF Given, Arrived
<1> QED
  BY <1>1

\* And the other way round: with counts, a node that reads short lacks a result.
LEMMA ShortLacksAResult ==
  ASSUME NEW n \in Nodes, ChildrenShort(n), counted
  PROVE  \E c \in Kids(n) : c \notin processed
<1> SUFFICES ASSUME Kids(n) \subseteq processed
             PROVE  FALSE
  OBVIOUS
<1>1. PICK slot \in SlotsOf[n] : Cardinality(Arrived(n, slot)) < Cardinality(Given(n, slot))
  BY DEF ChildrenShort
<1>2. Arrived(n, slot) = Given(n, slot)
  BY DEF Arrived, Given
<1>3. Given(n, slot) \in SUBSET Nodes /\ IsFiniteSet(Given(n, slot))
  BY NodesAssumption, FS_Subset DEF Given, Kids, Dependents
<1>4. Cardinality(Given(n, slot)) \in Nat
  BY <1>3, FS_CardinalityType
<1> QED
  BY <1>1, <1>2, <1>4

\* Kids are dependents, and each has one parent.
LEMMA KidsOfNodes ==
  /\ \A n \in Nodes : Kids(n) \subseteq Dependents /\ Kids(n) \subseteq Below[n]
  /\ \A n \in Nodes : n \notin Kids(n)
  /\ \A c \in Dependents : c \in Nodes /\ Up[c] \in Nodes /\ c \in Kids(Up[c])
  /\ \A n \in Nodes : Below[n] \subseteq Nodes
  /\ Root \notin Dependents /\ Root \in Nodes
BY UpAssumption, TreeAssumption, NodesAssumption DEF Kids, Dependents

\* What hangs below a node whose handler runs is done, all the way down.
LEMMA RunningStandsOnDone ==
  ASSUME IndInv, NEW n \in Nodes, Kids(n) \subseteq processed
  PROVE  \A x \in Below[n] : state[x] \in Done
<1> SUFFICES ASSUME NEW x \in Below[n] PROVE state[x] \in Done
  OBVIOUS
<1>1. \A k \in Kids(n) : k \in Nodes /\ state[k] \in Done
  BY KidsOfNodes DEF IndInv, CollectionsFollowNodes
<1>2. x \in Kids(n) \/ \E k \in Kids(n) : x \in Below[k]
  BY TreeAssumption
<1> QED
  BY <1>1, <1>2 DEF IndInv, DoneToTheBottom

\* BullMQ ends one job; at most its parent moves, from waiting-children to wait.
LEMMA EndsMoves ==
  ASSUME IndInv, NEW n \in Nodes, NEW end \in Done \cup {"failed"}, Ends(n, end)
  PROVE  /\ state' \in [Nodes -> Unsettled \cup Done \cup {"failed", "removed"}]
         /\ state'[n] = end
         /\ \A m \in Nodes : m # n =>
              state'[m] = state[m] \/ (state[m] = "waiting_children" /\ state'[m] = "waiting")
         /\ dependencies' = dependencies \ {n}
         /\ \A m \in Nodes : m # n /\ state'[m] = "waiting_children" =>
              state[m] = "waiting_children" /\ (dependencies \ {n}) \cap Kids(m) # {}
<1>1. TypeOK
  BY DEF IndInv
<1>2. \A m \in Nodes : state'[m] = IF m = n THEN end
                       ELSE IF Releases(n, m) THEN "waiting" ELSE state[m]
  BY DEF Ends
<1>3. \A m \in Nodes : Releases(n, m) => state[m] = "waiting_children"
  BY DEF Releases
<1>4. state' \in [Nodes -> Unsettled \cup Done \cup {"failed", "removed"}]
  BY <1>1 DEF Ends, TypeOK, Unsettled, Done
<1>5. ASSUME NEW m \in Nodes, m # n, state'[m] = "waiting_children"
      PROVE  state[m] = "waiting_children" /\ (dependencies \ {n}) \cap Kids(m) # {}
  <2>1. state[m] = "waiting_children" /\ ~Releases(n, m)
    BY <1>2, <1>5
  <2>2. dependencies \cap Kids(m) # {}
    BY <2>1 DEF IndInv, WaitingParentIsReleasable
  <2>3. CASE n \in Kids(m)
    <3>1. n # Root /\ m = Up[n]
      BY <2>3 DEF Kids, Dependents
    <3> QED
      BY <2>1, <3>1 DEF Releases
  <2>4. CASE n \notin Kids(m)
    BY <2>1, <2>2, <2>4
  <2> QED
    BY <2>3, <2>4
<1> QED
  BY <1>2, <1>3, <1>4, <1>5 DEF Ends

\* A worker takes a job.
LEMMA TakenKeeps ==
  ASSUME IndInv, NEW n \in Nodes, Taken(n)
  PROVE  IndInv'
<1>c1. TypeOK'
  BY KidsOfNodes DEF Taken, IndInv, TypeOK, Unsettled, Done, Reasons
<1>c2. CollectionsFollowNodes'
  BY KidsOfNodes DEF Taken, IndInv, TypeOK, CollectionsFollowNodes, Unsettled, Done
<1>c3. DeliveryIsActive'
  BY KidsOfNodes DEF Taken, IndInv, TypeOK, DeliveryIsActive
<1>c4. DoneToTheBottom'
  BY KidsOfNodes DEF Taken, IndInv, TypeOK, DoneToTheBottom, Done
<1>c5. HandlerSeesFullSlots'
  BY KidsOfNodes DEF Taken, IndInv, TypeOK, HandlerSeesFullSlots
<1>c6. WaitingParentIsReleasable'
  BY KidsOfNodes DEF Taken, IndInv, TypeOK, WaitingParentIsReleasable
<1>c7. ShortMeansLost'
  BY KidsOfNodes DEF Taken, IndInv, TypeOK, ShortMeansLost
<1> QED
  BY <1>c1, <1>c2, <1>c3, <1>c4, <1>c5, <1>c6, <1>c7 DEF IndInv

\* childrenFor starts a handler over full slots only, and says children_short of
\* a loss only.
LEMMA ReadsKeeps ==
  ASSUME IndInv, NEW n \in Nodes, Reads(n)
  PROVE  IndInv'
<1>1. ~ChildrenShort(n) => Kids(n) \subseteq processed
  BY FullSlotsHoldEveryChild
<1>2. (dependencies \cup failed) \cap Kids(n) = {} /\ ChildrenShort(n) /\ counted
        => lost \cap Kids(n) # {}
  <2> SUFFICES ASSUME (dependencies \cup failed) \cap Kids(n) = {}, ChildrenShort(n), counted
               PROVE  lost \cap Kids(n) # {}
    OBVIOUS
  <2>1. PICK c \in Kids(n) : c \notin processed
    BY ShortLacksAResult
  <2>2. c \in Dependents /\ c \notin dependencies /\ c \notin failed /\ c \in Nodes
    BY KidsOfNodes
  <2>3. state[n] = "active" /\ n = Up[c]
    BY <2>1 DEF Reads, IndInv, DeliveryIsActive, Kids
  <2>4. state[c] = "removed"
    BY <2>1, <2>2, <2>3 DEF IndInv, TypeOK, CollectionsFollowNodes, Done
  <2> QED
    BY <2>1, <2>2, <2>4 DEF IndInv, CollectionsFollowNodes
<1>c1. TypeOK'
  BY <1>1 DEF Reads, IndInv, TypeOK, Unsettled, Done, Reasons
<1>c2. CollectionsFollowNodes'
  BY <1>1, KidsOfNodes DEF Reads, IndInv, TypeOK, CollectionsFollowNodes, Unsettled, Done
<1>c3. DeliveryIsActive'
  BY <1>1 DEF Reads, IndInv, TypeOK, DeliveryIsActive
<1>c4. DoneToTheBottom'
  BY <1>1 DEF Reads, IndInv, TypeOK, DoneToTheBottom, Done
<1>c5. HandlerSeesFullSlots'
  BY <1>1 DEF Reads, IndInv, TypeOK, HandlerSeesFullSlots
<1>c6. WaitingParentIsReleasable'
  BY <1>1 DEF Reads, IndInv, TypeOK, WaitingParentIsReleasable
<1>c7. ShortMeansLost'
  BY <1>1, <1>2 DEF Reads, IndInv, TypeOK, ShortMeansLost
<1> QED
  BY <1>c1, <1>c2, <1>c3, <1>c4, <1>c5, <1>c6, <1>c7 DEF IndInv

\* waitForChildren moves a parent behind children it still has.
LEMMA WaitsKeeps ==
  ASSUME IndInv, NEW n \in Nodes, Waits(n)
  PROVE  IndInv'
<1>0. state[n] = "active"
  BY DEF IndInv, DeliveryIsActive, Waits
<1>c1. TypeOK'
  BY <1>0, KidsOfNodes DEF Waits, IndInv, TypeOK, Unsettled, Done, Reasons
<1>c2. CollectionsFollowNodes'
  BY <1>0, KidsOfNodes DEF Waits, IndInv, TypeOK, CollectionsFollowNodes, Unsettled, Done
<1>c3. DeliveryIsActive'
  BY <1>0, KidsOfNodes DEF Waits, IndInv, TypeOK, DeliveryIsActive
<1>c4. DoneToTheBottom'
  BY <1>0, KidsOfNodes DEF Waits, IndInv, TypeOK, DoneToTheBottom, Done
<1>c5. HandlerSeesFullSlots'
  BY <1>0, KidsOfNodes DEF Waits, IndInv, TypeOK, HandlerSeesFullSlots
<1>c6. WaitingParentIsReleasable'
  BY <1>0, KidsOfNodes DEF Waits, IndInv, TypeOK, WaitingParentIsReleasable
<1>c7. ShortMeansLost'
  BY <1>0, KidsOfNodes DEF Waits, IndInv, TypeOK, ShortMeansLost
<1> QED
  BY <1>c1, <1>c2, <1>c3, <1>c4, <1>c5, <1>c6, <1>c7 DEF IndInv

\* A delivery is about to be failed.
LEMMA ThrowsKeeps ==
  ASSUME IndInv, NEW n \in Nodes, Throws(n)
  PROVE  IndInv'
<1>c1. TypeOK'
  BY KidsOfNodes DEF Throws, IndInv, TypeOK, Unsettled, Done, Reasons
<1>c2. CollectionsFollowNodes'
  BY KidsOfNodes DEF Throws, IndInv, TypeOK, CollectionsFollowNodes, Unsettled, Done
<1>c3. DeliveryIsActive'
  BY KidsOfNodes DEF Throws, IndInv, TypeOK, DeliveryIsActive
<1>c4. DoneToTheBottom'
  BY KidsOfNodes DEF Throws, IndInv, TypeOK, DoneToTheBottom, Done
<1>c5. HandlerSeesFullSlots'
  BY KidsOfNodes DEF Throws, IndInv, TypeOK, HandlerSeesFullSlots
<1>c6. WaitingParentIsReleasable'
  BY KidsOfNodes DEF Throws, IndInv, TypeOK, WaitingParentIsReleasable
<1>c7. ShortMeansLost'
  BY KidsOfNodes DEF Throws, IndInv, TypeOK, ShortMeansLost
<1> QED
  BY <1>c1, <1>c2, <1>c3, <1>c4, <1>c5, <1>c6, <1>c7 DEF IndInv

\* A completed job is swept; its result stays.
LEMMA SweptKeeps ==
  ASSUME IndInv, NEW n \in Nodes, Swept(n)
  PROVE  IndInv'
<1>c1. TypeOK'
  BY KidsOfNodes DEF Swept, IndInv, TypeOK, Unsettled, Done, Reasons
<1>c2. CollectionsFollowNodes'
  BY KidsOfNodes DEF Swept, IndInv, TypeOK, CollectionsFollowNodes, Unsettled, Done
<1>c3. DeliveryIsActive'
  BY KidsOfNodes DEF Swept, IndInv, TypeOK, DeliveryIsActive
<1>c4. DoneToTheBottom'
  BY KidsOfNodes, TreeAssumption DEF Swept, IndInv, TypeOK, DoneToTheBottom, Done,
     Dependents
<1>c5. HandlerSeesFullSlots'
  BY KidsOfNodes DEF Swept, IndInv, TypeOK, HandlerSeesFullSlots
<1>c6. WaitingParentIsReleasable'
  BY KidsOfNodes DEF Swept, IndInv, TypeOK, WaitingParentIsReleasable
<1>c7. ShortMeansLost'
  BY KidsOfNodes DEF Swept, IndInv, TypeOK, ShortMeansLost
<1> QED
  BY <1>c1, <1>c2, <1>c3, <1>c4, <1>c5, <1>c6, <1>c7 DEF IndInv

\* A delivery is over and the job gives up or waits again: only the node and, if it
\* gave up, its parent's place in waiting-children move.
LEMMA DeliveryOverKeeps ==
  ASSUME IndInv, NEW n \in Nodes, state[n] = "active",
         \/ GivesUp(n)
         \/ /\ state' = [state EXCEPT ![n] = "waiting"]
            /\ UNCHANGED <<dependencies, processed, failed>>,
         step' = [step EXCEPT ![n] = "none"],
         burial' \in {burial, [burial EXCEPT ![n] = "none"]},
         attemptsMade' \in [Nodes -> Nat], stalls' \in [Nodes -> Nat],
         UNCHANGED <<counted, cancelling, lost, retries>>
  PROVE  IndInv'
<1>0. TypeOK
  BY DEF IndInv
<1>b. /\ burial' \in [Nodes -> Reasons]
      /\ \A m \in Nodes : burial'[m] = "children_short" => burial[m] = "children_short"
  BY <1>0 DEF TypeOK, Reasons
<1>1. CASE GivesUp(n)
  <2>1. /\ state' \in [Nodes -> Unsettled \cup Done \cup {"failed", "removed"}]
        /\ state'[n] = "failed"
        /\ \A m \in Nodes : m # n =>
             state'[m] = state[m] \/ (state[m] = "waiting_children" /\ state'[m] = "waiting")
        /\ dependencies' = dependencies \ {n}
        /\ \A m \in Nodes : m # n /\ state'[m] = "waiting_children" =>
             state[m] = "waiting_children" /\ (dependencies \ {n}) \cap Kids(m) # {}
    BY <1>1, EndsMoves DEF GivesUp
  <2>2. failed' = Into(failed, n) /\ processed' = processed
    BY <1>1 DEF GivesUp
  <2>3. ASSUME NEW m \in Nodes, step[m] = "running" PROVE n \notin Kids(m)
    BY <1>0, <2>3, KidsOfNodes DEF IndInv, HandlerSeesFullSlots, CollectionsFollowNodes, Done
  <2>c1. TypeOK'
    BY <1>0, <1>b, <2>1, <2>2, KidsOfNodes DEF IndInv, TypeOK, Unsettled, Done, Reasons,
       Into, Dependents
  <2>c2. CollectionsFollowNodes'
    BY <1>0, <2>1, <2>2, KidsOfNodes DEF IndInv, TypeOK, CollectionsFollowNodes,
       Unsettled, Done, Into, Dependents
  <2>c3. DeliveryIsActive'
    BY <1>0, <2>1, <2>2, KidsOfNodes DEF IndInv, TypeOK, DeliveryIsActive
  <2>c4. DoneToTheBottom'
    BY <1>0, <2>1, KidsOfNodes DEF IndInv, TypeOK, DoneToTheBottom, Done
  <2>c5. HandlerSeesFullSlots'
    BY <1>0, <2>1, <2>2, <2>3, KidsOfNodes DEF IndInv, TypeOK,
       HandlerSeesFullSlots, Into
  <2>c6. WaitingParentIsReleasable'
    BY <1>0, <2>1, <2>2, KidsOfNodes DEF IndInv, TypeOK, WaitingParentIsReleasable
  <2>c7. ShortMeansLost'
    BY <1>0, <1>b, <2>1, <2>2, KidsOfNodes DEF IndInv, TypeOK, ShortMeansLost
  <2> QED
    BY <2>c1, <2>c2, <2>c3, <2>c4, <2>c5, <2>c6, <2>c7 DEF IndInv
<1>2. CASE /\ state' = [state EXCEPT ![n] = "waiting"]
           /\ UNCHANGED <<dependencies, processed, failed>>
  <2>c1. TypeOK'
    BY <1>0, <1>b, <1>2, KidsOfNodes DEF IndInv, TypeOK, Unsettled, Done, Reasons
  <2>c2. CollectionsFollowNodes'
    BY <1>0, <1>2, KidsOfNodes DEF IndInv, TypeOK, CollectionsFollowNodes,
       Unsettled, Done
  <2>c3. DeliveryIsActive'
    BY <1>0, <1>2, KidsOfNodes DEF IndInv, TypeOK, DeliveryIsActive
  <2>c4. DoneToTheBottom'
    BY <1>0, <1>2, KidsOfNodes DEF IndInv, TypeOK, DoneToTheBottom, Done
  <2>c5. HandlerSeesFullSlots'
    BY <1>0, <1>2, KidsOfNodes DEF IndInv, TypeOK, HandlerSeesFullSlots
  <2>c6. WaitingParentIsReleasable'
    BY <1>0, <1>2, KidsOfNodes DEF IndInv, TypeOK, WaitingParentIsReleasable
  <2>c7. ShortMeansLost'
    BY <1>0, <1>b, <1>2, KidsOfNodes DEF IndInv, TypeOK, ShortMeansLost
  <2> QED
    BY <2>c1, <2>c2, <2>c3, <2>c4, <2>c5, <2>c6, <2>c7 DEF IndInv
<1> QED
  BY <1>1, <1>2

\* An attempt is spent on a delivery.
LEMMA SpendKeeps ==
  ASSUME IndInv, NEW n \in Nodes, NEW forGood \in BOOLEAN,
         step[n] \in {"pending", "failing"}, SpendAttempt(n, forGood),
         UNCHANGED <<burial, counted, cancelling, lost, retries, stalls>>
  PROVE  IndInv'
<1>1. state[n] = "active" /\ attemptsMade' \in [Nodes -> Nat] /\ stalls' \in [Nodes -> Nat]
  BY DEF IndInv, DeliveryIsActive, TypeOK, SpendAttempt
<1> QED
  BY <1>1, DeliveryOverKeeps DEF SpendAttempt

\* A delivery is lost with its worker, and perhaps the job with it.
LEMMA StallsKeeps ==
  ASSUME IndInv, NEW n \in Nodes, Stalls(n)
  PROVE  IndInv'
<1>1. attemptsMade' \in [Nodes -> Nat] /\ stalls' \in [Nodes -> Nat]
  BY DEF IndInv, TypeOK, Stalls
<1> QED
  BY <1>1, DeliveryOverKeeps DEF Stalls

\* A job completes on nodes that are done all the way down.
LEMMA CompletesKeeps ==
  ASSUME IndInv, NEW n \in Nodes, Completes(n)
  PROVE  IndInv'
<1>0. state[n] = "active" /\ TypeOK /\ Kids(n) \subseteq processed
  BY DEF IndInv, DeliveryIsActive, HandlerSeesFullSlots, Completes
<1>1. /\ state' \in [Nodes -> Unsettled \cup Done \cup {"failed", "removed"}]
      /\ state'[n] = "completed"
      /\ \A m \in Nodes : m # n =>
           state'[m] = state[m] \/ (state[m] = "waiting_children" /\ state'[m] = "waiting")
      /\ dependencies' = dependencies \ {n}
      /\ \A m \in Nodes : m # n /\ state'[m] = "waiting_children" =>
           state[m] = "waiting_children" /\ (dependencies \ {n}) \cap Kids(m) # {}
  BY EndsMoves DEF Completes, Done
<1>2. \A x \in Below[n] : state[x] \in Done
  BY <1>0, RunningStandsOnDone
<1>c1. TypeOK'
  BY <1>0, <1>1, KidsOfNodes DEF Completes, IndInv, TypeOK, Unsettled, Done, Reasons,
     Into, Dependents
<1>c2. CollectionsFollowNodes'
  BY <1>0, <1>1, KidsOfNodes DEF Completes, IndInv, TypeOK, CollectionsFollowNodes,
     Unsettled, Done, Into, Dependents
<1>c3. DeliveryIsActive'
  BY <1>0, <1>1, KidsOfNodes DEF Completes, IndInv, TypeOK, DeliveryIsActive
<1>c4. DoneToTheBottom'
  BY <1>0, <1>1, KidsOfNodes, <1>2, TreeAssumption DEF Completes, IndInv, TypeOK,
     DoneToTheBottom, Done, Dependents
<1>c5. HandlerSeesFullSlots'
  BY <1>0, <1>1, KidsOfNodes DEF Completes, IndInv, TypeOK, HandlerSeesFullSlots, Into
<1>c6. WaitingParentIsReleasable'
  BY <1>0, <1>1, KidsOfNodes DEF Completes, IndInv, TypeOK, WaitingParentIsReleasable
<1>c7. ShortMeansLost'
  BY <1>0, <1>1, KidsOfNodes DEF Completes, IndInv, TypeOK, ShortMeansLost
<1> QED
  BY <1>c1, <1>c2, <1>c3, <1>c4, <1>c5, <1>c6, <1>c7 DEF IndInv

\* jobs.retry: a failed job has nothing running above it.
LEMMA RetryKeeps ==
  ASSUME IndInv, NEW n \in Nodes, Retry(n)
  PROVE  IndInv'
<1> USE MaxRetriesAssumption
<1>1. ASSUME NEW m \in Nodes, step[m] = "running" PROVE n \notin Kids(m)
  BY <1>1, KidsOfNodes DEF Retry, IndInv, HandlerSeesFullSlots, CollectionsFollowNodes
<1>c1. TypeOK'
  BY KidsOfNodes DEF Retry, IndInv, TypeOK, Unsettled, Done, Reasons, Into, Dependents
<1>c2. CollectionsFollowNodes'
  BY KidsOfNodes DEF Retry, IndInv, TypeOK, CollectionsFollowNodes, Unsettled, Done,
     Into, Dependents
<1>c3. DeliveryIsActive'
  BY KidsOfNodes DEF Retry, IndInv, TypeOK, DeliveryIsActive
<1>c4. DoneToTheBottom'
  BY KidsOfNodes DEF Retry, IndInv, TypeOK, DoneToTheBottom, Done
<1>c5. HandlerSeesFullSlots'
  BY KidsOfNodes, <1>1 DEF Retry, IndInv, TypeOK, HandlerSeesFullSlots, Into
<1>c6. WaitingParentIsReleasable'
  BY KidsOfNodes DEF Retry, IndInv, TypeOK, WaitingParentIsReleasable, Into
<1>c7. ShortMeansLost'
  BY KidsOfNodes DEF Retry, IndInv, TypeOK, ShortMeansLost
<1> QED
  BY <1>c1, <1>c2, <1>c3, <1>c4, <1>c5, <1>c6, <1>c7 DEF IndInv

\* jobs.cancel reads a state, or is refused: nothing of the flow moves.
LEMMA CancelOnlyReadsKeeps ==
  ASSUME IndInv, NEW n \in Nodes, CancelReads(n) \/ CancelRefused(n)
  PROVE  IndInv'
<1>1. /\ UNCHANGED <<state, dependencies, processed, failed, step, attemptsMade, burial,
                     counted, lost, retries, stalls>>
      /\ cancelling' \subseteq Nodes
  BY DEF CancelReads, CancelRefused, IndInv, TypeOK
<1> QED
  BY <1>1 DEF IndInv, TypeOK, CollectionsFollowNodes, DeliveryIsActive, DoneToTheBottom,
     HandlerSeesFullSlots, WaitingParentIsReleasable, ShortMeansLost, ChildrenShort

\* jobs.cancel removes: whatever the jobs came to since it read the state, what is
\* done stays done, nothing that goes is running, and a parent outside loses at
\* most its dependency.
LEMMA CancelKeeps ==
  ASSUME IndInv, NEW n \in Nodes, CancelRemoves(n)
  PROVE  IndInv'
<1> DEFINE G == Gone(n)
<1>0. TypeOK /\ G \subseteq Nodes /\ n \in G
  BY TreeAssumption DEF IndInv, Gone, Dependents
<1>1. /\ \A m \in G : state[m] # "active"
      /\ \A m \in Nodes : m \in G =>
           state'[m] = IF state[m] \in Done THEN "swept" ELSE "removed"
      /\ \A m \in Nodes : m \notin G =>
           state'[m] = state[m] \/ (state[m] = "waiting_children" /\ state'[m] = "waiting")
      /\ \A m \in Nodes : m \notin G /\ state'[m] = "waiting_children" =>
           state[m] = "waiting_children" /\ ~Releases(n, m)
      /\ dependencies' = dependencies \ G
      /\ processed' = processed \ Below[n] /\ failed' = failed \ Below[n]
  BY DEF CancelRemoves, Releases
<1>2. state' \in [Nodes -> Unsettled \cup Done \cup {"failed", "removed"}]
  BY <1>0 DEF CancelRemoves, TypeOK, Unsettled, Done
\* Done is done.
<1>3. \A m \in Nodes : state'[m] \in Done <=> state[m] \in Done
  BY <1>1 DEF Done
\* A parent outside loses at most n, its child.
<1>4. ASSUME NEW m \in Nodes, m \notin G, NEW c \in Kids(m)
      PROVE  c \notin Below[n]
  BY <1>4, TreeAssumption DEF Kids, Gone
<1>5. ASSUME NEW m \in Nodes, step[m] = "running"
      PROVE  m \notin G /\ (Kids(m) \subseteq processed => Kids(m) \subseteq processed')
  <2>1. m \notin G
    BY <1>1, <1>5 DEF IndInv, DeliveryIsActive
  <2> QED
    BY <1>1, <1>4, <2>1
<1>6. ASSUME NEW m \in Nodes, m \notin G, state'[m] = "waiting_children"
      PROVE  dependencies' \cap Kids(m) # {}
  <2>1. state[m] = "waiting_children" /\ ~Releases(n, m)
    BY <1>1, <1>6
  <2>2. dependencies \cap Kids(m) # {}
    BY <2>1 DEF IndInv, WaitingParentIsReleasable
  <2>3. CASE n \in Kids(m)
    <3>1. n # Root /\ m = Up[n]
      BY <2>3 DEF Kids, Dependents
    <3>2. PICK c \in dependencies \cap Kids(m) : c # n
      BY <2>1, <3>1 DEF Releases
    <3> QED
      BY <1>1, <1>4, <1>6, <3>2 DEF Gone
  <2>4. CASE n \notin Kids(m)
    BY <1>1, <1>4, <1>6, <2>2, <2>4 DEF Gone
  <2> QED
    BY <2>3, <2>4
<1>7. /\ step' = step /\ attemptsMade' = attemptsMade /\ burial' = burial
      /\ counted' = counted /\ retries' = retries /\ stalls' = stalls
      /\ lost' = lost \cup {m \in G \ {Root} : state[m] \notin Done}
      /\ cancelling' = cancelling \ {n}
  BY DEF CancelRemoves
<1> HIDE DEF G
<1>c1. TypeOK'
  BY <1>0, <1>1, <1>2, <1>7 DEF IndInv, TypeOK, Reasons, Dependents
<1>c2. CollectionsFollowNodes'
  <2> SUFFICES ASSUME NEW c \in Dependents
               PROVE  /\ state'[c] \in Unsettled => c \in dependencies'
                      /\ state'[c] = "failed" => c \in failed'
                      /\ c \in processed' => state'[c] \in Done
                      /\ state'[c] \in Done /\ state'[Up[c]] \notin Done \cup {"removed"}
                           => c \in processed'
                      /\ state'[c] = "removed" => c \in lost'
    BY DEF CollectionsFollowNodes
  <2>1. c \in Nodes /\ c # Root /\ Up[c] \in Nodes /\ c \in Kids(Up[c])
    BY KidsOfNodes DEF Dependents
  <2>2. /\ state[c] \in Unsettled => c \in dependencies
        /\ state[c] = "failed" => c \in failed
        /\ c \in processed => state[c] \in Done
        /\ state[c] \in Done /\ state[Up[c]] \notin Done \cup {"removed"} => c \in processed
        /\ state[c] = "removed" => c \in lost
    BY DEF IndInv, CollectionsFollowNodes
  <2>3. (c \in processed' => state'[c] \in Done) /\ (c \in Below[n] => c \in G)
    BY <1>1, <1>3, <2>1, <2>2 DEF G, Gone
  <2>4. ASSUME state'[c] \in Done, state'[Up[c]] \notin Done \cup {"removed"}
        PROVE  c \in processed'
    <3>1. Up[c] \notin G
      BY <1>1, <2>1, <2>4 DEF Done
    <3>2. state[Up[c]] \notin Done \cup {"removed"}
      BY <1>1, <1>3, <2>1, <2>4, <3>1
    <3> QED
      BY <1>1, <1>3, <1>4, <2>1, <2>2, <2>4, <3>1, <3>2
  <2>5. CASE c \in G
    BY <1>1, <1>7, <2>1, <2>2, <2>3, <2>4, <2>5 DEF Unsettled, Done
  <2>6. CASE c \notin G
    BY <1>1, <1>7, <2>1, <2>2, <2>3, <2>4, <2>6 DEF Unsettled
  <2> QED
    BY <2>5, <2>6
<1>c3. DeliveryIsActive'
  BY <1>0, <1>1, <1>7 DEF IndInv, DeliveryIsActive
<1>c4. DoneToTheBottom'
  BY <1>3, KidsOfNodes DEF IndInv, DoneToTheBottom
<1>c5. HandlerSeesFullSlots'
  BY <1>1, <1>5, <1>7 DEF IndInv, HandlerSeesFullSlots
<1>c6. WaitingParentIsReleasable'
  BY <1>1, <1>6 DEF Done, WaitingParentIsReleasable
<1>c7. ShortMeansLost'
  BY <1>7 DEF IndInv, ShortMeansLost
<1> QED
  BY <1>c1, <1>c2, <1>c3, <1>c4, <1>c5, <1>c6, <1>c7 DEF IndInv

\* The flow as it is stored.
LEMMA InitIndInv == Init => IndInv
<1> SUFFICES ASSUME Init PROVE IndInv
  OBVIOUS
<1>1. TypeOK
  BY MaxRetriesAssumption, MaxStallsAssumption
     DEF Init, TypeOK, Unsettled, Done, Reasons
<1>2. CollectionsFollowNodes /\ DeliveryIsActive /\ DoneToTheBottom
  BY KidsOfNodes DEF Init, CollectionsFollowNodes, DeliveryIsActive, DoneToTheBottom, Done
<1>3. HandlerSeesFullSlots /\ ShortMeansLost
  BY DEF Init, HandlerSeesFullSlots, ShortMeansLost
<1>4. WaitingParentIsReleasable
  BY KidsOfNodes DEF Init, WaitingParentIsReleasable
<1> QED
  BY <1>1, <1>2, <1>3, <1>4 DEF IndInv

\* Every step keeps the invariant.
LEMMA NextIndInv == IndInv /\ [Next]_vars => IndInv'
<1> SUFFICES ASSUME IndInv, [Next]_vars PROVE IndInv'
  OBVIOUS
<1>1. ASSUME NEW n \in Nodes, Delivery(n) PROVE IndInv'
  <2>1. CASE WaitFails(n)
    BY <2>1, SpendKeeps DEF WaitFails
  <2>2. CASE Fails(n)
    BY <2>2, SpendKeeps DEF Fails
  <2> QED
    BY <1>1, <2>1, <2>2, TakenKeeps, ReadsKeeps, WaitsKeeps, CompletesKeeps, ThrowsKeeps
       DEF Delivery
<1>2. CASE UNCHANGED vars
  BY <1>2 DEF vars, IndInv, TypeOK, CollectionsFollowNodes, DeliveryIsActive,
     DoneToTheBottom, HandlerSeesFullSlots, WaitingParentIsReleasable, ShortMeansLost
<1> QED
  BY <1>1, <1>2, StallsKeeps, SweptKeeps, RetryKeeps, CancelOnlyReadsKeeps, CancelKeeps DEF Next

-----------------------------------------------------------------------------
\* IndInv is an invariant of the flow.
THEOREM IndInvHolds == Spec => []IndInv
BY InitIndInv, NextIndInv, PTL DEF Spec

\* dispatch runs a waiting parent's handler only over the results of every child
\* it was enqueued with (childrenFor).
THEOREM HandlerSeesFullSlotsHolds == Spec => []HandlerSeesFullSlots
<1>1. IndInv => HandlerSeesFullSlots
  BY DEF IndInv
<1> QED
  BY <1>1, IndInvHolds, PTL

\* waitForChildren never strands a parent behind children that all settled.
THEOREM WaitingParentIsReleasableHolds == Spec => []WaitingParentIsReleasable
<1>1. IndInv => WaitingParentIsReleasable
  BY DEF IndInv
<1> QED
  BY <1>1, IndInvHolds, PTL

\* childrenShort refuses a parent with counts only for a child it lost.
THEOREM ShortMeansLostHolds == Spec => []ShortMeansLost
<1>1. IndInv => ShortMeansLost
  BY DEF IndInv
<1> QED
  BY <1>1, IndInvHolds, PTL

\* A flow completes only if every job of its tree did, at any depth (childrenFor
\* and ignoreDependencyOnFailure, level by level), even with cancels that remove
\* what ended since they read it.
THEOREM GreenMeansWholeHolds == Spec => []GreenMeansWhole
<1>1. IndInv => GreenMeansWhole
  BY TreeAssumption, NodesAssumption DEF IndInv, DoneToTheBottom, GreenMeansWhole, Dependents
<1> QED
  BY <1>1, IndInvHolds, PTL

=============================================================================

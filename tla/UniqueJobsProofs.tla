-------------------------- MODULE UniqueJobsProofs --------------------------
(***************************************************************************)
(* Proofs about UniqueJobs, for any policies, any jobs and any number of   *)
(* enqueues: the overlap noOverlap forbids, and the run it owes.           *)
(***************************************************************************)
EXTENDS UniqueJobs, TLAPS

\* A policy has one of the three modes, and its times are natural numbers; a
\* keepLast policy that resolves waits out its window (Delivery.ts).
LEMMA PolicyTyped ==
  ASSUME TypeOK
  PROVE  /\ policy.mode \in Modes /\ policy.ttlMs \in Nat /\ policy.delayMs \in Nat
         /\ DeduplicationTtl(policy) \in Nat
         /\ \A mode : ResolveDelayMs(policy, mode) \in Nat
         /\ policy.mode = "keepLast" /\ ResolveUnique(policy) =>
              /\ DeduplicationTtl(policy) > 0
              /\ ResolveDelayMs(policy, policy.mode) >= DeduplicationTtl(policy)
         /\ KeyLastsWithJob => DeduplicationTtl(policy) = 0
BY PoliciesAssumption
   DEF TypeOK, Modes, DeduplicationTtl, ResolveDelayMs, ResolveUnique, KeyLastsWithJob

\* A job stored is delayed or waits; the other jobs are left alone.
LEMMA StoredWaits ==
  ASSUME NEW j \in Jobs, NEW delay \in Nat,
         NEW states \in [Jobs -> States]
  PROVE  /\ Stored(states, j, delay) \in [Jobs -> States]
         /\ Stored(states, j, delay)[j] = IF delay > 0 THEN "delayed" ELSE "waiting"
         /\ \A i \in Jobs : i # j => Stored(states, j, delay)[i] = states[i]
BY DEF Stored, Live, States

\* What an enqueue that takes the key leaves behind.
LEMMA AddUniqueTakesKey ==
  ASSUME IndInv, NEW j \in Jobs, state[j] = "none", ResolveUnique(policy),
         NEW states \in [Jobs -> States],
         AddUnique(j, states), policy' = policy
  PROVE  /\ state' \in [Jobs -> States]
         /\ wait' \in [Jobs -> Nat] /\ key' = j /\ ttl' \in Nat /\ next' = next /\ outrun' = FALSE
         /\ state'[j] \in {"delayed", "waiting"}
         /\ \A i \in Jobs : i # j => state'[i] = states[i]
         /\ KeyLastsWithJob => ttl' = 0
         /\ policy.mode = "keepLast" => state'[j] = "delayed" /\ ttl' > 0 /\ wait'[j] >= ttl'
<1> DEFINE delay == ResolveDelayMs(policy, policy.mode)
<1>1. delay \in Nat /\ TypeOK
  BY PolicyTyped DEF IndInv
<1>2. state' = Stored(states, j, delay) /\ wait' = [wait EXCEPT ![j] = delay]
      /\ key' = j /\ ttl' = DeduplicationTtl(policy) /\ next' = next /\ outrun' = FALSE
  BY DEF AddUnique
<1>3. wait' \in [Jobs -> Nat] /\ wait'[j] = delay
  BY <1>1, <1>2 DEF TypeOK
<1>4. /\ state' \in [Jobs -> States]
      /\ state'[j] = IF delay > 0 THEN "delayed" ELSE "waiting"
      /\ \A i \in Jobs : i # j => state'[i] = states[i]
  BY <1>1, <1>2, StoredWaits
<1>5. /\ DeduplicationTtl(policy) \in Nat
      /\ KeyLastsWithJob => DeduplicationTtl(policy) = 0
      /\ policy.mode = "keepLast" =>
           DeduplicationTtl(policy) > 0 /\ delay >= DeduplicationTtl(policy)
  BY <1>1, PolicyTyped
<1> QED
  BY <1>1, <1>2, <1>3, <1>4, <1>5

-----------------------------------------------------------------------------
(* One lemma per action: the inductive invariant is kept.                  *)

\* jobs.enqueue, in its four outcomes.
LEMMA EnqueueKeeps ==
  ASSUME IndInv, NEW j \in Jobs, Enqueue(j)
  PROVE  IndInv'
<1> USE NoJobAssumption
<1>0. TypeOK /\ policy.mode \in Modes
  BY PolicyTyped DEF IndInv
<1>1. CASE key = NoJob /\ AddUnique(j, state)
  <2>1. state \in [Jobs -> States]
    BY <1>0 DEF TypeOK
  <2>2. /\ state' \in [Jobs -> States]
        /\ wait' \in [Jobs -> Nat] /\ key' = j /\ ttl' \in Nat /\ next' = next /\ outrun' = FALSE
        /\ state'[j] \in {"delayed", "waiting"}
        /\ \A i \in Jobs : i # j => state'[i] = state[i]
        /\ KeyLastsWithJob => ttl' = 0
        /\ policy.mode = "keepLast" => state'[j] = "delayed" /\ ttl' > 0 /\ wait'[j] >= ttl'
    BY <1>1, <2>1, AddUniqueTakesKey DEF Enqueue
  <2>g. next' \in BOOLEAN /\ outrun' \in BOOLEAN /\ owed' \in BOOLEAN
    BY <1>0, <1>1, <2>2, Zenon DEF Enqueue, TypeOK
  <2>a. TypeOK'
    BY <1>0, <1>1, <2>2, <2>g, MaxEnqueuesAssumption DEF Enqueue, TypeOK, Live, States
  <2>b. UnstoredIsNotExcused'
    BY <1>0, <1>1, <2>2 DEF Enqueue, IndInv, TypeOK, UnstoredIsNotExcused, Excused
  <2>c. KeyNamesTheJob'
    BY <1>0, <1>1, <2>2 DEF Enqueue, IndInv, TypeOK, KeyNamesTheJob, UnstoredIsNotExcused,
       KeyLastsWithJob, Excused, Live
  <2>d. WindowWithinDelay'
    BY <1>0, <1>1, <2>2 DEF Enqueue, IndInv, TypeOK, WindowWithinDelay,
       UnstoredIsNotExcused, Excused
  <2>e. NextIsBehindTheKey'
    BY <1>0, <1>1, <2>2 DEF Enqueue, IndInv, TypeOK, NextIsBehindTheKey
  <2>f. EnqueueIsFollowedByRun'
    BY <1>0, <1>1, <2>2 DEF Enqueue, IndInv, TypeOK, UnstoredIsNotExcused,
       EnqueueIsFollowedByRun, Excused
  <2> QED
    BY <2>a, <2>b, <2>c, <2>d, <2>e, <2>f DEF IndInv
<1>2. CASE /\ key # NoJob /\ Replace(policy) /\ state[key] = "delayed"
           /\ AddUnique(j, [state EXCEPT ![key] = "removed"])
  <2> DEFINE states == [state EXCEPT ![key] = "removed"]
  <2>1. states \in [Jobs -> States]
    BY <1>0 DEF TypeOK, States
  <2>2. /\ state' \in [Jobs -> States]
        /\ wait' \in [Jobs -> Nat] /\ key' = j /\ ttl' \in Nat /\ next' = next /\ outrun' = FALSE
        /\ state'[j] \in {"delayed", "waiting"}
        /\ \A i \in Jobs : i # j => state'[i] = states[i]
        /\ policy.mode = "keepLast" => state'[j] = "delayed" /\ ttl' > 0 /\ wait'[j] >= ttl'
    BY <1>2, <2>1, AddUniqueTakesKey DEF Enqueue
  <2>3. policy.mode = "keepLast" /\ ~KeyLastsWithJob /\ key \in Jobs
    BY <1>0, <1>2 DEF Replace, KeyLastsWithJob, TypeOK
  <2>4. \A i \in Jobs : i # j => state'[i] = IF i = key THEN "removed" ELSE state[i]
    BY <1>0, <2>2 DEF TypeOK
  <2>g. next' \in BOOLEAN /\ outrun' \in BOOLEAN /\ owed' \in BOOLEAN
    BY <1>0, <1>2, <2>2, <2>3, <2>4, Zenon DEF Enqueue, TypeOK
  <2>a. TypeOK'
    BY <1>0, <1>2, <2>2, <2>3, <2>4, <2>g, MaxEnqueuesAssumption DEF Enqueue, TypeOK, Live, States
  <2>b. UnstoredIsNotExcused'
    BY <1>0, <1>2, <2>2, <2>3, <2>4 DEF Enqueue, IndInv, TypeOK, UnstoredIsNotExcused, Excused
  <2>c. KeyNamesTheJob'
    BY <1>0, <1>2, <2>2, <2>3, <2>4 DEF Enqueue, IndInv, TypeOK, KeyNamesTheJob, UnstoredIsNotExcused,
       KeyLastsWithJob, Excused, Live
  <2>d. WindowWithinDelay'
    BY <1>0, <1>2, <2>2, <2>3, <2>4 DEF Enqueue, IndInv, TypeOK, WindowWithinDelay,
       UnstoredIsNotExcused, Excused
  <2>e. NextIsBehindTheKey'
    BY <1>0, <1>2, <2>2, <2>3, <2>4 DEF Enqueue, IndInv, TypeOK, NextIsBehindTheKey
  <2>f. EnqueueIsFollowedByRun'
    BY <1>0, <1>2, <2>2, <2>3, <2>4 DEF Enqueue, IndInv, TypeOK, UnstoredIsNotExcused,
       EnqueueIsFollowedByRun, Excused
  <2> QED
    BY <2>a, <2>b, <2>c, <2>d, <2>e, <2>f DEF IndInv
<1>3. CASE /\ key # NoJob /\ KeepLastIfActive(policy) /\ state[key] = "active"
           /\ next' = TRUE /\ UNCHANGED <<state, wait, key, ttl, outrun>>
  <2>g. next' \in BOOLEAN /\ outrun' \in BOOLEAN /\ owed' \in BOOLEAN
    BY <1>0, <1>3, Zenon DEF Enqueue, KeepLastIfActive, TypeOK
  <2>a. TypeOK'
    BY <1>0, <1>3, <2>g, MaxEnqueuesAssumption DEF Enqueue, KeepLastIfActive, TypeOK, Live, States
  <2>b. UnstoredIsNotExcused'
    BY <1>0, <1>3 DEF Enqueue, KeepLastIfActive, IndInv, TypeOK, UnstoredIsNotExcused, Excused
  <2>c. KeyNamesTheJob'
    BY <1>0, <1>3 DEF Enqueue, KeepLastIfActive, IndInv, TypeOK, KeyNamesTheJob, UnstoredIsNotExcused,
       KeyLastsWithJob, Excused, Live
  <2>d. WindowWithinDelay'
    BY <1>0, <1>3 DEF Enqueue, KeepLastIfActive, IndInv, TypeOK, WindowWithinDelay,
       UnstoredIsNotExcused, Excused
  <2>e. NextIsBehindTheKey'
    BY <1>0, <1>3 DEF Enqueue, KeepLastIfActive, IndInv, TypeOK, NextIsBehindTheKey
  <2>f. EnqueueIsFollowedByRun'
    BY <1>0, <1>3 DEF Enqueue, KeepLastIfActive, IndInv, TypeOK, UnstoredIsNotExcused,
       EnqueueIsFollowedByRun, Excused
  <2> QED
    BY <2>a, <2>b, <2>c, <2>d, <2>e, <2>f DEF IndInv
<1>4. CASE /\ key # NoJob
           /\ ~(Replace(policy) /\ state[key] = "delayed")
           /\ ~(KeepLastIfActive(policy) /\ state[key] = "active")
           /\ UNCHANGED <<state, wait, key, ttl, next, outrun>>
  <2>1. key \in Jobs
    BY <1>0, <1>4 DEF TypeOK
  <2>2. policy.mode = "keepLast" => outrun
    BY <1>4 DEF IndInv, WindowWithinDelay, Replace
  <2>3. policy.mode = "noOverlap" => state[key] \in {"delayed", "waiting"} /\ key \notin Excused
    BY <1>4 DEF IndInv, KeyNamesTheJob, KeyLastsWithJob, KeepLastIfActive, Live
  <2>g. next' \in BOOLEAN /\ outrun' \in BOOLEAN /\ owed' \in BOOLEAN
    BY <1>0, <1>4, <2>1, <2>2, <2>3, Zenon DEF Enqueue, TypeOK
  <2>a. TypeOK'
    BY <1>0, <1>4, <2>1, <2>2, <2>3, <2>g, MaxEnqueuesAssumption DEF Enqueue, TypeOK, Live, States
  <2>b. UnstoredIsNotExcused'
    BY <1>0, <1>4, <2>1, <2>2, <2>3 DEF Enqueue, IndInv, TypeOK, UnstoredIsNotExcused, Excused
  <2>c. KeyNamesTheJob'
    BY <1>0, <1>4, <2>1, <2>2, <2>3 DEF Enqueue, IndInv, TypeOK, KeyNamesTheJob, UnstoredIsNotExcused,
       KeyLastsWithJob, Excused, Live
  <2>d. WindowWithinDelay'
    BY <1>0, <1>4, <2>1, <2>2, <2>3 DEF Enqueue, IndInv, TypeOK, WindowWithinDelay,
       UnstoredIsNotExcused, Excused
  <2>e. NextIsBehindTheKey'
    BY <1>0, <1>4, <2>1, <2>2, <2>3 DEF Enqueue, IndInv, TypeOK, NextIsBehindTheKey
  <2>f. EnqueueIsFollowedByRun'
    BY <1>0, <1>4, <2>1, <2>2, <2>3 DEF Enqueue, IndInv, TypeOK, UnstoredIsNotExcused,
       EnqueueIsFollowedByRun, Excused
  <2> QED
    BY <2>a, <2>b, <2>c, <2>d, <2>e, <2>f DEF IndInv
<1> QED
  BY <1>1, <1>2, <1>3, <1>4 DEF Enqueue

\* A job stored without uniqueness is not the key's.
LEMMA PlainKeeps ==
  ASSUME IndInv, NEW j \in Jobs, EnqueueWithoutUniqueness(j)
  PROVE  IndInv'
<1> DEFINE delay == ResolveDelayMs(policy, "none")
<1>0. TypeOK /\ policy.mode \in Modes /\ delay \in Nat
  BY PolicyTyped DEF IndInv
<1>1. state \in [Jobs -> States]
  BY <1>0 DEF TypeOK
<1>2. /\ state' \in [Jobs -> States]
      /\ state'[j] \in {"delayed", "waiting"}
      /\ \A i \in Jobs : i # j => state'[i] = state[i]
  BY <1>0, <1>1, StoredWaits DEF EnqueueWithoutUniqueness
<1>3. wait' \in [Jobs -> Nat] /\ \A i \in Jobs : i # j => wait'[i] = wait[i]
  BY <1>0 DEF EnqueueWithoutUniqueness, TypeOK
<1>4. key # NoJob /\ (KeyLastsWithJob \/ policy.mode = "keepLast") => key \in Jobs /\ key # j
  BY <1>0 DEF IndInv, KeyNamesTheJob, WindowWithinDelay, EnqueueWithoutUniqueness, TypeOK, Live
<1>g. next' \in BOOLEAN /\ outrun' \in BOOLEAN /\ owed' \in BOOLEAN
  BY <1>0, <1>2, <1>3, <1>4, NoJobAssumption, Zenon DEF EnqueueWithoutUniqueness, TypeOK
<1>a. TypeOK'
  BY <1>0, <1>2, <1>3, <1>4, NoJobAssumption, <1>g, MaxEnqueuesAssumption DEF EnqueueWithoutUniqueness, TypeOK, Live, States
<1>b. UnstoredIsNotExcused'
  BY <1>0, <1>2, <1>3, <1>4, NoJobAssumption DEF EnqueueWithoutUniqueness, IndInv, TypeOK, UnstoredIsNotExcused, Excused
<1>c. KeyNamesTheJob'
  BY <1>0, <1>2, <1>3, <1>4, NoJobAssumption DEF EnqueueWithoutUniqueness, IndInv, TypeOK, KeyNamesTheJob, UnstoredIsNotExcused,
     KeyLastsWithJob, Excused, Live
<1>d. WindowWithinDelay'
  BY <1>0, <1>2, <1>3, <1>4, NoJobAssumption DEF EnqueueWithoutUniqueness, IndInv, TypeOK, WindowWithinDelay,
     UnstoredIsNotExcused, Excused
<1>e. NextIsBehindTheKey'
  BY <1>0, <1>2, <1>3, <1>4, NoJobAssumption DEF EnqueueWithoutUniqueness, IndInv, TypeOK, NextIsBehindTheKey
<1>f. EnqueueIsFollowedByRun'
  BY <1>0, <1>2, <1>3, <1>4, NoJobAssumption DEF EnqueueWithoutUniqueness, IndInv, TypeOK, UnstoredIsNotExcused,
     EnqueueIsFollowedByRun, Excused
<1> QED
  BY <1>a, <1>b, <1>c, <1>d, <1>e, <1>f DEF IndInv

\* A window shrinks with the delay of the job it guards, or was outrun by it.
LEMMA TickKeeps ==
  ASSUME IndInv, NEW delays \in BOOLEAN, NEW window \in BOOLEAN, Tick(delays, window)
  PROVE  IndInv'
<1>0. TypeOK
  BY DEF IndInv
<1>1. /\ wait' \in [Jobs -> Nat] /\ ttl' \in Nat
  BY <1>0 DEF Tick, TypeOK
<1>g. outrun' \in BOOLEAN
  BY <1>0, Zenon DEF Tick, TypeOK
<1>2. TypeOK'
  BY <1>0, <1>1, <1>g, MaxEnqueuesAssumption, NoJobAssumption DEF Tick, TypeOK
<1>3. KeyNamesTheJob' /\ NextIsBehindTheKey'
  BY <1>0, <1>1 DEF Tick, IndInv, TypeOK, KeyNamesTheJob, NextIsBehindTheKey, KeyLastsWithJob,
     Excused
<1>4. WindowWithinDelay'
  <2>1. SUFFICES ASSUME policy.mode = "keepLast", key' # NoJob
                 PROVE  /\ state[key'] # "none" /\ ttl' > 0
                        /\ ~outrun' => /\ state[key'] = "delayed" /\ key' \notin Excused
                                       /\ wait'[key'] >= ttl'
    BY DEF Tick, WindowWithinDelay, Excused
  <2>2. key' = key /\ key \in Jobs /\ ~(window /\ ttl = 1)
    BY <1>0, <2>1 DEF Tick, TypeOK
  <2>3. /\ state[key] # "none" /\ ttl > 0
        /\ ~outrun => state[key] = "delayed" /\ key \notin Excused
    BY <2>1, <2>2 DEF IndInv, WindowWithinDelay
  <2>4. ttl' > 0
    BY <1>0, <2>2, <2>3 DEF Tick, TypeOK
  <2>5. ~outrun' => ~outrun /\ ~(wait'[key'] < ttl')
    BY <2>1 DEF Tick, Replace
  <2>6. wait'[key'] \in Nat /\ ttl' \in Nat
    BY <1>1, <2>2
  <2> QED
    BY <2>2, <2>3, <2>4, <2>5, <2>6
<1> QED
  BY <1>2, <1>3, <1>4 DEF Tick, IndInv, UnstoredIsNotExcused, EnqueueIsFollowedByRun, Excused

\* The steps that move one job and leave the key alone.
LEMMA JobMoves ==
  ASSUME IndInv, NEW j \in Jobs, Promote(j) \/ BodyStarts(j) \/ Retry(j)
  PROVE  IndInv'
<1> USE NoJobAssumption
<1>0. TypeOK
  BY DEF IndInv
<1>1. CASE Promote(j)
  <2>1. policy.mode = "keepLast" /\ key # NoJob /\ ~outrun => key # j
    BY <1>0, <1>1 DEF IndInv, WindowWithinDelay, Promote, TypeOK
  <2> QED
    BY <1>0, <1>1, <2>1 DEF Promote, IndInv, TypeOK, UnstoredIsNotExcused, KeyNamesTheJob,
       WindowWithinDelay, NextIsBehindTheKey, EnqueueIsFollowedByRun, KeyLastsWithJob,
       Excused, Live, States
<1>2. CASE BodyStarts(j)
  BY <1>0, <1>2 DEF BodyStarts, IndInv, TypeOK, UnstoredIsNotExcused, KeyNamesTheJob,
     WindowWithinDelay, NextIsBehindTheKey, EnqueueIsFollowedByRun, KeyLastsWithJob,
     Excused, Live, States
<1>3. CASE Retry(j)
  BY <1>0, <1>3 DEF Retry, IndInv, TypeOK, UnstoredIsNotExcused, KeyNamesTheJob,
     WindowWithinDelay, NextIsBehindTheKey, EnqueueIsFollowedByRun, KeyLastsWithJob,
     Excused, Live, States
<1> QED
  BY <1>1, <1>2, <1>3

\* A cancelled job takes its key along.
LEMMA CancelKeeps ==
  ASSUME IndInv, NEW j \in Jobs, Cancel(j)
  PROVE  IndInv'
<1> USE NoJobAssumption
<1>0. TypeOK
  BY DEF IndInv
<1>g. next' \in BOOLEAN /\ outrun' \in BOOLEAN /\ owed' \in BOOLEAN
  BY <1>0, Zenon DEF Cancel, TypeOK
<1>a. TypeOK'
  BY <1>0, <1>g, MaxEnqueuesAssumption DEF Cancel, TypeOK, Live, States
<1>b. UnstoredIsNotExcused'
  BY <1>0 DEF Cancel, IndInv, TypeOK, UnstoredIsNotExcused, Excused
<1>c. KeyNamesTheJob'
  BY <1>0 DEF Cancel, IndInv, TypeOK, KeyNamesTheJob, UnstoredIsNotExcused,
     KeyLastsWithJob, Excused, Live
<1>d. WindowWithinDelay'
  BY <1>0 DEF Cancel, IndInv, TypeOK, WindowWithinDelay,
     UnstoredIsNotExcused, Excused
<1>e. NextIsBehindTheKey'
  BY <1>0 DEF Cancel, IndInv, TypeOK, NextIsBehindTheKey
<1>h. policy.mode \in {"keepLast", "noOverlap"} /\ j \in Excused =>
        key # j \/ (policy.mode = "keepLast" /\ outrun)
  BY <1>0 DEF IndInv, KeyNamesTheJob, WindowWithinDelay, KeyLastsWithJob
<1>f. EnqueueIsFollowedByRun'
  BY <1>0, <1>h DEF Cancel, IndInv, TypeOK, UnstoredIsNotExcused,
     EnqueueIsFollowedByRun, Excused
<1> QED
  BY <1>a, <1>b, <1>c, <1>d, <1>e, <1>f DEF IndInv

\* A delivery ends: the key stays, goes, or passes to what was kept behind it.
LEMMA AttemptEndsKeeps ==
  ASSUME IndInv, NEW j \in Jobs, NEW end \in {"completed", "failed", "waiting"},
         NEW k \in Jobs, AttemptEnds(j, end, k)
  PROVE  IndInv'
<1> USE NoJobAssumption
<1>0. TypeOK /\ policy.mode \in Modes
  BY PolicyTyped DEF IndInv
<1> DEFINE states == [state EXCEPT ![j] = end]
<1>1. /\ states \in [Jobs -> States]
      /\ states[j] = end /\ \A i \in Jobs : i # j => states[i] = state[i]
  BY <1>0 DEF TypeOK, Live, States
<1>2. /\ state[j] = "active"
      /\ policy.mode = "keepLast" /\ key # NoJob => ttl > 0 /\ (~outrun => key # j)
  BY <1>0 DEF AttemptEnds, IndInv, WindowWithinDelay
<1> HIDE DEF states
<1>3. CASE end = "waiting" \/ key # j \/ ttl > 0
  <2>1. state' = states /\ UNCHANGED <<wait, key, next>>
    BY <1>3 DEF AttemptEnds, LetGo, states
  <2>2. KeyLastsWithJob => ttl = 0
    BY DEF IndInv, KeyNamesTheJob
  <2> QED
    BY <1>0, <1>1, <1>2, <1>3, <2>1, <2>2 DEF AttemptEnds, IndInv, TypeOK,
       UnstoredIsNotExcused, KeyNamesTheJob, WindowWithinDelay, NextIsBehindTheKey,
       EnqueueIsFollowedByRun, KeyLastsWithJob, Excused, Live, States
<1>4. CASE end # "waiting" /\ key = j /\ ~(ttl > 0) /\ ~next
  <2>1. state' = states /\ key' = NoJob /\ UNCHANGED <<wait, next>>
    BY <1>4 DEF AttemptEnds, LetGo, states
  <2> QED
    BY <1>0, <1>1, <1>2, <1>4, <2>1 DEF AttemptEnds, IndInv, TypeOK,
       UnstoredIsNotExcused, KeyNamesTheJob, WindowWithinDelay, NextIsBehindTheKey,
       EnqueueIsFollowedByRun, KeyLastsWithJob, Excused, Live, States
<1>5. CASE end # "waiting" /\ key = j /\ ~(ttl > 0) /\ next
  <2> DEFINE delay == ResolveDelayMs(policy, policy.mode)
  <2>1. /\ states[k] = "none" /\ state' = Stored(states, k, delay)
        /\ wait' = [wait EXCEPT ![k] = delay] /\ key' = k /\ next' = FALSE
    BY <1>5 DEF AttemptEnds, LetGo, states
  <2>2. delay \in Nat
    BY <1>0, PolicyTyped
  <2>3. /\ state' \in [Jobs -> States]
        /\ state'[k] \in {"delayed", "waiting"}
        /\ \A i \in Jobs : i # k => state'[i] = states[i]
    BY <1>0, <1>1, <2>1, <2>2, StoredWaits
  <2>4. wait' \in [Jobs -> Nat]
    BY <1>0, <2>1, <2>2 DEF TypeOK
  <2>5. k # j /\ state[k] = "none" /\ k \notin Excused
    BY <1>1, <2>1 DEF IndInv, UnstoredIsNotExcused
  <2>6. policy.mode = "noOverlap"
    BY <1>5 DEF IndInv, NextIsBehindTheKey
  <2>g. next' \in BOOLEAN /\ outrun' \in BOOLEAN /\ owed' \in BOOLEAN
    BY <1>0, <1>1, <1>2, <1>5, <2>1, <2>3, <2>4, <2>5, <2>6, Zenon DEF AttemptEnds, TypeOK
  <2>a. TypeOK'
    BY <1>0, <1>1, <1>2, <1>5, <2>1, <2>3, <2>4, <2>5, <2>6, <2>g, MaxEnqueuesAssumption DEF AttemptEnds, TypeOK, Live, States
  <2>b. UnstoredIsNotExcused'
    BY <1>0, <1>1, <1>2, <1>5, <2>1, <2>3, <2>4, <2>5, <2>6 DEF AttemptEnds, IndInv, TypeOK, UnstoredIsNotExcused, Excused
  <2>c. KeyNamesTheJob'
    BY <1>0, <1>1, <1>2, <1>5, <2>1, <2>3, <2>4, <2>5, <2>6 DEF AttemptEnds, IndInv, TypeOK, KeyNamesTheJob, UnstoredIsNotExcused,
       KeyLastsWithJob, Excused, Live
  <2>d. WindowWithinDelay'
    BY <1>0, <1>1, <1>2, <1>5, <2>1, <2>3, <2>4, <2>5, <2>6 DEF AttemptEnds, IndInv, TypeOK, WindowWithinDelay,
       UnstoredIsNotExcused, Excused
  <2>e. NextIsBehindTheKey'
    BY <1>0, <1>1, <1>2, <1>5, <2>1, <2>3, <2>4, <2>5, <2>6 DEF AttemptEnds, IndInv, TypeOK, NextIsBehindTheKey
  <2>f. EnqueueIsFollowedByRun'
    BY <1>0, <1>1, <1>2, <1>5, <2>1, <2>3, <2>4, <2>5, <2>6 DEF AttemptEnds, IndInv, TypeOK, UnstoredIsNotExcused,
       EnqueueIsFollowedByRun, Excused
  <2> QED
    BY <2>a, <2>b, <2>c, <2>d, <2>e, <2>f DEF IndInv
<1> QED
  BY <1>0, <1>3, <1>4, <1>5 DEF TypeOK

\* Nothing is stored at first.
LEMMA InitIndInv == Init => IndInv
<1> SUFFICES ASSUME Init PROVE IndInv
  OBVIOUS
<1>1. TypeOK
  <2>1. next \in BOOLEAN /\ outrun \in BOOLEAN /\ owed \in BOOLEAN
    BY Zenon DEF Init
  <2>2. state \in [Jobs -> States] /\ wait \in [Jobs -> Nat]
    BY DEF Init, States
  <2>3. enqueues \in 0..MaxEnqueues /\ ttl \in Nat
    BY MaxEnqueuesAssumption DEF Init
  <2> QED
    BY <2>1, <2>2, <2>3, Zenon DEF Init, TypeOK
<1>2. UnstoredIsNotExcused /\ KeyNamesTheJob /\ WindowWithinDelay
  BY NoJobAssumption DEF Init, UnstoredIsNotExcused, KeyNamesTheJob, WindowWithinDelay,
     Excused, Live
<1>3. NextIsBehindTheKey /\ EnqueueIsFollowedByRun
  BY DEF Init, NextIsBehindTheKey, EnqueueIsFollowedByRun
<1> QED
  BY <1>1, <1>2, <1>3 DEF IndInv

\* Every step keeps the invariant.
LEMMA NextIndInv == IndInv /\ [Next]_vars => IndInv'
<1> SUFFICES ASSUME IndInv, [Next]_vars PROVE IndInv'
  OBVIOUS
<1>1. ASSUME NEW delays \in BOOLEAN, NEW window \in BOOLEAN, Tick(delays, window) PROVE IndInv'
  BY <1>1, TickKeeps
<1>2. ASSUME NEW j \in Jobs, Enqueue(j) PROVE IndInv'
  BY <1>2, EnqueueKeeps
<1>3. ASSUME NEW j \in Jobs, EnqueueWithoutUniqueness(j) PROVE IndInv'
  BY <1>3, PlainKeeps
<1>4. ASSUME NEW j \in Jobs, Promote(j) \/ BodyStarts(j) \/ Retry(j) PROVE IndInv'
  BY <1>4, JobMoves
<1>5. ASSUME NEW j \in Jobs, Cancel(j) PROVE IndInv'
  BY <1>5, CancelKeeps
<1>6. ASSUME NEW j \in Jobs, NEW end \in {"completed", "failed", "waiting"}, NEW k \in Jobs,
             AttemptEnds(j, end, k)
      PROVE IndInv'
  BY <1>6, AttemptEndsKeeps
<1>7. CASE UNCHANGED vars
  BY <1>7 DEF vars, IndInv, TypeOK, UnstoredIsNotExcused, KeyNamesTheJob, WindowWithinDelay,
     NextIsBehindTheKey, EnqueueIsFollowedByRun, KeyLastsWithJob, Excused
<1> QED
  BY <1>1, <1>2, <1>3, <1>4, <1>5, <1>6, <1>7 DEF Next

-----------------------------------------------------------------------------
\* The inductive invariant holds in every reachable state.
THEOREM InvariantHolds == Spec => []IndInv
BY InitIndInv, NextIndInv, PTL DEF Spec

\* Two deliveries of a noOverlap key, or of a keepFirst key without a window,
\* never run side by side, but for jobs retried by an operator or stored without
\* uniqueness (toDeduplication, RedisDriver.ts).
THEOREM NoUnexcusedOverlapHolds == Spec => []NoUnexcusedOverlap
<1>1. IndInv => NoUnexcusedOverlap
  BY DEF IndInv, KeyNamesTheJob, KeyLastsWithJob, NoUnexcusedOverlap, Excused, Live, States
<1> QED
  BY <1>1, InvariantHolds, PTL

\* After an enqueue of a keepLast or noOverlap key a job of the key is on its
\* way, or kept behind the active one, until a body starts, unless the delay of a
\* keepLast job ended before its window (resolveDelayMs, Delivery.ts, with
\* toDeduplication).
THEOREM EnqueueIsFollowedByRunHolds == Spec => []EnqueueIsFollowedByRun
<1>1. IndInv => EnqueueIsFollowedByRun
  BY DEF IndInv
<1> QED
  BY <1>1, InvariantHolds, PTL

=============================================================================

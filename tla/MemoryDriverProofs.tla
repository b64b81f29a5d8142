------------------------- MODULE MemoryDriverProofs -------------------------
(***************************************************************************)
(* memoryDriver.  Its idempotency store implements the key Idempotency     *)
(* specifies, for every set of deliveries, also under the driver that runs *)
(* the jobs; and its line of pending jobs is the jobs that wait, each      *)
(* once, for any jobs.                                                     *)
(***************************************************************************)
EXTENDS MemoryDriver, FiniteSetTheorems, SequenceTheorems, TLAPS

LEMMA InitIndInv == Init => IndInv
  BY DeliveriesAssumption DEF Init, IndInv, Key!Live, Key!Ends

LEMMA StepIndInv == IndInv /\ [Next]_vars => IndInv'
<1>. SUFFICES ASSUME IndInv, [Next]_vars PROVE IndInv'
  OBVIOUS
<1>. USE DeliveriesAssumption DEF IndInv, Key!Live, Key!Ends, Goes
<1>1. ASSUME NEW d \in Deliveries, Deliver(d) PROVE IndInv'
  BY <1>1 DEF Deliver
<1>2. ASSUME NEW d \in Deliveries, Acquire(d) PROVE IndInv'
  BY <1>2 DEF Acquire
<1>3. ASSUME NEW d \in Deliveries, BodyStarts(d) PROVE IndInv'
  BY <1>3 DEF BodyStarts
<1>4. ASSUME NEW d \in Deliveries, Timeout(d) PROVE IndInv'
  BY <1>4 DEF Timeout
<1>5. ASSUME NEW d \in Deliveries, Settle(d) PROVE IndInv'
  BY <1>5 DEF Settle, Complete, Release
<1>6. ASSUME NEW d \in Deliveries, NEW how \in {"returned", "threw"},
             BodyEnds(d, how)
      PROVE  IndInv'
  BY <1>6 DEF BodyEnds
<1>7. CASE Forget
  BY <1>7 DEF Forget
<1>8. CASE UNCHANGED vars
  BY <1>8 DEF vars
<1>. QED
  BY <1>1, <1>2, <1>3, <1>4, <1>5, <1>6, <1>7, <1>8 DEF Next

LEMMA InitImplements == Init => Key!Init
  BY DEF Init, Key!Init

\* Under IndInv every step of the two maps is a step of the one key: complete
\* and release find the lease of the delivery that calls them.
LEMMA StepImplements == IndInv /\ [Next]_vars => [Key!Next]_(Key!vars)
<1>. SUFFICES ASSUME IndInv, [Next]_vars PROVE Key!Next \/ UNCHANGED Key!vars
  BY DEF Key!vars
<1>. USE DeliveriesAssumption
         DEF IndInv, Goes, Key!storeVars, Key!callVars, Key!HeldBy, Returned, Key!Returned
<1>1. ASSUME NEW d \in Deliveries, Deliver(d) PROVE Key!Deliver(d)
  BY <1>1 DEF Deliver, Key!Deliver
<1>2. ASSUME NEW d \in Deliveries, Acquire(d) PROVE Key!AcquireApplies(d)
  BY <1>2 DEF Acquire, Key!AcquireApplies, Key!SetLease
<1>3. ASSUME NEW d \in Deliveries, BodyStarts(d) PROVE Key!BodyStarts(d)
  BY <1>3 DEF BodyStarts, Key!BodyStarts
<1>4. ASSUME NEW d \in Deliveries, Timeout(d) PROVE Key!Timeout(d)
  BY <1>4 DEF Timeout, Key!Timeout
<1>5. ASSUME NEW d \in Deliveries, Settle(d) PROVE Key!SettleApplies(d, TRUE)
  BY <1>5 DEF Settle, Complete, Release, Key!SettleApplies, Key!CompleteLua,
              Key!ReleaseLua, Key!DeleteKey, Key!AfterSettling
<1>6. ASSUME NEW d \in Deliveries, NEW how \in {"returned", "threw"},
             BodyEnds(d, how)
      PROVE  how \in Key!Outcomes /\ Key!BodyEnds(d, how)
  BY <1>6 DEF BodyEnds, Key!BodyEnds, Key!BodyRuns, Key!Outcomes, Key!ForgetHistory
<1>7. ASSUME Forget PROVE Key!Forget
  BY <1>7 DEF Forget, Key!Forget, Key!ForgetLua, Key!DeleteKey
<1>8. ASSUME UNCHANGED vars PROVE UNCHANGED Key!vars
  BY <1>8 DEF vars, Key!vars
<1>. QED
  BY <1>1, <1>2, <1>3, <1>4, <1>5, <1>6, <1>7, <1>8 DEF Next, Key!Next, Key!Step

\* What a test of a keyed job sees over memoryDriver is what the Lua scripts of
\* the store in Redis allow.
THEOREM MemoryImplementsKeyHolds == Spec => MemoryImplementsKey
<1>. QED
  BY InitIndInv, StepIndInv, InitImplements, StepImplements, PTL
     DEF Spec, MemoryImplementsKey, Key!Spec

\* Nothing the driver does around the key moves it otherwise.
THEOREM DriverImplementsKeyHolds == DriverSpec => MemoryImplementsKey
<1>1. DriverInit => Init
  BY DEF DriverInit
<1>2. [DriverNext]_allVars => [Next]_vars
  BY DEF DriverNext, KeySteps, Enqueue, RunNext, RunEnds, RunHeld, Retry, CancelRemoves, CancelMarks,
         TakeCancelled, Pause, Consume, allVars
<1>. QED
  BY <1>1, <1>2, InitIndInv, StepIndInv, InitImplements, StepImplements, PTL
     DEF DriverSpec, MemoryImplementsKey, Key!Spec

-----------------------------------------------------------------------------
(* Lists that have every element once.                                     *)

LEMMA InList ==
  ASSUME NEW S, NEW s \in Seq(S), NEW x
  PROVE  x \in ToSet(s) <=> \E i \in 1..Len(s) : s[i] = x
  BY DEF ToSet

LEMMA AppendsOnce ==
  ASSUME NEW S, NEW s \in Seq(S), NEW j \in S, Once(s), j \notin ToSet(s)
  PROVE  /\ Append(s, j) \in Seq(S) /\ Once(Append(s, j))
         /\ ToSet(Append(s, j)) = ToSet(s) \cup {j}
<1> DEFINE t == Append(s, j)
<1>1. /\ t \in Seq(S) /\ Len(t) = Len(s) + 1 /\ t[Len(s) + 1] = j /\ Len(s) \in Nat
      /\ \A i \in 1..Len(s) : t[i] = s[i]
  OBVIOUS
<1>2. \A i \in 1..Len(s) : s[i] # j
  BY InList
<1> HIDE DEF t
<1>3. Once(t)
  BY <1>1, <1>2 DEF Once
<1>4. ASSUME NEW x PROVE x \in ToSet(t) <=> x \in ToSet(s) \cup {j}
  BY <1>1, InList
<1> QED
  BY <1>1, <1>3, <1>4 DEF t

LEMMA PrependsOnce ==
  ASSUME NEW S, NEW s \in Seq(S), NEW j \in S, Once(s), j \notin ToSet(s)
  PROVE  /\ <<j>> \o s \in Seq(S) /\ Once(<<j>> \o s)
         /\ ToSet(<<j>> \o s) = ToSet(s) \cup {j}
<1> DEFINE t == <<j>> \o s
<1>1. /\ t \in Seq(S) /\ Len(t) = Len(s) + 1 /\ t[1] = j /\ Len(s) \in Nat
      /\ \A i \in 1..Len(s) : t[i + 1] = s[i]
  OBVIOUS
<1>2. \A i \in 1..Len(s) : s[i] # j
  BY InList
<1>3. ASSUME NEW i \in 1..Len(t) PROVE i = 1 \/ (i - 1 \in 1..Len(s) /\ t[i] = s[i - 1])
  <2>1. CASE i # 1
    <3>1. i - 1 \in 1..Len(s) /\ (i - 1) + 1 = i
      BY <1>1, <2>1
    <3> QED
      BY <1>1, <3>1
  <2> QED
    BY <2>1
<1> HIDE DEF t
<1>4. Once(t)
  <2> SUFFICES ASSUME NEW i \in 1..Len(t), NEW k \in 1..Len(t), t[i] = t[k] PROVE i = k
    BY DEF Once
  <2>1. CASE i = 1 \/ k = 1
    BY <1>1, <1>2, <1>3, <2>1
  <2>2. CASE i # 1 /\ k # 1
    <3>1. i - 1 = k - 1
      BY <1>3, <2>2 DEF Once
    <3> QED
      BY <3>1
  <2> QED
    BY <2>1, <2>2
<1>5. ASSUME NEW x PROVE x \in ToSet(t) <=> x \in ToSet(s) \cup {j}
  <2>1. ASSUME NEW i \in 1..Len(s), s[i] = x PROVE \E k \in 1..Len(t) : t[k] = x
    BY <1>1, <2>1
  <2> QED
    BY <1>1, <1>3, <2>1, InList
<1> QED
  BY <1>1, <1>4, <1>5 DEF t

LEMMA TailOnce ==
  ASSUME NEW S, NEW s \in Seq(S), s # <<>>, Once(s)
  PROVE  /\ Head(s) \in ToSet(s) /\ Tail(s) \in Seq(S) /\ Once(Tail(s))
         /\ ToSet(Tail(s)) = ToSet(s) \ {Head(s)}
<1> DEFINE t == Tail(s)
<1>1. /\ t \in Seq(S) /\ Len(s) \in Nat \ {0} /\ Len(t) = Len(s) - 1 /\ Head(s) = s[1]
      /\ \A i \in 1..Len(t) : t[i] = s[i + 1]
  OBVIOUS
<1> HIDE DEF t
<1>2. Head(s) \in ToSet(s)
  BY <1>1, InList
<1>3. Once(t)
  BY <1>1 DEF Once
<1>4. ASSUME NEW x PROVE x \in ToSet(t) <=> x \in ToSet(s) \ {Head(s)}
  <2>1. ASSUME NEW i \in 1..Len(s), i # 1, s[i] = x PROVE \E k \in 1..Len(t) : t[k] = x
    <3>1. i - 1 \in 1..Len(t) /\ (i - 1) + 1 = i
      BY <1>1, <2>1
    <3> QED
      BY <1>1, <2>1, <3>1
  <2>2. ASSUME NEW k \in 1..Len(t), t[k] = x PROVE x \in ToSet(s) /\ x # s[1]
    <3>1. k + 1 \in 1..Len(s) /\ k + 1 # 1 /\ s[k + 1] = x
      BY <1>1, <2>2
    <3> QED
      BY <1>1, <3>1, InList DEF Once
  <2> QED
    BY <1>1, <2>1, <2>2, InList
<1> QED
  BY <1>1, <1>2, <1>3, <1>4 DEF t

\* splice(indexOf(j), 1) of a list that has j, once, takes j out and nothing else.
LEMMA SplicesOnce ==
  ASSUME NEW S, NEW s \in Seq(S), NEW j, Once(s), j \in ToSet(s)
  PROVE  /\ Spliced(s, j) \in Seq(S) /\ Once(Spliced(s, j))
         /\ ToSet(Spliced(s, j)) = ToSet(s) \ {j}
<1>1. PICK at \in 1..Len(s) : s[at] = j
  BY InList
<1>n. Len(s) \in Nat /\ s # <<>>
  BY <1>1
<1> DEFINE u == SubSeq(s, 1, at - 1)
           v == SubSeq(s, at + 1, Len(s))
           t == u \o v
<1>2. Spliced(s, j) = t
  <2>1. {i \in 1..Len(s) : s[i] = j} = {at}
    BY <1>1 DEF Once
  <2>2. Min({at}) = at
    BY <1>1, <1>n DEF Min
  <2>3. SelectInSeq(s, LAMBDA i : i = j) = at
    BY <2>1, <2>2 DEF SelectInSeq
  <2>4. at # 0
    BY <1>1
  <2>5. Spliced(s, j) = RemoveAt(s, at)
    BY <1>n, <2>3, <2>4, Zenon DEF Spliced
  <2> QED
    BY <2>5 DEF RemoveAt
<1>3. u \in Seq(S) /\ Len(u) = at - 1 /\ \A i \in 1..(at - 1) : u[i] = s[i]
  BY <1>1, <1>n
<1>4. v \in Seq(S) /\ Len(v) = Len(s) - at /\ \A i \in 1..(Len(s) - at) : v[i] = s[at + i]
  BY <1>1, <1>n
<1> HIDE DEF u, v
<1>5. /\ t \in Seq(S) /\ Len(t) = Len(u) + Len(v)
      /\ \A i \in 1..(Len(u) + Len(v)) : t[i] = IF i <= Len(u) THEN u[i] ELSE v[i - Len(u)]
  BY <1>3, <1>4, ConcatProperties
<1> HIDE DEF t
<1>l. Len(t) = Len(s) - 1
  BY <1>n, <1>3, <1>4, <1>5
<1>6. ASSUME NEW i \in 1..Len(t) PROVE t[i] = IF i < at THEN s[i] ELSE s[i + 1]
  <2>1. CASE i < at
    BY <1>n, <1>3, <1>4, <1>5, <1>l, <2>1
  <2>2. CASE i >= at
    <3>1. i - (at - 1) \in 1..(Len(s) - at) /\ at + (i - (at - 1)) = i + 1
      BY <1>n, <1>l, <2>2
    <3>2. t[i] = v[i - (at - 1)]
      BY <1>n, <1>3, <1>4, <1>5, <1>l, <2>2
    <3> QED
      BY <1>4, <2>2, <3>1, <3>2
  <2> QED
    BY <1>n, <1>l, <2>1, <2>2
<1>7. Once(t)
  BY <1>n, <1>l, <1>6 DEF Once
<1>8. ASSUME NEW x PROVE x \in ToSet(t) <=> x \in ToSet(s) \ {j}
  <2>1. ASSUME NEW i \in 1..Len(s), i # at, s[i] = x PROVE \E k \in 1..Len(t) : t[k] = x
    <3>1. CASE i < at
      BY <1>n, <1>l, <1>6, <2>1, <3>1
    <3>2. CASE i > at
      <4>1. i - 1 \in 1..Len(t) /\ ~(i - 1 < at) /\ (i - 1) + 1 = i
        BY <1>n, <1>l, <3>2
      <4> QED
        BY <1>6, <2>1, <4>1
    <3> QED
      BY <1>n, <2>1, <3>1, <3>2
  <2>2. ASSUME NEW k \in 1..Len(t), t[k] = x PROVE \E i \in 1..Len(s) : i # at /\ s[i] = x
    <3>1. CASE k < at
      BY <1>n, <1>l, <1>6, <2>2, <3>1
    <3>2. CASE ~(k < at)
      <4>1. k + 1 \in 1..Len(s) /\ k + 1 # at /\ s[k + 1] = x
        BY <1>n, <1>l, <1>6, <2>2, <3>2
      <4> QED
        BY <4>1
    <3> QED
      BY <3>1, <3>2
  <2>3. \A i \in 1..Len(s) : i # at <=> s[i] # j
    BY <1>1 DEF Once
  <2> QED
    <3>1. x \in ToSet(t) <=> \E k \in 1..Len(t) : t[k] = x
      BY <1>5, InList
    <3>2. x \in ToSet(s) <=> \E i \in 1..Len(s) : s[i] = x
      BY InList
    <3> QED
      BY <1>1, <2>1, <2>2, <2>3, <3>1, <3>2
<1> QED
  BY <1>2, <1>5, <1>7, <1>8

\* The job an id names is one of the recorded ones.
LEMMA JobAtIsRecorded ==
  ASSUME recorded \in Seq(Jobs), NEW k, Known(k)
  PROVE  JobAt(k) \in ToSet(recorded)
<1> DEFINE I == {i \in 1..Len(recorded) : id[recorded[i]] = k}
<1>1. I # {} /\ Answering(k) = Min(I)
  BY DEF Known, Answering, SelectInSeq
<1>2. I \subseteq Nat
  OBVIOUS
<1> DEFINE Less == {p \in Nat \X Nat : p[1] < p[2]}
<1>w. IsWellFoundedOn(Less, Nat)
  BY NatLessThanWellFounded, Zenon DEF OpToRel
<1>3. PICK m \in I : \A y \in I : ~(<<y, m>> \in Less)
  <2> HIDE DEF I, Less
  <2> QED
    BY <1>1, <1>2, <1>w, WFMin
<1>4. ASSUME NEW y \in I PROVE m =< y
  <2>1. y \in Nat /\ m \in Nat
    BY <1>2
  <2>2. y < m => <<y, m>> \in Less
    <3> HIDE DEF I
    <3> QED
      BY <2>1
  <2>3. ~(y < m)
    BY <1>3, <2>2
  <2> QED
    BY <2>1, <2>3
<1>5. Min(I) \in I
  BY <1>4 DEF Min
<1> QED
  BY <1>1, <1>5, InList DEF JobAt

-----------------------------------------------------------------------------
(* The line of pending jobs.                                               *)

LEMMA DriverInitInv == DriverInit => DriverInv
<1> SUFFICES ASSUME DriverInit PROVE DriverInv
  OBVIOUS
<1>1. recorded = <<>> /\ pending = <<>> /\ state = [j \in Jobs |-> "none"]
  BY DEF DriverInit
<1>2. \A x : x \notin ToSet(recorded) /\ x \notin ToSet(pending)
  BY <1>1 DEF ToSet
<1>3. Once(recorded) /\ Once(pending)
  BY <1>1 DEF Once
<1> QED
  BY <1>1, <1>2, <1>3 DEF DriverInv

LEMMA DriverNextInv == DriverInv /\ [DriverNext]_allVars => DriverInv'
<1> SUFFICES ASSUME DriverInv, [DriverNext]_allVars PROVE DriverInv'
  OBVIOUS
<1>t. /\ recorded \in Seq(Jobs) /\ pending \in Seq(Jobs) /\ Once(recorded) /\ Once(pending)
      /\ state \in [Jobs -> {"none", "waiting", "active", "completed", "failed", "removed"}]
  BY DEF DriverInv
<1>s. /\ ToSet(recorded) = {j \in Jobs : state[j] \notin {"none", "removed"}}
      /\ ToSet(pending) = {j \in Jobs : state[j] = "waiting"}
  BY DEF DriverInv
<1>1. ASSUME NEW j \in Jobs, NEW given, Enqueue(j, given) PROVE DriverInv'
  <2>1. /\ state[j] = "none" /\ state' = [state EXCEPT ![j] = "waiting"]
        /\ recorded' = Append(recorded, j) /\ pending' = Append(pending, j)
    BY <1>1 DEF Enqueue
  <2>2. j \notin ToSet(recorded) /\ j \notin ToSet(pending)
    BY <1>s, <2>1
  <2>3. recorded' \in Seq(Jobs) /\ Once(recorded') /\ ToSet(recorded') = ToSet(recorded) \cup {j}
    BY <1>t, <2>1, <2>2, AppendsOnce
  <2>4. pending' \in Seq(Jobs) /\ Once(pending') /\ ToSet(pending') = ToSet(pending) \cup {j}
    BY <1>t, <2>1, <2>2, AppendsOnce
  <2> QED
    BY <1>t, <1>s, <2>1, <2>3, <2>4 DEF DriverInv
<1>2. CASE RunNext
  <2> DEFINE j == Head(pending)
  <2>1. /\ pending # <<>> /\ pending' = Tail(pending) /\ recorded' = recorded
        /\ state' = [state EXCEPT ![j] = "active"]
    BY <1>2 DEF RunNext
  <2>2. /\ j \in ToSet(pending) /\ pending' \in Seq(Jobs) /\ Once(pending')
        /\ ToSet(pending') = ToSet(pending) \ {j}
    BY <1>t, <2>1, TailOnce
  <2> HIDE DEF j
  <2> QED
    BY <1>t, <1>s, <2>1, <2>2 DEF DriverInv
<1>3. ASSUME NEW j \in Jobs, NEW how \in {"completed", "failed"}, RunEnds(j, how) PROVE DriverInv'
  <2>1. state[j] = "active" /\ state' = [state EXCEPT ![j] = how] /\ UNCHANGED lines
    BY <1>3 DEF RunEnds
  <2> QED
    BY <1>t, <1>s, <2>1 DEF DriverInv, lines
<1>4. ASSUME NEW j \in Jobs, RunHeld(j) PROVE DriverInv'
  <2>1. /\ state[j] = "active" /\ state' = [state EXCEPT ![j] = "waiting"]
        /\ pending' = <<j>> \o pending /\ recorded' = recorded
    BY <1>4 DEF RunHeld
  <2>2. j \notin ToSet(pending)
    BY <1>s, <2>1
  <2>3. pending' \in Seq(Jobs) /\ Once(pending') /\ ToSet(pending') = ToSet(pending) \cup {j}
    BY <1>t, <2>1, <2>2, PrependsOnce
  <2> QED
    BY <1>t, <1>s, <2>1, <2>3 DEF DriverInv
<1>5. ASSUME NEW k, Retry(k) PROVE DriverInv'
  <2> DEFINE j == JobAt(k)
  <2>1. /\ j \in ToSet(recorded) /\ state[j] = "failed" /\ recorded' = recorded
        /\ state' = [state EXCEPT ![j] = "waiting"] /\ pending' = Append(pending, j)
    BY <1>t, <1>5, JobAtIsRecorded DEF Retry
  <2> HIDE DEF j
  <2>2. j \in Jobs /\ j \notin ToSet(pending)
    BY <1>s, <2>1
  <2>3. pending' \in Seq(Jobs) /\ Once(pending') /\ ToSet(pending') = ToSet(pending) \cup {j}
    BY <1>t, <2>1, <2>2, AppendsOnce
  <2> QED
    BY <1>t, <1>s, <2>1, <2>2, <2>3 DEF DriverInv
<1>6. ASSUME NEW k, CancelRemoves(k) PROVE DriverInv'
  <2> DEFINE j == JobAt(k)
  <2>1. /\ j \in ToSet(recorded) /\ state[j] = "waiting"
        /\ state' = [state EXCEPT ![j] = "removed"]
        /\ pending' = Spliced(pending, j) /\ recorded' = Spliced(recorded, j)
    BY <1>t, <1>6, JobAtIsRecorded DEF CancelRemoves
  <2> HIDE DEF j
  <2>2. j \in Jobs /\ j \in ToSet(pending)
    BY <1>s, <2>1
  <2>3. recorded' \in Seq(Jobs) /\ Once(recorded') /\ ToSet(recorded') = ToSet(recorded) \ {j}
    BY <1>t, <2>1, SplicesOnce
  <2>4. pending' \in Seq(Jobs) /\ Once(pending') /\ ToSet(pending') = ToSet(pending) \ {j}
    BY <1>t, <2>1, <2>2, SplicesOnce
  <2> QED
    BY <1>t, <1>s, <2>1, <2>2, <2>3, <2>4 DEF DriverInv
<1>7. ASSUME UNCHANGED <<lines, state>> PROVE DriverInv'
  BY <1>t, <1>s, <1>7 DEF DriverInv, lines
<1>8. ASSUME KeySteps \/ UNCHANGED allVars \/ \E on : Pause(on) \/ Consume(on)
      PROVE  UNCHANGED <<lines, state>>
  BY <1>8 DEF KeySteps, Pause, Consume, driverVars, allVars, fields
<1>9. ASSUME NEW j, TakeCancelled(j) PROVE UNCHANGED <<lines, state>>
  BY <1>9 DEF TakeCancelled, fields
<1>10. ASSUME NEW k, CancelMarks(k) PROVE UNCHANGED <<lines, state>>
  BY <1>10 DEF CancelMarks, fields
<1> QED
  BY <1>1, <1>2, <1>3, <1>4, <1>5, <1>6, <1>7, <1>8, <1>9, <1>10 DEF DriverNext

\* However runs, retries, cancellations and held keys interleave, the driver's line
\* holds exactly the jobs that wait, each once.
THEOREM PendingIsWaitingHolds == DriverSpec => []PendingIsWaiting
<1>1. DriverInv => PendingIsWaiting
  <2> SUFFICES ASSUME DriverInv PROVE PendingIsWaiting
    OBVIOUS
  <2>1. pending \in Seq(Jobs) /\ Len(pending) \in Nat /\ Once(pending)
    BY DEF DriverInv
  <2>2. pending \in Surjection(1..Len(pending), ToSet(pending))
    BY <2>1, InList DEF Surjection
  <2>3. pending \in Injection(1..Len(pending), ToSet(pending))
    BY <2>1, <2>2 DEF Surjection, Injection, IsInjective, Once
  <2>4. IsFiniteSet(1..Len(pending)) /\ Cardinality(1..Len(pending)) = Len(pending)
    BY <2>1, FS_Interval
  <2>5. Cardinality(ToSet(pending)) = Len(pending)
    BY <2>2, <2>3, <2>4, FS_Surjection
  <2>6. ToSet(pending) = {j \in ToSet(recorded) : state[j] = "waiting"}
    BY DEF DriverInv
  <2> QED
    BY <2>5, <2>6 DEF PendingIsWaiting
<1> QED
  BY <1>1, DriverInitInv, DriverNextInv, PTL DEF DriverSpec
=============================================================================

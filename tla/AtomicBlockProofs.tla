------------------------- MODULE AtomicBlockProofs -------------------------
(***************************************************************************)
(* The properties of AtomicBlock, proved for any number of blocks, nested  *)
(* in any way, and any calls made in them.  Every call that was held is in *)
(* the list of exactly one scope, that scope's flush walks the list from   *)
(* its start, and a scope never opens a second time.                       *)
(***************************************************************************)
EXTENDS AtomicBlock, TLAPS

USE NoBlockAssumption, AroundAssumption, WritingAssumption, MadeInAssumption

-----------------------------------------------------------------------------
(* Lists of calls.                                                         *)

LEMMA InList ==
  ASSUME NEW s \in Seq(Calls), NEW c
  PROVE  c \in ToSet(s) <=> \E i \in 1..Len(s) : s[i] = c
  BY DEF ToSet

LEMMA ListGrows ==
  ASSUME NEW s \in Seq(Calls), NEW c \in Calls
  PROVE  /\ Append(s, c) \in Seq(Calls) /\ Len(Append(s, c)) = Len(s) + 1
         /\ \A i \in 1..Len(s) : Append(s, c)[i] = s[i]
         /\ Append(s, c)[Len(s) + 1] = c
  OBVIOUS

\* What a call that is held does: it joins the list of an open scope.
LEMMA CallIsHeld ==
  ASSUME TypeOK, NEW c \in Calls, CallReaches(c)
  PROVE  /\ call[c] = "validating" /\ UNCHANGED <<block, scope, flushed, queued, tx>>
         /\ \/ call' = [call EXCEPT ![c] = "refused"] /\ UNCHANGED held
            \/ \E s \in Blocks :
                 /\ s = scope[MadeIn[c]] /\ block[s] = "open" /\ ~NoRowHolds(s, c)
                 /\ call' = [call EXCEPT ![c] = "held"]
                 /\ held' = [held EXCEPT ![s] = Append(held[s], c)]
<1>1. MadeIn[c] # NoBlock
  OBVIOUS
<1> QED
  BY <1>1 DEF CallReaches, ScopeIn, ScopeOpen

-----------------------------------------------------------------------------
LEMMA InitIndInv == Init => IndInv
<1> SUFFICES ASSUME Init PROVE IndInv
  OBVIOUS
<1> USE DEF Init
<1>1. TypeOK
  BY DEF TypeOK, Closed
<1>2. ScopesHaveOwners /\ HeldOnce /\ SavedFollowsBlock
  BY DEF ScopesHaveOwners, HeldOnce, SavedFollowsBlock
<1>3. FlushFollowsBlock
  <2>1. \A b \in Blocks : Len(held[b]) = 0 /\ InRedisTo(b, 0)
    BY DEF InRedisTo
  <2> QED
    BY <2>1 DEF FlushFollowsBlock
<1> QED
  BY <1>1, <1>2, <1>3 DEF IndInv

LEMMA TypeNext ==
  ASSUME IndInv, [Next]_vars
  PROVE  TypeOK'
<1> USE DEF IndInv, TypeOK, Closed
<1>1. ASSUME NEW c \in Calls, CallStarts(c) \/ CallInvalid(c) PROVE TypeOK'
  BY <1>1 DEF CallStarts, CallInvalid
<1>2. ASSUME NEW c \in Calls, CallReaches(c) PROVE TypeOK'
  <2>1. CASE call' = [call EXCEPT ![c] = "refused"] /\ UNCHANGED held
    <3>1. UNCHANGED <<block, scope, flushed, queued, tx>>
      BY <1>2, CallIsHeld
    <3> QED
      BY <2>1, <3>1
  <2>2. ASSUME NEW s \in Blocks, call' = [call EXCEPT ![c] = "held"],
               held' = [held EXCEPT ![s] = Append(held[s], c)]
        PROVE  TypeOK'
    <3>1. UNCHANGED <<block, scope, flushed, queued, tx>>
      BY <1>2, CallIsHeld
    <3>2. Append(held[s], c) \in Seq(Calls)
      BY ListGrows
    <3> QED
      BY <2>2, <3>1, <3>2
  <2> QED
    BY <1>2, <2>1, <2>2, CallIsHeld
<1>3. ASSUME NEW b \in Blocks, BlockOpens(b) PROVE TypeOK'
  <2>1. Opens(b) \in Blocks
    BY DEF Opens, ScopeIn, ScopeOpen
  <2>2. CASE b \in Writing /\ ScopeOpen(ScopeIn(Around[b]))
    BY <1>3, <2>2 DEF BlockOpens
  <2>3. CASE ~(b \in Writing /\ ScopeOpen(ScopeIn(Around[b])))
    <3>1. /\ block' = [block EXCEPT ![b] = "open"] /\ scope' = [scope EXCEPT ![b] = Opens(b)]
          /\ UNCHANGED <<held, flushed, call, queued, tx>>
      BY <1>3, <2>3 DEF BlockOpens
    <3>2. \A x \in Blocks : block'[x] \in {"open"} \cup Closed => scope'[x] # NoBlock
      BY <2>1, <3>1
    <3> QED
      BY <2>1, <3>1, <3>2
  <2> QED
    BY <2>2, <2>3
<1>4. ASSUME NEW b \in Blocks, FunctionThrows(b) \/ FunctionResolves(b) PROVE TypeOK'
  BY <1>4 DEF FunctionThrows, FunctionResolves, Ends
<1>5. ASSUME NEW b \in Blocks, FlushDelivers(b) \/ \E applied : FlushFails(b, applied)
      PROVE  TypeOK'
  <2>1. held[b][flushed[b] + 1] \in Calls
    BY <1>5 DEF FlushDelivers, FlushFails
  <2>2. CASE FlushDelivers(b)
    BY <2>1, <2>2 DEF FlushDelivers
  <2>3. CASE \E applied : FlushFails(b, applied)
    BY <2>1, <2>3 DEF FlushFails, Flushing, Ends
  <2> QED
    BY <1>5, <2>2, <2>3
<1>6. ASSUME NEW b \in Blocks, FlushEnds(b) \/ Save(b) \/ SaveFails(b) PROVE TypeOK'
  BY <1>6 DEF FlushEnds, Flushing, Save, SaveFails, Ends
<1>7. ASSUME NEW b \in Blocks, NEW how, TransactionEnds(b, how) PROVE TypeOK'
  BY <1>7 DEF TransactionEnds
<1>8. CASE Dies
  BY <1>8 DEF Dies
<1>9. CASE UNCHANGED vars
  BY <1>9 DEF vars
<1> QED
  BY <1>1, <1>2, <1>3, <1>4, <1>5, <1>6, <1>7, <1>8, <1>9 DEF Next, CallStep, BlockStep

-----------------------------------------------------------------------------
\* No scope opens twice: the one a block uses has been opened before.
LEMMA ScopesNext ==
  ASSUME IndInv, [Next]_vars
  PROVE  ScopesHaveOwners'
<1> USE DEF IndInv, TypeOK, Closed, ScopesHaveOwners, Owns, ScopeOpen
<1>1. ASSUME NEW b \in Blocks, BlockOpens(b) PROVE ScopesHaveOwners'
  <2>1. CASE b \in Writing /\ ScopeOpen(ScopeIn(Around[b]))
    BY <1>1, <2>1 DEF BlockOpens
  <2>2. CASE ~(b \in Writing /\ ScopeOpen(ScopeIn(Around[b])))
    <3>1. /\ block' = [block EXCEPT ![b] = "open"] /\ scope' = [scope EXCEPT ![b] = Opens(b)]
          /\ scope[b] = NoBlock /\ block[b] = "idle"
      BY <1>1, <2>2 DEF BlockOpens
    <3>2. Opens(b) \in Blocks /\ (b \in Writing => Opens(b) = b)
          /\ (Opens(b) # b => Owns(Opens(b)) /\ block[Opens(b)] = "open")
      BY <2>2, <3>1 DEF Opens, ScopeIn
    <3>3. Around[b] # NoBlock =>
            /\ Around[b] # b /\ scope[Around[b]] # NoBlock /\ scope[Around[b]] # b
            /\ Opens(b) = scope[Around[b]] \/ ~ScopeOpen(scope[Around[b]])
      BY <1>1, <3>1 DEF BlockOpens, ContextLives, Opens, ScopeIn
    <3> HIDE DEF Owns, ScopeOpen
    <3>4. ASSUME NEW x \in Blocks, x # b, scope[x] # NoBlock
          PROVE  scope[x] # b /\ scope'[x] = scope[x] /\ scope'[scope[x]] = scope[x]
                 /\ block'[scope[x]] = block[scope[x]]
      BY <3>1, <3>4 DEF Owns
    <3> USE DEF Owns, ScopeOpen
    <3> QED
      BY <3>1, <3>2, <3>3, <3>4
  <2> QED
    BY <2>1, <2>2
<1>2. ASSUME NEW b \in Blocks,
             \/ FunctionThrows(b) \/ FunctionResolves(b) \/ FlushEnds(b)
             \/ (\E applied : FlushFails(b, applied)) \/ Save(b) \/ SaveFails(b)
      PROVE  ScopesHaveOwners'
  <2>1. /\ \E how \in Closed : Ends(b, how)
        /\ block[b] \in {"open"} \cup Closed /\ UNCHANGED scope
    BY <1>2 DEF FunctionThrows, FunctionResolves, FlushEnds, FlushFails, Flushing, Save, SaveFails
  <2> QED
    BY <2>1 DEF Ends
<1>3. CASE Dies
  BY <1>3 DEF Dies
<1>4. ASSUME UNCHANGED <<block, scope>> PROVE ScopesHaveOwners'
  BY <1>4
<1>5. ASSUME NEW c \in Calls, CallStep(c) PROVE UNCHANGED <<block, scope>>
  BY <1>5 DEF CallStep, CallStarts, CallReaches, CallInvalid
<1>6. ASSUME NEW b \in Blocks, FlushDelivers(b) \/ \E how : TransactionEnds(b, how)
      PROVE  UNCHANGED <<block, scope>>
  BY <1>6 DEF FlushDelivers, TransactionEnds
<1>7. CASE UNCHANGED vars
  BY <1>4, <1>7 DEF vars
<1> QED
  BY <1>1, <1>2, <1>3, <1>4, <1>5, <1>6, <1>7 DEF Next, BlockStep

-----------------------------------------------------------------------------
\* A call is held once, by the scope its context sees: a context's scope is set
\* before any call in it can be held, and never changes.
LEMMA HeldNext ==
  ASSUME IndInv, [Next]_vars
  PROVE  HeldOnce'
<1>a. TypeOK /\ TypeOK' /\ HeldOnce /\ ScopesHaveOwners
  BY TypeNext DEF IndInv
<1>t. /\ held \in [Blocks -> Seq(Calls)] /\ held' \in [Blocks -> Seq(Calls)]
      /\ scope \in [Blocks -> Blocks \cup {NoBlock}]
      /\ call \in [Calls -> {"idle", "validating", "held", "refused"}]
  BY <1>a DEF TypeOK
<1>1. \A b \in Blocks : /\ Len(held[b]) \in Nat
                        /\ \A i \in 1..Len(held[b]) : held[b][i] \in Calls
  BY <1>t
<1>2. ASSUME NEW c \in Calls, NEW s \in Blocks, s = scope[MadeIn[c]], ~NoRowHolds(s, c),
             call[c] = "validating", call' = [call EXCEPT ![c] = "held"], UNCHANGED scope,
             held' = [held EXCEPT ![s] = Append(held[s], c)]
      PROVE  HeldOnce'
  <2>2. /\ Len(held'[s]) = Len(held[s]) + 1 /\ held'[s][Len(held[s]) + 1] = c
        /\ \A i \in 1..Len(held[s]) : held'[s][i] = held[s][i]
        /\ \A b \in Blocks : b # s => held'[b] = held[b]
    <3>1. held[s] \in Seq(Calls)
      BY <1>t
    <3>2. held'[s] = Append(held[s], c) /\ \A b \in Blocks : b # s => held'[b] = held[b]
      BY <1>2, <1>t
    <3> QED
      BY <3>1, <3>2, ListGrows
  <2>3. \A b \in Blocks : \A i \in 1..Len(held[b]) : held[b][i] # c /\ held[b][i] \in Calls
    BY <1>a, <1>1, <1>2 DEF HeldOnce
  <2>4. ASSUME NEW d \in Calls, call'[d] = "held"
        PROVE  \E b \in Blocks : /\ b = scope'[MadeIn[d]]
                                 /\ \E i \in 1..Len(held'[b]) : held'[b][i] = d
    <3>1. CASE d = c
      BY <1>1, <1>2, <2>2, <3>1
    <3>2. CASE d # c
      <4>1. PICK b \in Blocks : /\ b = scope[MadeIn[d]]
                                /\ \E i \in 1..Len(held[b]) : held[b][i] = d
        BY <1>a, <1>t, <1>2, <2>4, <3>2 DEF HeldOnce
      <4>2. \E i \in 1..Len(held'[b]) : held'[b][i] = d
        BY <1>1, <2>2, <4>1
      <4> QED
        BY <1>2, <4>1, <4>2
    <3> QED
      BY <3>1, <3>2
  <2>5. ASSUME NEW b \in Blocks, NEW i \in 1..Len(held'[b])
        PROVE  /\ call'[held'[b][i]] = "held" /\ scope'[MadeIn[held'[b][i]]] = b
               /\ ~NoRowHolds(b, held'[b][i])
               /\ \A j \in 1..Len(held'[b]) : held'[b][i] = held'[b][j] => i = j
    <3>1. CASE b # s
      BY <1>a, <1>t, <1>2, <2>2, <2>3, <3>1 DEF HeldOnce
    <3>2. CASE b = s /\ i = Len(held[s]) + 1
      <4>1. held'[b][i] = c /\ call'[c] = "held" /\ scope'[MadeIn[c]] = b /\ ~NoRowHolds(b, c)
        BY <1>t, <1>2, <2>2, <3>2
      <4>2. \A j \in 1..Len(held'[b]) : j # i => held'[b][j] # c
        <5> SUFFICES ASSUME NEW j \in 1..Len(held'[s]), j # Len(held[s]) + 1
                     PROVE  held'[s][j] # c
          BY <3>2
        <5>1. j \in 1..Len(held[s])
          BY <1>1, <2>2
        <5> QED
          BY <2>2, <2>3, <5>1
      <4> QED
        BY <4>1, <4>2
    <3>3. CASE b = s /\ i \in 1..Len(held[s])
      <4>1. held'[b][i] = held[b][i] /\ held[b][i] # c /\ held[b][i] \in Calls
        BY <2>2, <2>3, <3>3
      <4>2. call'[held[b][i]] = "held" /\ scope'[MadeIn[held[b][i]]] = b
            /\ ~NoRowHolds(b, held[b][i])
        BY <1>a, <1>t, <1>2, <3>3, <4>1 DEF HeldOnce
      <4>3. \A j \in 1..Len(held'[b]) : held'[b][j] = held[b][i] => i = j
        <5> SUFFICES ASSUME NEW j \in 1..Len(held'[s]), held'[s][j] = held[s][i]
                     PROVE  i = j
          BY <3>3
        <5>1. j \in 1..Len(held[s])
          BY <1>1, <2>2, <3>3, <4>1
        <5>2. held[s][i] = held[s][j]
          BY <2>2, <5>1
        <5> QED
          BY <1>a, <3>3, <5>1, <5>2 DEF HeldOnce
      <4> QED
        BY <4>1, <4>2, <4>3
    <3> QED
      BY <1>1, <2>2, <2>5, <3>1, <3>2, <3>3
  <2> QED
    BY <2>4, <2>5 DEF HeldOnce, NoRowHolds
<1>3. ASSUME NEW c \in Calls, call[c] # "held", NEW st \in {"validating", "refused"},
             call' = [call EXCEPT ![c] = st], UNCHANGED <<scope, held>>
      PROVE  HeldOnce'
  BY <1>a, <1>t, <1>1, <1>3 DEF HeldOnce, NoRowHolds
<1>4. ASSUME NEW b \in Blocks, BlockOpens(b) PROVE HeldOnce'
  <2>1. scope[b] = NoBlock
    BY <1>a, <1>4 DEF BlockOpens, ScopesHaveOwners
  <2>2. UNCHANGED <<held, call>> /\ \A x \in Blocks : x # b => scope'[x] = scope[x]
    BY <1>t, <1>4 DEF BlockOpens
  <2>3. \A c \in Calls : call[c] = "held" => scope'[MadeIn[c]] = scope[MadeIn[c]]
    BY <1>a, <2>1, <2>2 DEF HeldOnce
  <2>4. \A x \in Blocks : \A i \in 1..Len(held[x]) :
          scope'[MadeIn[held[x][i]]] = scope[MadeIn[held[x][i]]]
    BY <1>a, <1>1, <2>3 DEF HeldOnce
  <2> QED
    BY <1>a, <2>2, <2>3, <2>4 DEF HeldOnce, NoRowHolds
<1>5. ASSUME UNCHANGED <<scope, held, call>> PROVE HeldOnce'
  BY <1>a, <1>5 DEF HeldOnce, NoRowHolds
<1>6. ASSUME NEW c \in Calls, CallStep(c) PROVE HeldOnce'
  <2>1. CASE CallStarts(c) \/ CallInvalid(c)
    BY <1>3, <2>1 DEF CallStarts, CallInvalid
  <2>2. CASE CallReaches(c)
    BY <1>a, <1>2, <1>3, <2>2, CallIsHeld
  <2> QED
    BY <1>6, <2>1, <2>2 DEF CallStep
<1>7. ASSUME NEW b \in Blocks, BlockStep(b), ~BlockOpens(b)
      PROVE  UNCHANGED <<scope, held, call>>
  BY <1>7 DEF BlockStep, FunctionThrows, FunctionResolves, FlushDelivers, FlushEnds, FlushFails,
              Save, SaveFails, TransactionEnds
<1>8. CASE Dies \/ UNCHANGED vars
  BY <1>5, <1>8 DEF Dies, vars
<1> QED
  BY <1>4, <1>5, <1>6, <1>7, <1>8 DEF Next

-----------------------------------------------------------------------------
\* A step that flushes nothing of a block leaves what Redis has of it, and a block
\* that failed stays failed until the process dies.
LEMMA RedisKept ==
  ASSUME IndInv, NEW b \in Blocks, held'[b] = held[b], flushed'[b] = flushed[b],
         \A i \in 1..Len(held[b]) : held[b][i] \in queued' <=> held[b][i] \in queued,
         block[b] \in {"failed", "dead"} => block'[b] \in {"failed", "dead"}
  PROVE  \E n \in 0..Len(held'[b]) : InRedisTo(b, n)'
<1>1. PICK n \in 0..Len(held[b]) : InRedisTo(b, n)
  BY DEF IndInv, FlushFollowsBlock
<1> QED
  BY <1>1 DEF InRedisTo

LEMMA FlushNext ==
  ASSUME IndInv, [Next]_vars
  PROVE  FlushFollowsBlock'
<1>a. TypeOK /\ TypeOK' /\ HeldOnce /\ ScopesHaveOwners /\ FlushFollowsBlock
  BY TypeNext DEF IndInv
<1>t. /\ held \in [Blocks -> Seq(Calls)] /\ flushed \in [Blocks -> Nat]
      /\ block \in [Blocks -> {"idle", "open", "barred", "dead"} \cup Closed]
      /\ call \in [Calls -> {"idle", "validating", "held", "refused"}]
      /\ queued \subseteq Calls /\ scope \in [Blocks -> Blocks \cup {NoBlock}]
  BY <1>a DEF TypeOK
<1>l. \A b \in Blocks : /\ Len(held[b]) \in Nat
                        /\ \A i \in 1..Len(held[b]) : held[b][i] \in Calls
  BY <1>t
<1> DEFINE ToRedis(b) == \E n \in 0..Len(held'[b]) : InRedisTo(b, n)'
           Counted(b) ==
             /\ b \in Writing \/ block'[b] \in {"idle", "barred", "open", "threw"}
                  => flushed'[b] = 0
             /\ block'[b] = "resolved" /\ Owns(b)' /\ b \notin Writing
                  => flushed'[b] = Len(held'[b])
           QueuedAreHeld == \A c \in queued' : call'[c] = "held"
<1> SUFFICES QueuedAreHeld /\ \A b \in Blocks : Counted(b) /\ ToRedis(b)
  BY DEF FlushFollowsBlock
<1>1. ASSUME NEW c \in Calls, call[c] # "held", NEW st, call' = [call EXCEPT ![c] = st],
             UNCHANGED <<block, scope, held, flushed, queued>>
      PROVE  QueuedAreHeld /\ \A b \in Blocks : Counted(b) /\ ToRedis(b)
  <2>1. QueuedAreHeld
    BY <1>a, <1>t, <1>1 DEF FlushFollowsBlock
  <2>2. \A b \in Blocks : Counted(b)
    BY <1>a, <1>1 DEF FlushFollowsBlock, Owns
  <2>3. \A b \in Blocks : ToRedis(b)
    BY <1>1, RedisKept
  <2> QED
    BY <2>1, <2>2, <2>3
<1>2. ASSUME NEW c \in Calls, NEW s \in Blocks, block[s] = "open", call[c] = "validating",
             call' = [call EXCEPT ![c] = "held"], UNCHANGED <<block, scope, flushed, queued, tx>>,
             held' = [held EXCEPT ![s] = Append(held[s], c)]
      PROVE  QueuedAreHeld /\ \A b \in Blocks : Counted(b) /\ ToRedis(b)
  <2>1. QueuedAreHeld /\ c \notin queued
    BY <1>a, <1>t, <1>2 DEF FlushFollowsBlock
  <2>2. ASSUME NEW b \in Blocks, b # s PROVE Counted(b) /\ ToRedis(b)
    <3>1. held'[b] = held[b]
      BY <1>t, <1>2, <2>2
    <3>2. Counted(b)
      BY <1>a, <1>2, <3>1 DEF FlushFollowsBlock, Owns
    <3>3. ToRedis(b)
      BY <1>2, <3>1, RedisKept
    <3> QED
      BY <3>2, <3>3
  <2>3. Counted(s)
    BY <1>a, <1>2 DEF FlushFollowsBlock
  <2>4. ToRedis(s)
    <3>1. held'[s] = Append(held[s], c) /\ flushed[s] = 0
      BY <1>a, <1>t, <1>2 DEF FlushFollowsBlock
    <3>2. /\ Len(held'[s]) = Len(held[s]) + 1 /\ held'[s][Len(held[s]) + 1] = c
          /\ \A i \in 1..Len(held[s]) : held'[s][i] = held[s][i]
      BY <1>t, <3>1, ListGrows
    <3>3. \A i \in 1..Len(held[s]) : held[s][i] \notin queued
      BY <1>a, <1>l, <1>2, <3>1 DEF FlushFollowsBlock, InRedisTo
    <3>4. ASSUME NEW i \in 1..Len(held'[s]) PROVE held'[s][i] \notin queued
      <4>1. CASE i \in 1..Len(held[s])
        BY <3>2, <3>3, <4>1
      <4>2. CASE i = Len(held[s]) + 1
        BY <2>1, <3>2, <4>2
      <4> QED
        BY <1>l, <3>2, <4>1, <4>2
    <3>5. InRedisTo(s, 0)'
      BY <1>2, <3>1, <3>4 DEF InRedisTo
    <3> QED
      BY <1>l, <3>2, <3>5
  <2> QED
    BY <2>1, <2>2, <2>3, <2>4
<1>3. ASSUME NEW b \in Blocks, FlushDelivers(b) \/ \E applied : FlushFails(b, applied)
      PROVE  QueuedAreHeld /\ \A x \in Blocks : Counted(x) /\ ToRedis(x)
  <2>f. PICK f \in Nat : f = flushed[b] + 1
    BY <1>t
  <2>1. /\ block[b] = "settling" /\ b \notin Writing /\ f \in 1..Len(held[b])
        /\ UNCHANGED <<scope, held, call>>
    BY <1>t, <1>l, <1>3, <2>f DEF FlushDelivers, FlushFails, Flushing
  <2>2. queued' \in {queued, queued \cup {held[b][f]}}
    BY <1>3, <2>f DEF FlushDelivers, FlushFails
  <2>3. held[b][f] \in Calls /\ call[held[b][f]] = "held" /\ scope[MadeIn[held[b][f]]] = b
    BY <1>a, <1>l, <2>1 DEF HeldOnce
  <2>4. QueuedAreHeld
    BY <1>a, <2>1, <2>2, <2>3 DEF FlushFollowsBlock
  <2>5. \A x \in Blocks : x # b => flushed'[x] = flushed[x] /\ block'[x] = block[x]
    BY <1>t, <1>3 DEF FlushDelivers, FlushFails, Ends
  <2>6. ASSUME NEW x \in Blocks, x # b PROVE Counted(x) /\ ToRedis(x)
    <3>1. Counted(x)
      BY <1>a, <2>1, <2>5, <2>6 DEF FlushFollowsBlock, Owns
    <3>2. \A i \in 1..Len(held[x]) : held[x][i] # held[b][f]
      BY <1>a, <2>3, <2>6 DEF HeldOnce
    <3>3. \A i \in 1..Len(held[x]) : held[x][i] \in queued' <=> held[x][i] \in queued
      BY <2>2, <3>2
    <3>4. ToRedis(x)
      BY <2>1, <2>5, <2>6, <3>3, RedisKept
    <3> QED
      BY <3>1, <3>4
  <2>7. \A i \in 1..Len(held[b]) : held[b][i] \in queued <=> i <= flushed[b]
    BY <1>a, <2>1 DEF FlushFollowsBlock, InRedisTo
  <2>8. \A i \in 1..Len(held[b]) : held[b][i] = held[b][f] <=> i = f
    BY <1>a, <2>1 DEF HeldOnce
  <2>9. CASE FlushDelivers(b)
    <3>1. /\ flushed'[b] = f /\ block'[b] = "settling" /\ queued' = queued \cup {held[b][f]}
      BY <1>t, <2>f, <2>1, <2>9 DEF FlushDelivers
    <3>2. \A i \in 1..Len(held[b]) : held[b][i] \in queued' <=> i <= f
      BY <1>t, <2>f, <2>7, <2>8, <3>1
    <3>3. InRedisTo(b, f)'
      BY <2>1, <3>1, <3>2 DEF InRedisTo
    <3> QED
      BY <1>l, <2>1, <2>4, <2>6, <3>1, <3>3
  <2>10. CASE \E applied : FlushFails(b, applied)
    <3>1. flushed'[b] = flushed[b] /\ block'[b] = "failed"
      BY <1>t, <2>10 DEF FlushFails, Ends
    <3>2. CASE queued' = queued
      <4>1. InRedisTo(b, flushed[b])'
        BY <2>1, <2>7, <3>1, <3>2 DEF InRedisTo
      <4> QED
        <5>1. ToRedis(b)
          BY <1>t, <1>l, <2>f, <2>1, <3>1, <4>1
        <5> QED
          BY <2>1, <2>4, <2>6, <3>1, <5>1
    <3>3. CASE queued' = queued \cup {held[b][f]}
      <4>1. \A i \in 1..Len(held[b]) : held[b][i] \in queued' <=> i <= f
        BY <1>t, <2>f, <2>7, <2>8, <3>3
      <4>2. InRedisTo(b, f)'
        BY <2>f, <2>1, <3>1, <4>1 DEF InRedisTo
      <4> QED
        BY <1>l, <2>1, <2>4, <2>6, <3>1, <4>2
    <3> QED
      BY <2>2, <3>2, <3>3
  <2> QED
    BY <1>3, <2>9, <2>10
<1>4. ASSUME UNCHANGED <<held, flushed, call, queued>>,
             \A x \in Blocks : Counted(x),
             \A x \in Blocks : block[x] \in {"failed", "dead"} => block'[x] \in {"failed", "dead"}
      PROVE  QueuedAreHeld /\ \A x \in Blocks : Counted(x) /\ ToRedis(x)
  <2>1. QueuedAreHeld
    BY <1>a, <1>4 DEF FlushFollowsBlock
  <2>2. \A x \in Blocks : ToRedis(x)
    BY <1>4, RedisKept
  <2> QED
    BY <1>4, <2>1, <2>2
<1>5. ASSUME NEW b \in Blocks, BlockOpens(b)
      PROVE  QueuedAreHeld /\ \A x \in Blocks : Counted(x) /\ ToRedis(x)
  <2>1. /\ block[b] = "idle" /\ block'[b] \in {"open", "barred"}
        /\ UNCHANGED <<held, flushed, call, queued>>
        /\ \A x \in Blocks : x # b => block'[x] = block[x] /\ scope'[x] = scope[x]
    BY <1>t, <1>5 DEF BlockOpens
  <2>2. \A x \in Blocks : Counted(x)
    BY <1>a, <2>1 DEF FlushFollowsBlock, Owns
  <2> QED
    BY <1>4, <2>1, <2>2
<1>6. ASSUME NEW b \in Blocks,
             FunctionThrows(b) \/ FunctionResolves(b) \/ FlushEnds(b) \/ Save(b) \/ SaveFails(b)
      PROVE  QueuedAreHeld /\ \A x \in Blocks : Counted(x) /\ ToRedis(x)
  <2>1. /\ block[b] \in {"open", "settling"} /\ UNCHANGED <<scope, held, flushed, call, queued>>
        /\ \A x \in Blocks : x # b => block'[x] = block[x]
    BY <1>t, <1>6 DEF FunctionThrows, FunctionResolves, FlushEnds, Flushing, Save, SaveFails, Ends
  <2>2. Counted(b)
    <3>1. CASE FunctionThrows(b) \/ FunctionResolves(b)
      BY <1>a, <1>t, <3>1 DEF FunctionThrows, FunctionResolves, Ends, FlushFollowsBlock, Owns
    <3>2. CASE FlushEnds(b)
      <4>1. block'[b] = "resolved" /\ b \notin Writing /\ flushed[b] = Len(held[b])
        BY <1>t, <3>2 DEF FlushEnds, Flushing, Ends
      <4> QED
        BY <2>1, <4>1
    <3>3. CASE Save(b) \/ SaveFails(b)
      <4>1. b \in Writing
        BY <3>3 DEF Save, SaveFails
      <4>2. flushed[b] = 0
        BY <1>a, <4>1 DEF FlushFollowsBlock
      <4> QED
        BY <2>1, <4>1, <4>2
    <3> QED
      BY <1>6, <3>1, <3>2, <3>3
  <2>3. \A x \in Blocks : x # b => Counted(x)
    BY <1>a, <2>1 DEF FlushFollowsBlock, Owns
  <2> QED
    BY <1>4, <2>1, <2>2, <2>3
<1>7. CASE Dies
  <2>1. UNCHANGED <<held, flushed, call, queued>> /\ \A x \in Blocks : block'[x] = "dead"
    BY <1>7 DEF Dies
  <2>2. \A x \in Blocks : Counted(x)
    BY <1>a, <2>1 DEF FlushFollowsBlock
  <2> QED
    BY <1>4, <2>1, <2>2
<1>8. ASSUME UNCHANGED <<block, scope, held, flushed, call, queued>>
      PROVE  QueuedAreHeld /\ \A x \in Blocks : Counted(x) /\ ToRedis(x)
  <2>1. \A x \in Blocks : Counted(x)
    BY <1>a, <1>8 DEF FlushFollowsBlock, Owns
  <2> QED
    BY <1>4, <1>8, <2>1
<1>9. ASSUME NEW c \in Calls, CallStep(c)
      PROVE  QueuedAreHeld /\ \A b \in Blocks : Counted(b) /\ ToRedis(b)
  <2> HIDE DEF Counted, ToRedis, QueuedAreHeld
  <2>1. CASE CallStarts(c) \/ CallInvalid(c)
    BY <1>1, <2>1 DEF CallStarts, CallInvalid
  <2>2. CASE CallReaches(c)
    BY <1>a, <1>1, <1>2, <2>2, CallIsHeld
  <2> QED
    BY <1>9, <2>1, <2>2 DEF CallStep
<1>10. ASSUME NEW b \in Blocks, NEW how, TransactionEnds(b, how)
       PROVE  UNCHANGED <<block, scope, held, flushed, call, queued>>
  BY <1>10 DEF TransactionEnds
<1>11. UNCHANGED vars => UNCHANGED <<block, scope, held, flushed, call, queued>>
  BY DEF vars
<1> HIDE DEF Counted, ToRedis, QueuedAreHeld
<1> QED
  BY <1>3, <1>5, <1>6, <1>7, <1>8, <1>9, <1>10, <1>11 DEF Next, BlockStep

-----------------------------------------------------------------------------
\* The rows of a writing block are saved as it resolves and never before.
LEMMA SavedNext ==
  ASSUME IndInv, [Next]_vars
  PROVE  SavedFollowsBlock'
<1>a. TypeOK /\ ScopesHaveOwners /\ SavedFollowsBlock
  BY DEF IndInv
<1>t. /\ held \in [Blocks -> Seq(Calls)]
      /\ block \in [Blocks -> {"idle", "open", "barred", "dead"} \cup Closed]
      /\ tx \in [Blocks -> {"open", "saved", "committed", "rolled_back"}]
      /\ \A b \in Blocks : block[b] \in {"open"} \cup Closed => scope[b] # NoBlock
  BY <1>a DEF TypeOK
<1> USE DEF SavedFollowsBlock, Closed
<1>1. ASSUME NEW c \in Calls, CallStep(c) PROVE SavedFollowsBlock'
  <2>1. CASE UNCHANGED <<block, held, tx>>
    BY <1>a, <2>1
  <2>2. ASSUME NEW s \in Blocks, block[s] = "open", UNCHANGED <<block, tx>>,
               held' = [held EXCEPT ![s] = Append(held[s], c)]
        PROVE  SavedFollowsBlock'
    <3>1. block'[s] = "open" /\ (s \in Writing => tx'[s] \notin {"saved", "committed"})
      BY <1>a, <2>2
    <3>2. \A b \in Blocks : b # s => held'[b] = held[b] /\ block'[b] = block[b] /\ tx'[b] = tx[b]
      BY <1>t, <2>2
    <3> QED
      BY <1>a, <3>1, <3>2
  <2>3. CASE CallStarts(c) \/ CallInvalid(c)
    BY <2>1, <2>3 DEF CallStarts, CallInvalid
  <2>4. CASE CallReaches(c)
    BY <1>a, <2>1, <2>2, <2>4, CallIsHeld
  <2> QED
    BY <1>1, <2>3, <2>4 DEF CallStep
<1>2. ASSUME NEW b \in Blocks,
             BlockOpens(b) \/ FunctionThrows(b) \/ (\E applied : FlushFails(b, applied))
             \/ SaveFails(b)
      PROVE  SavedFollowsBlock'
  <2>1. /\ block[b] \in {"idle", "open", "settling"} /\ block'[b] # "resolved"
        /\ UNCHANGED <<held, tx>> /\ \A x \in Blocks : x # b => block'[x] = block[x]
    BY <1>t, <1>2 DEF BlockOpens, FunctionThrows, FlushFails, Flushing, SaveFails, Ends
  <2> QED
    BY <1>a, <2>1
<1>3. ASSUME NEW b \in Blocks, FunctionResolves(b) \/ FlushEnds(b) PROVE SavedFollowsBlock'
  <2>1. /\ block[b] \in {"open", "settling"} /\ (b \in Writing => block'[b] = "settling")
        /\ UNCHANGED <<held, tx>> /\ \A x \in Blocks : x # b => block'[x] = block[x]
    BY <1>a, <1>t, <1>3 DEF FunctionResolves, FlushEnds, Flushing, Ends, ScopesHaveOwners, Owns
  <2> QED
    BY <1>a, <2>1
<1>4. ASSUME NEW b \in Blocks, Save(b) PROVE SavedFollowsBlock'
  <2>1. /\ block'[b] = "resolved" /\ tx'[b] = (IF held[b] = <<>> THEN "open" ELSE "saved")
        /\ UNCHANGED held
        /\ \A x \in Blocks : x # b => block'[x] = block[x] /\ tx'[x] = tx[x]
    BY <1>t, <1>4 DEF Save, Ends
  <2> QED
    BY <1>a, <2>1
<1>5. ASSUME NEW b \in Blocks, NEW how, TransactionEnds(b, how) PROVE SavedFollowsBlock'
  <2>1. /\ tx'[b] \in {"committed", "rolled_back"} /\ (tx'[b] = "committed" => tx[b] = "saved")
        /\ UNCHANGED <<block, held>> /\ \A x \in Blocks : x # b => tx'[x] = tx[x]
    BY <1>t, <1>5 DEF TransactionEnds
  <2> QED
    BY <1>a, <2>1
<1>6. CASE Dies
  BY <1>a, <1>6 DEF Dies
<1>7. ASSUME NEW b \in Blocks, FlushDelivers(b) PROVE SavedFollowsBlock'
  BY <1>a, <1>7 DEF FlushDelivers
<1>8. CASE UNCHANGED vars
  BY <1>a, <1>8 DEF vars
<1> QED
  BY <1>1, <1>2, <1>3, <1>4, <1>5, <1>6, <1>7, <1>8 DEF Next, BlockStep

-----------------------------------------------------------------------------
\* The inductive invariant of atomic blocks.
THEOREM IndInvHolds == Spec => []IndInv
<1>1. IndInv /\ [Next]_vars => IndInv'
  BY TypeNext, ScopesNext, HeldNext, FlushNext, SavedNext DEF IndInv
<1> QED
  BY <1>1, InitIndInv, PTL DEF Spec

\* Every variable of the blocks stays within its type.
THEOREM TypeCorrect == Spec => []TypeOK
<1>1. IndInv => TypeOK
  BY DEF IndInv
<1> QED
  BY <1>1, IndInvHolds, PTL

\* A call answered null is delivered by the block that resolved, or is in the rows
\* its transaction keeps: none is taken in by a scope that ended and dropped.
THEOREM HeldIsNotDroppedHolds == Spec => []HeldIsNotDropped
<1>1. IndInv => HeldIsNotDropped
  <2> SUFFICES ASSUME IndInv, NEW c \in Calls, call[c] = "held",
                      block[scope[MadeIn[c]]] = "resolved"
               PROVE  LET s == scope[MadeIn[c]] IN
                      IF s \in Writing THEN c \in ToSet(held[s]) /\ tx[s] # "open"
                      ELSE c \in queued
    BY DEF HeldIsNotDropped, ScopeIn
  <2>1. PICK s \in Blocks : s = scope[MadeIn[c]] /\ \E i \in 1..Len(held[s]) : held[s][i] = c
    BY DEF IndInv, HeldOnce
  <2>2. PICK i \in 1..Len(held[s]) : held[s][i] = c
    BY <2>1
  <2>t. held[s] \in Seq(Calls) /\ flushed[s] \in Nat /\ block[s] = "resolved" /\ Owns(s)
    BY <2>1 DEF IndInv, TypeOK, ScopesHaveOwners
  <2>3. CASE s \in Writing
    <3>1. c \in ToSet(held[s]) /\ held[s] # <<>>
      BY <2>t, <2>2, InList
    <3> QED
      BY <2>t, <2>1, <2>3, <3>1 DEF IndInv, SavedFollowsBlock
  <2>4. CASE s \notin Writing
    <3>1. flushed[s] = Len(held[s]) /\ \E n \in 0..Len(held[s]) : InRedisTo(s, n)
      BY <2>t, <2>4 DEF IndInv, FlushFollowsBlock
    <3>2. c \in queued
      BY <2>t, <2>2, <3>1 DEF InRedisTo
    <3> QED
      BY <2>1, <2>4, <3>2
  <2> QED
    BY <2>3, <2>4
<1> QED
  BY <1>1, IndInvHolds, PTL

\* No job made in a block, however deep, is in Redis while the block that holds it
\* may still throw, nor once it threw.
THEOREM NothingLeavesBeforeTheEndHolds == Spec => []NothingLeavesBeforeTheEnd
<1>1. IndInv => NothingLeavesBeforeTheEnd
  <2> SUFFICES ASSUME IndInv, NEW c \in queued
               PROVE  /\ block[ScopeIn(MadeIn[c])] \notin {"open", "threw"}
                      /\ ~ScopeOpen(ScopeIn(Around[MadeIn[c]]))
    BY DEF NothingLeavesBeforeTheEnd
  <2>1. c \in Calls /\ call[c] = "held"
    BY DEF IndInv, TypeOK, FlushFollowsBlock
  <2>2. PICK s \in Blocks : s = scope[MadeIn[c]] /\ \E i \in 1..Len(held[s]) : held[s][i] = c
    BY <2>1 DEF IndInv, HeldOnce
  <2>3. PICK i \in 1..Len(held[s]) : held[s][i] = c
    BY <2>2
  <2>4. block[s] \notin {"open", "threw"}
    <3>t. held[s] \in Seq(Calls) /\ flushed[s] \in Nat
      BY DEF IndInv, TypeOK
    <3>1. PICK n \in 0..Len(held[s]) : InRedisTo(s, n)
      BY DEF IndInv, FlushFollowsBlock
    <3>2. i <= n
      BY <2>3, <3>1 DEF InRedisTo
    <3>3. n = flushed[s] \/ block[s] \in {"failed", "dead"}
      BY <3>1 DEF InRedisTo
    <3> QED
      BY <3>t, <3>2, <3>3 DEF IndInv, FlushFollowsBlock
  <2>5. MadeIn[c] \in Blocks /\ MadeIn[c] # NoBlock /\ ScopeIn(MadeIn[c]) = s
    BY <2>1, <2>2 DEF ScopeIn
  <2>6. ~ScopeOpen(ScopeIn(Around[MadeIn[c]]))
    <3>1. CASE Around[MadeIn[c]] = NoBlock
      BY <3>1 DEF ScopeIn, ScopeOpen
    <3>2. CASE Around[MadeIn[c]] # NoBlock
      BY <2>2, <2>4, <2>5, <3>2 DEF IndInv, ScopesHaveOwners, ScopeIn, ScopeOpen
    <3> QED
      BY <3>1, <3>2
  <2> QED
    BY <2>4, <2>5, <2>6
<1> QED
  BY <1>1, IndInvHolds, PTL

\* What Redis has of a block is a prefix of what it held, in the order of the calls.
THEOREM FlushedIsPrefixHolds == Spec => []FlushedIsPrefix
<1>1. IndInv => FlushedIsPrefix
  <2> SUFFICES ASSUME IndInv, NEW b \in Blocks
               PROVE  \E n \in 0..Len(held[b]) :
                        ToSet(held[b]) \cap queued = {held[b][i] : i \in 1..n}
    BY DEF FlushedIsPrefix
  <2>t. held[b] \in Seq(Calls) /\ Len(held[b]) \in Nat
    BY DEF IndInv, TypeOK
  <2>1. PICK n \in 0..Len(held[b]) : InRedisTo(b, n)
    BY DEF IndInv, FlushFollowsBlock
  <2>2. ASSUME NEW c PROVE c \in ToSet(held[b]) \cap queued <=> \E i \in 1..n : held[b][i] = c
    BY <2>t, <2>1, InList DEF InRedisTo
  <2>3. ToSet(held[b]) \cap queued = {held[b][i] : i \in 1..n}
    BY <2>2
  <2> QED
    BY <2>3
<1> QED
  BY <1>1, IndInvHolds, PTL

\* A block with a `tx` sends nothing to Redis by itself, keeps no row for what no row
\* can hold, and its rows are committed only if its function resolved.
THEOREM RowsFollowTheBlockHolds == Spec => []RowsFollowTheBlock
<1>1. IndInv => RowsFollowTheBlock
  <2> SUFFICES ASSUME IndInv, NEW b \in Blocks \cap Writing
               PROVE  /\ ToSet(held[b]) \cap (queued \cup Unwritable) = {}
                      /\ tx[b] = "committed" => held[b] # <<>> /\ block[b] \in {"resolved", "dead"}
    BY DEF RowsFollowTheBlock
  <2>t. held[b] \in Seq(Calls) /\ Len(held[b]) \in Nat /\ flushed[b] = 0
    BY DEF IndInv, TypeOK, FlushFollowsBlock
  <2>1. PICK n \in 0..Len(held[b]) : InRedisTo(b, n)
    BY DEF IndInv, FlushFollowsBlock
  <2>2. \A i \in 1..Len(held[b]) : held[b][i] \notin queued /\ held[b][i] \notin Unwritable
    BY <2>t, <2>1 DEF IndInv, HeldOnce, NoRowHolds, InRedisTo
  <2>3. ASSUME NEW c \in ToSet(held[b]) PROVE c \notin queued \cup Unwritable
    BY <2>t, <2>2, InList
  <2> QED
    BY <2>3 DEF IndInv, SavedFollowsBlock
<1> QED
  BY <1>1, IndInvHolds, PTL
=============================================================================

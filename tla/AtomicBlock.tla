---------------------------- MODULE AtomicBlock ----------------------------
(***************************************************************************)
(* jobs.atomic (Atomic.ts, Client.ts): blocks of one process, the enqueues *)
(* made in their async context, and what they leave in Redis or, with a    *)
(* `tx`, in the outbox.  An enqueue is asynchronous: it validates its      *)
(* payload and reaches the block's scope later, perhaps from a callback    *)
(* that outlived the block.  The process may die at any point.             *)
(***************************************************************************)
EXTENDS Naturals, Sequences, SequencesExt

CONSTANTS
  Blocks,        \* calls of jobs.atomic
  NoBlock,
  Around,        \* the block whose context each block is opened in, or NoBlock
  Writing,       \* the blocks that are given a `tx`
  Calls,         \* calls of jobs.enqueue
  MadeIn,        \* the block whose context each call is made in
  Unwritable     \* the calls no row can hold: a flow, a definition with `unique`

ASSUME NoBlockAssumption == NoBlock \notin Blocks
ASSUME AroundAssumption  == Around \in [Blocks -> Blocks \cup {NoBlock}]
ASSUME WritingAssumption == Writing \subseteq Blocks
ASSUME MadeInAssumption  == MadeIn \in [Calls -> Blocks]

VARIABLES
  block,         \* where each block stands
  scope,         \* the block whose scope a block uses: itself, or one it joined
  held,          \* the enqueues each scope holds, in the order they reached it
  flushed,       \* how many of them flush handed to the driver
  call,          \* where each enqueue stands
  queued,        \* calls whose job is in Redis
  tx             \* the caller's transaction of a writing block

vars == <<block, scope, held, flushed, call, queued, tx>>

\* "settling": the scope is closed and flush or save is under way.  "threw": the
\* block's own function rejected.  "failed": flush or save did.  "barred": a tx
\* inside an open block.
Closed == {"settling", "resolved", "threw", "failed"}

TypeOK ==
  /\ block \in [Blocks -> {"idle", "open", "barred", "dead"} \cup Closed]
  /\ scope \in [Blocks -> Blocks \cup {NoBlock}]
  /\ \A b \in Blocks : block[b] \in {"open"} \cup Closed => scope[b] # NoBlock
  /\ held \in [Blocks -> Seq(Calls)]
  /\ flushed \in [Blocks -> Nat]
  /\ call \in [Calls -> {"idle", "validating", "held", "refused"}]
  /\ queued \subseteq Calls
  /\ tx \in [Blocks -> {"open", "saved", "committed", "rolled_back"}]

Init ==
  /\ block = [b \in Blocks |-> "idle"]
  /\ scope = [b \in Blocks |-> NoBlock]
  /\ held = [b \in Blocks |-> <<>>]
  /\ flushed = [b \in Blocks |-> 0]
  /\ call = [c \in Calls |-> "idle"]
  /\ queued = {}
  /\ tx = [b \in Blocks |-> "open"]

-----------------------------------------------------------------------------
\* AsyncLocalStorage: code in the context of b sees the scope b uses.
ScopeIn(b) == IF b = NoBlock THEN NoBlock ELSE scope[b]

ScopeOpen(s) == s \in Blocks /\ block[s] = "open"

\* Code runs in a context once the block that made it ran its function; timers
\* and promises keep it for as long as the process lives.
ContextLives(b) == b # NoBlock => block[b] \in {"open"} \cup Closed

Opens_AlwaysOwn(b) == b

\* runAtomicBlock joins a scope that is open and makes one otherwise.
Opens(b) == IF ScopeOpen(ScopeIn(Around[b])) THEN ScopeIn(Around[b]) ELSE b

\* jobs.atomic: a tx is refused inside an open block before anything runs.
BlockOpens(b) ==
  /\ block[b] = "idle" /\ ContextLives(Around[b])
  /\ IF b \in Writing /\ ScopeOpen(ScopeIn(Around[b]))
     THEN block' = [block EXCEPT ![b] = "barred"] /\ UNCHANGED scope
     ELSE /\ block' = [block EXCEPT ![b] = "open"]
          /\ scope' = [scope EXCEPT ![b] = Opens(b)]
  /\ UNCHANGED <<held, flushed, call, queued, tx>>

\* The code of a block calls jobs.enqueue, which validates the payload.
CallStarts(c) ==
  /\ call[c] = "idle" /\ ContextLives(MadeIn[c])
  /\ call' = [call EXCEPT ![c] = "validating"]
  /\ UNCHANGED <<block, scope, held, flushed, queued, tx>>

\* forOutbox throws: a flow, or a job with `unique`, in a scope that writes rows.
NoRowHolds(s, c) == s \in Writing /\ c \in Unwritable

CallReaches_IgnoresClosed(c) ==
  LET s == ScopeIn(MadeIn[c]) IN
  /\ call[c] = "validating" /\ ContextLives(MadeIn[c])
  /\ IF NoRowHolds(s, c)
     THEN call' = [call EXCEPT ![c] = "refused"] /\ UNCHANGED held
     ELSE /\ call' = [call EXCEPT ![c] = "held"]
          /\ held' = [held EXCEPT ![s] = Append(@, c)]
  /\ UNCHANGED <<block, scope, flushed, queued, tx>>

\* holdOrDeliver: refused by a scope that ended, and by one no row of which can
\* hold it; held, and answered null, otherwise.
CallReaches(c) ==
  LET s == ScopeIn(MadeIn[c]) IN
  /\ call[c] = "validating" /\ ContextLives(MadeIn[c])
  /\ IF ~ScopeOpen(s) \/ NoRowHolds(s, c)
     THEN call' = [call EXCEPT ![c] = "refused"] /\ UNCHANGED held
     ELSE /\ call' = [call EXCEPT ![c] = "held"]
          /\ held' = [held EXCEPT ![s] = Append(@, c)]
  /\ UNCHANGED <<block, scope, flushed, queued, tx>>

\* The payload is refused by its schema.
CallInvalid(c) ==
  /\ call[c] = "validating" /\ ContextLives(MadeIn[c])
  /\ call' = [call EXCEPT ![c] = "refused"]
  /\ UNCHANGED <<block, scope, held, flushed, queued, tx>>

-----------------------------------------------------------------------------
(* The block's function ends, and what it held is settled.                 *)

Ends(b, how) == block' = [block EXCEPT ![b] = how]

\* The scope closes and the error passes through: nothing is flushed or saved.
\* Around a block it joined the caller may catch it; the scope is not its own.
FunctionThrows(b) ==
  /\ block[b] = "open"
  /\ Ends(b, "threw")
  /\ UNCHANGED <<scope, held, flushed, call, queued, tx>>

FunctionResolves(b) ==
  /\ block[b] = "open"
  /\ Ends(b, IF scope[b] # b THEN "resolved" ELSE "settling")
  /\ UNCHANGED <<scope, held, flushed, call, queued, tx>>

Flushing_AfterSave(b) == block[b] = "settling"

Flushing(b) == block[b] = "settling" /\ b \notin Writing

FlushDelivers_LastFirst(b) ==
  /\ Flushing(b) /\ flushed[b] < Len(held[b])
  /\ queued' = queued \cup {held[b][Len(held[b]) - flushed[b]]}
  /\ flushed' = [flushed EXCEPT ![b] = @ + 1]
  /\ UNCHANGED <<block, scope, held, call, tx>>

\* flush hands the next job to the driver and awaits it.
FlushDelivers(b) ==
  /\ Flushing(b) /\ flushed[b] < Len(held[b])
  /\ queued' = queued \cup {held[b][flushed[b] + 1]}
  /\ flushed' = [flushed EXCEPT ![b] = @ + 1]
  /\ UNCHANGED <<block, scope, held, call, tx>>

\* The driver rejects, perhaps after Redis stored the job: the rest is abandoned.
FlushFails(b, applied) ==
  /\ Flushing(b) /\ flushed[b] < Len(held[b])
  /\ queued' = IF applied THEN queued \cup {held[b][flushed[b] + 1]} ELSE queued
  /\ Ends(b, "failed")
  /\ UNCHANGED <<scope, held, flushed, call, tx>>

FlushEnds(b) ==
  /\ Flushing(b) /\ flushed[b] = Len(held[b])
  /\ Ends(b, "resolved")
  /\ UNCHANGED <<scope, held, flushed, call, queued, tx>>

\* outbox.save over everything the block wrote, in the caller's transaction; a
\* block that wrote nothing does not call it.
Save(b) ==
  /\ block[b] = "settling" /\ b \in Writing
  /\ Ends(b, "resolved")
  /\ tx' = [tx EXCEPT ![b] = IF held[b] = <<>> THEN "open" ELSE "saved"]
  /\ UNCHANGED <<scope, held, flushed, call, queued>>

SaveFails(b) ==
  /\ block[b] = "settling" /\ b \in Writing /\ held[b] # <<>>
  /\ Ends(b, "failed")
  /\ UNCHANGED <<scope, held, flushed, call, queued, tx>>

\* The caller's transaction around the block: it commits what was saved, or
\* rolls back, and has to when the block rejected.
TransactionEnds(b, how) ==
  /\ b \in Writing /\ tx[b] \in {"open", "saved"}
  /\ block[b] \in {"resolved", "threw", "failed"}
  /\ how = "committed" => block[b] = "resolved"
  /\ tx' = [tx EXCEPT ![b] = IF how = "committed" /\ tx[b] = "saved"
                             THEN "committed" ELSE "rolled_back"]
  /\ UNCHANGED <<block, scope, held, flushed, call, queued>>

\* The process dies: what blocks hold in memory is gone, open transactions too.
Dies ==
  /\ \E b \in Blocks : block[b] # "dead"
  /\ block' = [b \in Blocks |-> "dead"]
  /\ tx' = [b \in Blocks |-> IF tx[b] = "committed" THEN "committed" ELSE "rolled_back"]
  /\ UNCHANGED <<scope, held, flushed, call, queued>>

-----------------------------------------------------------------------------
CallStep(c) == CallStarts(c) \/ CallReaches(c) \/ CallInvalid(c)

BlockStep(b) ==
  \/ BlockOpens(b) \/ FunctionThrows(b) \/ FunctionResolves(b)
  \/ FlushDelivers(b) \/ FlushEnds(b) \/ \E applied \in BOOLEAN : FlushFails(b, applied)
  \/ Save(b) \/ SaveFails(b)
  \/ \E how \in {"committed", "rolled_back"} : TransactionEnds(b, how)

Next == (\E c \in Calls : CallStep(c)) \/ (\E b \in Blocks : BlockStep(b)) \/ Dies

Spec == Init /\ [][Next]_vars

-----------------------------------------------------------------------------
(* Properties                                                              *)

Owns(b) == scope[b] = b

\* An enqueue a block answered null to is in Redis once the block resolved, or in
\* the rows its transaction commits: a call that comes too late is refused, and
\* never taken in and dropped.
HeldIsNotDropped ==
  \A c \in Calls :
    LET s == ScopeIn(MadeIn[c]) IN
    call[c] = "held" /\ block[s] = "resolved" =>
      IF s \in Writing THEN c \in ToSet(held[s]) /\ tx[s] # "open" ELSE c \in queued

\* Nothing leaves before the outermost block is done: no job made in a block, or in
\* one that joined it, is in Redis while the function of the block that holds it
\* runs, nor ever once that function threw.  The block that holds a job is the one
\* whose scope its call reached: a joined block decides nothing, and the jobs of
\* one that threw are delivered with the rest if the block around it caught the
\* error and resolved (runAtomicBlock; "only the outermost block delivers").
NothingLeavesBeforeTheEnd ==
  \A c \in queued :
    /\ block[ScopeIn(MadeIn[c])] \notin {"open", "threw"}
    /\ ~ScopeOpen(ScopeIn(Around[MadeIn[c]]))

\* flush keeps to the order of the calls: what is in Redis is a prefix of what
\* the block held, whatever failed on the way.
FlushedIsPrefix ==
  \A b \in Blocks :
    \E n \in 0..Len(held[b]) :
      ToSet(held[b]) \cap queued = {held[b][i] : i \in 1..n}

\* Nothing a writing block holds goes to Redis by itself, and its rows stand only
\* if its function resolved: a flow and a `unique` job are in no row.
RowsFollowTheBlock ==
  \A b \in Blocks \cap Writing :
    /\ Owns(b) => ToSet(held[b]) \cap (queued \cup Unwritable) = {}
    /\ tx[b] = "committed" => held[b] # <<>> /\ block[b] \in {"resolved", "dead"}

-----------------------------------------------------------------------------
(***************************************************************************)
(* The inductive invariant behind the properties.                          *)
(***************************************************************************)

\* A block that ran uses a scope whose owner ran too, and one that writes uses
\* its own; a scope it did not join, around it, is closed for good.
ScopesHaveOwners ==
  \A b \in Blocks :
    /\ block[b] \in {"idle", "barred"} => scope[b] = NoBlock
    /\ scope[b] # NoBlock =>
         /\ Owns(scope[b]) /\ block[scope[b]] \notin {"idle", "barred"}
         /\ b \in Writing => Owns(b)
         /\ Around[b] # NoBlock =>
              /\ scope[Around[b]] # NoBlock
              /\ scope[Around[b]] = scope[b] \/ ~ScopeOpen(scope[Around[b]])

\* A call that was held is in the list of one scope, once.
HeldOnce ==
  /\ \A c \in Calls : call[c] = "held" =>
       \E b \in Blocks : b = scope[MadeIn[c]] /\ \E i \in 1..Len(held[b]) : held[b][i] = c
  /\ \A b \in Blocks : \A i \in 1..Len(held[b]) :
       /\ call[held[b][i]] = "held" /\ scope[MadeIn[held[b][i]]] = b
       /\ ~NoRowHolds(b, held[b][i])
       /\ \A j \in 1..Len(held[b]) : held[b][i] = held[b][j] => i = j

\* The first n calls b held are in Redis, and no other: those flush counted and
\* perhaps the one whose answer never came.
InRedisTo(b, n) ==
  /\ \A i \in 1..Len(held[b]) : held[b][i] \in queued <=> i <= n
  /\ \/ n = flushed[b]
     \/ n = flushed[b] + 1 /\ block[b] \in {"failed", "dead"} /\ b \notin Writing

FlushFollowsBlock ==
  /\ \A c \in queued : call[c] = "held"
  /\ \A b \in Blocks :
       /\ b \in Writing \/ block[b] \in {"idle", "barred", "open", "threw"} => flushed[b] = 0
       /\ block[b] = "resolved" /\ Owns(b) /\ b \notin Writing => flushed[b] = Len(held[b])
       /\ \E n \in 0..Len(held[b]) : InRedisTo(b, n)

SavedFollowsBlock ==
  \A b \in Blocks \cap Writing :
    /\ tx[b] \in {"saved", "committed"} => held[b] # <<>> /\ block[b] \in {"resolved", "dead"}
    /\ block[b] = "resolved" /\ held[b] # <<>> => tx[b] # "open"

IndInv == TypeOK /\ ScopesHaveOwners /\ HeldOnce /\ FlushFollowsBlock /\ SavedFollowsBlock

=============================================================================

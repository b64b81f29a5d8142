----------------------------- MODULE OutboxRelay -----------------------------
(***************************************************************************)
(* The outbox and its relays (Outbox.ts).  Committed rows are claimed in   *)
(* batches, delivered to Redis one by one under the id `outbox-<row>`, and *)
(* marked in one call at the end of the cycle.  Relays crash, calls to the *)
(* table and to Redis fail before or after they took effect, and a claim   *)
(* expires whether or not its relay is still at work.                      *)
(*                                                                         *)
(* The table and its claim belong to the application: they are modelled    *)
(* from the contract the Outbox interface states and, as that contract     *)
(* says nothing of how often a row is handed out, from the adapter of      *)
(* docs/outbox.md, which counts the claims of a row and gives it up at     *)
(* MAX_CLAIMS.  Redis keeps a job until retention or a cancel drops it.    *)
(***************************************************************************)
EXTENDS Naturals, FiniteSets

CONSTANTS
  Rows,          \* rows atomic blocks commit
  Relays,        \* processes that started a relay
  CanPrepare,    \* the rows each relay has the definitions and versions for
  Limit,         \* `limit`: how many rows a cycle claims
  MaxClaims,     \* MAX_CLAIMS: how often the table hands a row out
  MaxSweeps      \* bound: how often the job of one row is dropped

ASSUME CanPrepareAssumption == CanPrepare \in [Relays -> SUBSET Rows]
ASSUME LimitAssumption      == Limit \in Nat \ {0}
ASSUME MaxSweepsAssumption  == MaxSweeps \in Nat
ASSUME MaxClaimsAssumption  == MaxClaims \in Nat \ {0}

VARIABLES
  row,           \* what the table says of each row
  leased,        \* rows whose claim has not expired
  claims,        \* how often the table handed out each row
  job,           \* what Redis holds under the id of each row
  made,          \* history: jobs Redis stored for each row
  sweeps,        \* history: jobs of each row that were dropped
  relay,         \* where each relay's loop stands
  batch,         \* claimed rows the cycle has not done with
  delivered,     \* rows the cycle delivered and has not marked
  wasted         \* history: claims of each row that came to nothing

tableVars == <<row, leased, claims>>
redisVars == <<job, made, sweeps>>
cycleVars == <<relay, batch, delivered>>
vars == <<tableVars, redisVars, cycleVars, wasted>>

TypeOK ==
  /\ row \in [Rows -> {"unwritten", "undelivered", "delivered"}]
  /\ leased \subseteq Rows
  /\ job \in [Rows -> {"absent", "stored"}]
  /\ made \in [Rows -> Nat]
  /\ sweeps \in [Rows -> 0..MaxSweeps]
  /\ relay \in [Relays -> {"idle", "cycling", "closing", "closed"}]
  /\ batch \in [Relays -> SUBSET Rows]
  /\ delivered \in [Relays -> SUBSET Rows]
  /\ \A p \in Relays :
       relay[p] \in {"idle", "closed"} => batch[p] = {} /\ delivered[p] = {}
  /\ claims \in [Rows -> 0..MaxClaims]
  /\ wasted \in [Rows -> Nat]

Init ==
  /\ row = [r \in Rows |-> "unwritten"]
  /\ leased = {}
  /\ job = [r \in Rows |-> "absent"]
  /\ made = [r \in Rows |-> 0]
  /\ sweeps = [r \in Rows |-> 0]
  /\ relay = [p \in Relays |-> "idle"]
  /\ batch = [p \in Relays |-> {}]
  /\ delivered = [p \in Relays |-> {}]
  /\ claims = [r \in Rows |-> 0]
  /\ wasted = [r \in Rows |-> 0]

-----------------------------------------------------------------------------
(* The table and Redis.                                                    *)

\* The transaction of a block commits the row its save wrote.
Commit(r) ==
  /\ row[r] = "unwritten"
  /\ row' = [row EXCEPT ![r] = "undelivered"]
  /\ UNCHANGED <<leased, claims, redisVars, cycleVars, wasted>>

ClaimExpires(r) ==
  /\ r \in leased
  /\ leased' = leased \ {r}
  /\ UNCHANGED <<row, claims, redisVars, cycleVars, wasted>>

\* The job ended and retention dropped it, or cancel removed it.
JobSwept(r) ==
  /\ job[r] = "stored" /\ sweeps[r] < MaxSweeps
  /\ job' = [job EXCEPT ![r] = "absent"]
  /\ sweeps' = [sweeps EXCEPT ![r] = @ + 1]
  /\ UNCHANGED <<made, tableVars, cycleVars, wasted>>

Stores(r) ==
  /\ made' = [made EXCEPT ![r] = @ + 1]
  /\ job' = [job EXCEPT ![r] = "stored"]
  /\ UNCHANGED sweeps

AddJob_WithoutJobId(r) == Stores(r)

\* driver.enqueue with the id derived from the row: `add` gives back the job
\* that is there, and stores one where the id names nothing.
AddJob(r) == IF job[r] = "absent" THEN Stores(r) ELSE UNCHANGED redisVars

-----------------------------------------------------------------------------
(* runRelayCycle.                                                          *)

\* What the claim may hand out: not marked, leased to nobody, not given up.
Claimable == {r \in Rows : row[r] = "undelivered" /\ claims[r] < MaxClaims} \ leased

Ready(p) == relay[p] = "idle"

\* claim hands out rows nobody else holds, and counts that it did.  Which of them
\* is the table's choice: a row may be passed over while others are taken.
HandsOut(S) ==
  /\ S \subseteq Claimable /\ S # {} /\ Cardinality(S) <= Limit
  /\ leased' = leased \cup S
  /\ claims' = [r \in Rows |-> IF r \in S THEN claims[r] + 1 ELSE claims[r]]
  /\ UNCHANGED row

\* The claims of these rows ended, and the rows are not marked for it.
Wasted(S) == wasted' = [r \in Rows |-> IF r \in S THEN wasted[r] + 1 ELSE wasted[r]]

\* tick, with no cycle under way.
Claim(p, S) ==
  /\ Ready(p) /\ HandsOut(S)
  /\ relay' = [relay EXCEPT ![p] = "cycling"]
  /\ batch' = [batch EXCEPT ![p] = S]
  /\ UNCHANGED <<delivered, redisVars, wasted>>

\* claim rejects after the table leased the rows: the cycle fails, is logged,
\* and nobody works on them until the claim expires.
ClaimReplyLost(p, S) ==
  /\ Ready(p) /\ HandsOut(S)
  /\ Wasted(S)
  /\ UNCHANGED <<cycleVars, redisVars>>

\* The loop takes the claimed rows one by one, in the order claim gave them,
\* which is the application's; preparing a row touches nothing others see.
Delivering(p, r) == r \in batch[p]

RowDone(p, r) == batch' = [batch EXCEPT ![p] = @ \ {r}]

\* reportLeftBehind, and the loop goes on with the rows around this one.
LeftBehind(p, r) ==
  /\ RowDone(p, r) /\ Wasted({r})
  /\ UNCHANGED <<relay, delivered, tableVars>>

\* version_ahead or unrecoverable: definitionOf, migrateEnvelope, validatePayload
\* or outboxJobId throws.
DeliverUnprepared(p, r) ==
  /\ Delivering(p, r) /\ r \notin CanPrepare[p]
  /\ LeftBehind(p, r)
  /\ UNCHANGED redisVars

DeliverStores(p, r) ==
  /\ Delivering(p, r) /\ r \in CanPrepare[p]
  /\ AddJob(r)
  /\ RowDone(p, r)
  /\ delivered' = [delivered EXCEPT ![p] = @ \cup {r}]
  /\ UNCHANGED <<relay, tableVars, wasted>>

DeliverFails_Counted(p, r, applied) ==
  /\ Delivering(p, r) /\ r \in CanPrepare[p]
  /\ RowDone(p, r)
  /\ delivered' = [delivered EXCEPT ![p] = @ \cup {r}]
  /\ UNCHANGED <<relay, tableVars, wasted>>
  /\ IF applied THEN AddJob(r) ELSE UNCHANGED redisVars

\* driver_failed: enqueue rejects; Redis may have stored the job and lost the reply.
DeliverFails(p, r, applied) ==
  /\ Delivering(p, r) /\ r \in CanPrepare[p]
  /\ LeftBehind(p, r)
  /\ IF applied THEN AddJob(r) ELSE UNCHANGED redisVars

\* The cycle is over: the loop waits for its next tick, or close() resolves.
EndCycle(p) ==
  /\ relay' = [relay EXCEPT ![p] = IF @ = "closing" THEN "closed" ELSE "idle"]
  /\ delivered' = [delivered EXCEPT ![p] = {}]
  /\ UNCHANGED <<batch, redisVars>>

BatchDone(p) == relay[p] \in {"cycling", "closing"} /\ batch[p] = {}

CycleEmpty_StaysBusy(p) ==
  /\ BatchDone(p) /\ delivered[p] = {}
  /\ UNCHANGED vars

\* Nothing was delivered: markDelivered is not called.
CycleEmpty(p) ==
  /\ BatchDone(p) /\ delivered[p] = {}
  /\ EndCycle(p)
  /\ UNCHANGED <<tableVars, wasted>>

\* markDelivered, in one call; it may reject, having marked the rows or not.
Mark(p) ==
  /\ BatchDone(p) /\ delivered[p] # {}
  /\ row' = [r \in Rows |-> IF r \in delivered[p] THEN "delivered" ELSE row[r]]
  /\ EndCycle(p)
  /\ UNCHANGED <<leased, claims, wasted>>

MarkFails(p) ==
  /\ BatchDone(p) /\ delivered[p] # {}
  /\ EndCycle(p) /\ Wasted(delivered[p])
  /\ UNCHANGED tableVars

\* close(): the interval is cleared and the cycle under way is awaited.
Close(p) ==
  /\ relay[p] \in {"idle", "cycling"}
  /\ relay' = [relay EXCEPT ![p] = IF @ = "idle" THEN "closed" ELSE "closing"]
  /\ UNCHANGED <<batch, delivered, tableVars, redisVars, wasted>>

\* The process dies and is started again; what the cycle held is forgotten.
Crash(p) ==
  /\ relay[p] \in {"cycling", "closing"}
  /\ Wasted(batch[p] \cup delivered[p])
  /\ relay' = [relay EXCEPT ![p] = "idle"]
  /\ batch' = [batch EXCEPT ![p] = {}]
  /\ delivered' = [delivered EXCEPT ![p] = {}]
  /\ UNCHANGED <<tableVars, redisVars>>

-----------------------------------------------------------------------------
Deliver(p, r) ==
  \/ DeliverUnprepared(p, r)
  \/ DeliverStores(p, r)
  \/ \E applied \in BOOLEAN : DeliverFails(p, r, applied)

\* What the loop of a relay does next: claim when idle, then row by row, then the
\* end of the cycle.
Runs(p) ==
  \/ \E S \in SUBSET Rows : Claim(p, S) \/ ClaimReplyLost(p, S)
  \/ \E r \in Rows : Deliver(p, r)
  \/ CycleEmpty(p) \/ Mark(p) \/ MarkFails(p)

Next ==
  \/ \E r \in Rows : Commit(r) \/ ClaimExpires(r) \/ JobSwept(r)
  \/ \E p \in Relays : Runs(p) \/ Close(p) \/ Crash(p)

(***************************************************************************)
(* Only what the relay and the contract give.  The interval ticks, so an   *)
(* idle relay claims as long as the table has rows to hand out; a cycle    *)
(* runs on; and claims expire.  Which relay gets which rows, and whether   *)
(* Redis and the table answer, is left open: all of it may go wrong as     *)
(* often as it likes.                                                      *)
(***************************************************************************)
Fairness ==
  /\ \A p \in Relays : WF_vars(Runs(p))
  /\ \A r \in Rows : WF_vars(ClaimExpires(r))

Spec == Init /\ [][Next]_vars
FairSpec == Spec /\ Fairness

-----------------------------------------------------------------------------
(* Properties                                                              *)

\* A row the table calls delivered has had its job in Redis, whichever relay
\* marked it and whatever failed on the way: no committed job is lost.
MarkedMeansStored == \A r \in Rows : row[r] = "delivered" => made[r] > 0

\* A row becomes a second job only if it was claimed again and retention or a
\* cancel had dropped the first one: relays that overlap, crash before the mark or deliver
\* what another one marked create nothing new while Redis keeps the job.
SecondJobNeedsSweep ==
  \A r \in Rows : made[r] > 1 => sweeps[r] > 0 /\ claims[r] > 1

\* A committed row is marked in the end as long as a relay is open, or the table
\* has handed it out as often as it ever does and each of those claims came to
\* nothing: the relay that got it could not read it or died, Redis or the mark
\* refused, a reply was lost.  So a row no claim failed on is delivered however
\* many rows nobody can prepare are claimed before it and beside it, and a row is
\* given up only with a failure behind each of its claims (docs/outbox.md).
GoodRowIsDelivered ==
  \A r \in Rows :
    (row[r] = "undelivered")
      ~> \/ row[r] = "delivered"
         \/ wasted[r] >= MaxClaims
         \/ \A p \in Relays : relay[p] \in {"closing", "closed"}

-----------------------------------------------------------------------------
(***************************************************************************)
(* The inductive invariant behind the safety properties.                   *)
(***************************************************************************)

\* What a cycle counts as delivered has been stored.
DeliveredMeansStored ==
  \A p \in Relays : \A r \in delivered[p] : made[r] > 0

\* Redis stores another job of a row only where retention dropped the last, and
\* keeps it until the next sweep.
JobsAreCounted ==
  \A r \in Rows :
    made[r] = sweeps[r] + (IF job[r] = "absent" THEN 0 ELSE 1)

\* A row that was claimed once is in one batch at most, and delivered from it only
\* by leaving it.
FirstClaimIsAlone ==
  \A r \in Rows :
    /\ claims[r] = 0 => made[r] = 0 /\ \A p \in Relays : r \notin batch[p]
    /\ claims[r] = 1 =>
         /\ \A p, q \in Relays : r \in batch[p] /\ r \in batch[q] => p = q
         /\ \A p \in Relays : r \in batch[p] => made[r] = 0
         /\ made[r] <= 1

IndInv ==
  /\ TypeOK /\ MarkedMeansStored /\ DeliveredMeansStored /\ JobsAreCounted
  /\ FirstClaimIsAlone

=============================================================================

-------------------------- MODULE MCAbortingHeard --------------------------
(***************************************************************************)
(* What the documentation says of a cancellation and the code does not     *)
(* keep.  JobRuntime is given a history variable: the delivery that held   *)
(* the job when a call of jobs.cancel read the state `active`.             *)
(***************************************************************************)
EXTENDS JobRuntime

VARIABLE found

HeardInit == Init /\ found = [c \in Cancels |-> 0]

HeardNext ==
  /\ Next
  /\ found' = [c \in Cancels |->
       IF cancel'[c] = "mark" /\ cancel[c] # "mark" THEN lock ELSE found[c]]

HeardSpec == HeardInit /\ [][HeardNext]_<<vars, found>> /\ Fairness

\* docs/operations.md, on the answer `aborting`: "jubs marks the job, the runtime
\* that holds the delivery aborts `context.signal`".  The delivery is the one that
\* held the job when the call read `active`, as long as it holds it; a mark that
\* names it and is lost is excused as in MarkLands.
AbortingIsHeard ==
  \A c \in Cancels, n \in Delivery, w \in Workers :
    (cancel[c] = "aborting" /\ found[c] = n /\ n \in LiveOf(w) /\ runtime[w] = "open")
      ~> \/ reason[n] # "none" \/ n \notin LiveOf(w) \/ runtime[w] # "open"
         \/ lock # n \/ n \in unheard
=============================================================================

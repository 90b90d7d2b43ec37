------------------------------ MODULE RunQueue ------------------------------
(***************************************************************************)
(* What the run store promises to whoever submits runs and whoever works    *)
(* on them, without rows, requests in flight or workers' counts: a run is   *)
(* submitted, leased to one worker at most and only before it has an        *)
(* outcome, keeps the name of that worker, and never loses its outcome but  *)
(* to a report that comes later.                                            *)
(***************************************************************************)
CONSTANTS
  Runs,     \* ids of runs
  Workers,  \* ids of workers
  NoWorker  \* the holder of a run that was not leased

VARIABLES
  phase,   \* [Runs -> Phases]
  holder,  \* [Runs -> Workers \cup {NoWorker}]: to whom a run is or was leased
  outcome  \* [Runs -> Outcomes \cup {"none"}]

promise == <<phase, holder, outcome>>

Phases   == {"free", "queued", "leased", "over"}
Outcomes == {"completed", "failed", "canceled"}

Init ==
  /\ phase = [r \in Runs |-> "free"]
  /\ holder = [r \in Runs |-> NoWorker]
  /\ outcome = [r \in Runs |-> "none"]

Submit(r) ==
  /\ phase[r] = "free"
  /\ phase' = [phase EXCEPT ![r] = "queued"]
  /\ UNCHANGED <<holder, outcome>>

Lease(r, w) ==
  /\ phase[r] = "queued" /\ holder[r] = NoWorker
  /\ phase' = [phase EXCEPT ![r] = "leased"]
  /\ holder' = [holder EXCEPT ![r] = w]
  /\ UNCHANGED outcome

\* A run may be completed or canceled before it is leased; the last report counts.
Settle(r, o) ==
  /\ phase[r] # "free"
  /\ phase' = [phase EXCEPT ![r] = "over"]
  /\ outcome' = [outcome EXCEPT ![r] = o]
  /\ UNCHANGED holder

Next ==
  \E r \in Runs : \/ Submit(r)
                  \/ \E w \in Workers : Lease(r, w)
                  \/ \E o \in Outcomes : Settle(r, o)

Spec == Init /\ [][Next]_promise
=============================================================================

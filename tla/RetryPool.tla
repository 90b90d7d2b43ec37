----------------------------- MODULE RetryPool -----------------------------
(***************************************************************************)
(* What the dispatcher promises to a stage, without threads, queues or      *)
(* clocks: every job is tried a bounded number of times, at most MaxWorkers *)
(* jobs at once, one try of a job at a time, and gets one verdict, which is *)
(* final; a job passes only if it was tried.                                *)
(***************************************************************************)
EXTENDS Integers, FiniteSets

CONSTANTS
  Jobs,        \* the jobs of the stage
  MaxWorkers,  \* how many jobs may run at once
  MaxRetries   \* tries of a job after its first

VARIABLES
  verdict,  \* [Jobs -> {"open"} \cup Decided]
  tries,    \* [Jobs -> Nat]: the tries of each job so far
  busy      \* the jobs being tried now

promise == <<verdict, tries, busy>>

Decided  == {"passed", "failed", "timed_out"}

Init ==
  /\ verdict = [j \in Jobs |-> "open"]
  /\ tries = [j \in Jobs |-> 0]
  /\ busy = {}

Try(j) ==
  /\ verdict[j] = "open"
  /\ j \notin busy
  /\ tries[j] <= MaxRetries
  /\ Cardinality(busy) < MaxWorkers
  /\ tries' = [tries EXCEPT ![j] = @ + 1]
  /\ busy' = busy \cup {j}
  /\ UNCHANGED verdict

EndTry(j) ==
  /\ j \in busy
  /\ busy' = busy \ {j}
  /\ UNCHANGED <<verdict, tries>>

\* Any number of open jobs may be decided together, when the stage is given up.
Decide(S) ==
  /\ \A j \in S : verdict[j] = "open" /\ j \notin busy
  /\ \E v \in [S -> Decided] :
       /\ \A j \in S : v[j] = "passed" => tries[j] > 0
       /\ verdict' = [j \in Jobs |-> IF j \in S THEN v[j] ELSE verdict[j]]
  /\ UNCHANGED <<tries, busy>>

Next ==
  \/ \E j \in Jobs : Try(j) \/ EndTry(j)
  \/ \E S \in SUBSET Jobs : Decide(S)

Spec == Init /\ [][Next]_promise
=============================================================================

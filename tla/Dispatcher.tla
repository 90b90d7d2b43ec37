----------------------------- MODULE Dispatcher -----------------------------
(***************************************************************************)
(* LocalDispatcher.run_jobs (testfabric/orchestrator/dispatch/threaded.py): *)
(* the dispatching thread fills a thread pool from the jobs of a stage,     *)
(* collects results one by one and submits retries, while the pool's        *)
(* threads run the jobs, the stage deadline passes and a watch may ask for  *)
(* the stage to be aborted, each at any moment.                             *)
(*                                                                         *)
(* The dispatching thread's steps are cut where it reads what the others    *)
(* write: the completed futures, the abort flag and the clock.              *)
(***************************************************************************)
EXTENDS Integers, Sequences, FiniteSets

CONSTANTS
  Jobs,        \* the jobs of the stage
  Plan,        \* the jobs in the order the planner put them
  MaxWorkers,  \* the largest ctx.max_workers
  MaxRetries,  \* ctx.max_retries
  JobLimit,    \* whether the stage sets timeout.job_seconds
  StageLimit,  \* whether the stage sets timeout.stage_seconds
  Watched,     \* whether a watch can abort the stage
  NoJob        \* no job is under consideration

ASSUME DispatchAssumption ==
  /\ IsFiniteSet(Jobs)
  /\ Plan \in Seq(Jobs)
  /\ \A j \in Jobs : \E i \in DOMAIN Plan : Plan[i] = j
  /\ \A i, k \in DOMAIN Plan : Plan[i] = Plan[k] => i = k
  /\ MaxWorkers \in Nat \ {0}
  /\ MaxRetries \in Nat
  /\ {JobLimit, StageLimit, Watched} \subseteq BOOLEAN
  /\ NoJob \notin Jobs

VARIABLES
  width,     \* ctx.max_workers: how many futures run_jobs keeps
  pc,        \* where the dispatching thread is
  current,   \* the job whose result it is looking at
  pending,   \* the jobs not yet submitted, in order
  attempts,  \* [Jobs -> Nat]: the attempt each job is at
  thread,    \* [Jobs -> Phase]: the job's future and the thread that runs it
  outcome,   \* [Jobs -> Result]: what that future returns
  latest,    \* [Jobs -> Result]: latest_by_job
  timedOut,  \* timed_out_job_ids
  abort,     \* watch_runtime.abort_requested
  expired,   \* whether the stage deadline has passed
  executed   \* history: [Jobs -> Seq(Exit)], how each run of a command ended;
             \* "error" if run_one could not carry it through

vars == <<width, pc, current, pending, attempts, thread, outcome, latest, timedOut, abort,
          expired, executed>>

-----------------------------------------------------------------------------
(* Results.  A result is timed out exactly when it has a timeout scope.     *)

Exit  == {"ok", "failed", "timeout", "aborted", "error"}  \* 0, other, 124, 130, 99
Scope == {"none", "job", "stage", "watch"}
Phase == {"none", "submitted", "running", "finished", "raised"}

Result == [attempt: Nat, exit: Exit \cup {"none"}, scope: Scope, started: BOOLEAN]

NoResult == [attempt |-> 0, exit |-> "none", scope |-> "none", started |-> FALSE]

Made(n, exit, scope, started) ==
  [attempt |-> n, exit |-> exit, scope |-> scope, started |-> started]

TimedOut(result) == result.scope # "none"

\* The jobs with an entry in latest_by_job.
Recorded == {j \in Jobs : latest[j].exit # "none"}

Futures == {j \in Jobs : thread[j] # "none"}

Waiting == {pending[i] : i \in DOMAIN pending}

-----------------------------------------------------------------------------
(* The dispatching thread                                                   *)

Goto(label) == pc' = label

\* Mutant: only the job being submitted is given up, the pending ones are dropped.
GiveUpRecordedOnly(jobs, exit, scope) ==
  LET lost == jobs \ (Recorded \cup Waiting)
  IN /\ latest' = [j \in Jobs |-> IF j \in lost THEN Made(attempts[j], exit, scope, FALSE)
                                  ELSE latest[j]]
     /\ timedOut' = timedOut \cup lost
     /\ pending' = <<>>

\* Mutant: a job that has a result already gets another.
GiveUpAll(jobs, exit, scope) ==
  /\ latest' = [j \in Jobs |-> IF j \in jobs THEN Made(attempts[j], exit, scope, FALSE)
                               ELSE latest[j]]
  /\ timedOut' = timedOut \cup jobs
  /\ pending' = <<>>

\* The jobs not launched any more get a result, unless they have one.
GiveUp(jobs, exit, scope) ==
  LET lost == jobs \ Recorded
  IN /\ latest' = [j \in Jobs |-> IF j \in lost THEN Made(attempts[j], exit, scope, FALSE)
                                  ELSE latest[j]]
     /\ timedOut' = timedOut \cup lost
     /\ pending' = <<>>

\* Hand job to the pool; rest is what then remains pending.
Submit(job, rest) ==
  \/ /\ abort
     /\ GiveUp({job} \cup Waiting, "aborted", "watch")
     /\ UNCHANGED thread
  \/ /\ ~abort /\ expired
     /\ GiveUp({job} \cup Waiting, "timeout", "stage")
     /\ UNCHANGED thread
  \/ /\ ~abort /\ ~expired
     /\ thread' = [thread EXCEPT ![job] = "submitted"]
     /\ pending' = rest
     /\ UNCHANGED <<latest, timedOut>>

\* Submit pending jobs while the pool has room, then wait for a result.
Fill ==
  /\ pc = "fill"
  /\ IF pending # <<>> /\ Cardinality(Futures) < width
     THEN Submit(Head(pending), Tail(pending)) /\ UNCHANGED pc
     ELSE /\ Goto(IF Futures = {} THEN "finish" ELSE "wait")
          /\ UNCHANGED <<pending, thread, latest, timedOut>>
  /\ UNCHANGED <<width, current, attempts, outcome, abort, expired, executed>>

\* Mutant: the future stays in the table after its result was taken.
CollectKept(j) ==
  /\ pc = "wait"
  /\ thread[j] = "finished"
  /\ latest' = [latest EXCEPT ![j] = outcome[j]]
  /\ timedOut' = IF TimedOut(outcome[j]) THEN timedOut \cup {j} ELSE timedOut
  /\ current' = j
  /\ Goto("decide")
  /\ UNCHANGED <<width, pending, attempts, thread, outcome, abort, expired, executed>>

\* Take one completed future and record what it returned.
Collect(j) ==
  /\ pc = "wait"
  /\ thread[j] = "finished"
  /\ thread' = [thread EXCEPT ![j] = "none"]
  /\ latest' = [latest EXCEPT ![j] = outcome[j]]
  /\ timedOut' = IF TimedOut(outcome[j]) THEN timedOut \cup {j} ELSE timedOut
  /\ current' = j
  /\ Goto("decide")
  /\ UNCHANGED <<width, pending, attempts, outcome, abort, expired, executed>>

\* Mutant: a job that timed out is tried again.
RetryableTimedOut(result) == result.exit # "ok" /\ result.attempt < MaxRetries

\* Mutant: one retry too many.
RetryableOnceMore(result) ==
  result.exit # "ok" /\ ~TimedOut(result) /\ result.attempt <= MaxRetries

Retryable(result) ==
  result.exit # "ok" /\ ~TimedOut(result) /\ result.attempt < MaxRetries

\* On abort give up what is pending; else announce a retry where one is due.
Settle ==
  /\ pc = "decide"
  /\ LET result == latest[current]
     IN \/ /\ abort
           /\ GiveUp(Waiting, "aborted", "watch")
           /\ Goto("deadline")
           /\ UNCHANGED attempts
        \/ /\ ~abort /\ Retryable(result)
           /\ attempts' = [attempts EXCEPT ![current] = result.attempt + 1]
           /\ Goto("resubmit")
           /\ UNCHANGED <<pending, latest, timedOut>>
        \/ /\ ~abort /\ ~Retryable(result)
           /\ Goto("deadline")
           /\ UNCHANGED <<pending, attempts, latest, timedOut>>
  /\ UNCHANGED <<width, current, thread, outcome, abort, expired, executed>>

\* The retry may find the stage aborted or out of time after all.
Resubmit ==
  /\ pc = "resubmit"
  /\ Submit(current, pending)
  /\ Goto("deadline")
  /\ UNCHANGED <<width, current, attempts, outcome, abort, expired, executed>>

CheckDeadline ==
  /\ pc = "deadline"
  /\ IF expired
     THEN GiveUp(Waiting, "timeout", "stage")
     ELSE UNCHANGED <<pending, latest, timedOut>>
  /\ current' = NoJob
  /\ Goto("fill")
  /\ UNCHANGED <<width, attempts, thread, outcome, abort, expired, executed>>

\* The event of one of the queue's jobs fails: only those before it have results.
GiveUpRaises(queue, exit, scope) ==
  \E n \in DOMAIN queue :
    /\ queue[n] \notin Recorded
    /\ GiveUp({queue[i] : i \in 1 .. n - 1}, exit, scope)

SubmitRaises(queue) ==
  \/ abort /\ GiveUpRaises(queue, "aborted", "watch")
  \/ ~abort /\ expired /\ GiveUpRaises(queue, "timeout", "stage")

\* An event of the dispatching thread fails, and run_jobs leaves its loop.
DispatchRaises ==
  /\ \/ /\ pc = "fill" /\ pending # <<>> /\ Cardinality(Futures) < width
        /\ SubmitRaises(pending)
        /\ UNCHANGED attempts
     \/ /\ pc = "decide" /\ abort
        /\ GiveUpRaises(pending, "aborted", "watch")
        /\ UNCHANGED attempts
     \/ /\ pc = "decide" /\ ~abort /\ Retryable(latest[current])
        /\ attempts' = [attempts EXCEPT ![current] = latest[current].attempt + 1]
        /\ UNCHANGED <<pending, latest, timedOut>>
     \/ /\ pc = "resubmit"
        /\ SubmitRaises(<<current>> \o pending)
        /\ UNCHANGED attempts
     \/ /\ pc = "deadline" /\ expired
        /\ GiveUpRaises(pending, "timeout", "stage")
        /\ UNCHANGED attempts
  /\ Goto("unwind")
  /\ UNCHANGED <<width, current, thread, outcome, abort, expired, executed>>

\* A future raised: run_jobs leaves its loop, and the pool waits for the rest.
CollectRaised(j) ==
  /\ pc = "wait"
  /\ thread[j] = "raised"
  /\ thread' = [thread EXCEPT ![j] = "none"]
  /\ Goto("unwind")
  /\ UNCHANGED <<width, current, pending, attempts, outcome, latest, timedOut, abort, expired,
                 executed>>

Unwind ==
  /\ pc = "unwind"
  /\ \A j \in Jobs : thread[j] \notin {"submitted", "running"}
  /\ Goto("raised")
  /\ UNCHANGED <<width, current, pending, attempts, thread, outcome, latest, timedOut, abort,
                 expired, executed>>

\* The watch is stopped; a sequence it did not see may still fail the stage.
\* The event of the end may fail, and the results are not returned then.
Finish ==
  /\ pc = "finish"
  /\ abort' \in {abort, abort \/ Watched}
  /\ Goto("done") \/ Goto("raised")
  /\ UNCHANGED <<width, current, pending, attempts, thread, outcome, latest, timedOut, expired,
                 executed>>

-----------------------------------------------------------------------------
(* The threads of the pool: run_one                                         *)

\* A job whose turn comes after the deadline is not started.
StartLate(j) ==
  /\ thread[j] = "submitted"
  /\ expired
  /\ thread' = [thread EXCEPT ![j] = "finished"]
  /\ outcome' = [outcome EXCEPT ![j] = Made(attempts[j], "timeout", "stage", FALSE)]
  /\ UNCHANGED <<width, pc, current, pending, attempts, latest, timedOut, abort, expired,
                 executed>>

Start(j) ==
  /\ thread[j] = "submitted"
  /\ ~expired
  /\ thread' = [thread EXCEPT ![j] = "running"]
  /\ UNCHANGED <<width, pc, current, pending, attempts, outcome, latest, timedOut, abort,
                 expired, executed>>

\* An event, making the directories or the command fails before the executor is
\* called, outside of run_one's try block.
StartRaises(j) ==
  /\ thread[j] = "submitted"
  /\ thread' = [thread EXCEPT ![j] = "raised"]
  /\ UNCHANGED <<width, pc, current, pending, attempts, outcome, latest, timedOut, abort,
                 expired, executed>>

\* The run of j's command is over; named tells whether j was put in
\* timed_out_job_ids for it.
Ended(j, ended, named) ==
  /\ thread[j] = "running"
  /\ timedOut' = IF named THEN timedOut \cup {j} ELSE timedOut
  /\ executed' = [executed EXCEPT ![j] = Append(@, ended)]
  /\ UNCHANGED <<width, pc, current, pending, attempts, latest, abort, expired>>

\* run_one returns a result.
End(j, ended, named, result) ==
  /\ Ended(j, ended, named)
  /\ thread' = [thread EXCEPT ![j] = "finished"]
  /\ outcome' = [outcome EXCEPT ![j] = result]

\* A command that passes once the stage is aborted counts as aborted.
Pass(j) ==
  End(j, "ok", abort, IF abort THEN Made(attempts[j], "aborted", "watch", TRUE)
                      ELSE Made(attempts[j], "ok", "none", TRUE))

\* The command fails, or what answers its output stops it.
FailJob(j) == End(j, "failed", FALSE, Made(attempts[j], "failed", "none", TRUE))

\* The first output after the abort stops the command.
Stopped(j) ==
  abort /\ End(j, "aborted", FALSE, Made(attempts[j], "aborted", "none", TRUE))

Limits == (IF JobLimit THEN {"job"} ELSE {}) \cup (IF StageLimit THEN {"stage"} ELSE {})

\* The command runs into the job's limit or what was left of the stage's.
TimeOut(j) ==
  \E scope \in Limits : End(j, "timeout", TRUE, Made(attempts[j], "timeout", scope, TRUE))

(***************************************************************************)
(* run_one's try block fails: the executor raised, or the event that the    *)
(* job ended did, once the job had been put in timed_out_job_ids for a      *)
(* time-out or an abort.                                                    *)
(***************************************************************************)
Named == {FALSE, Limits # {} \/ abort}

Break(j) ==
  \E named \in Named : End(j, "error", named, Made(attempts[j], "error", "none", FALSE))

\* Reporting that error fails as well.
BreakRaises(j) ==
  /\ \E named \in Named : Ended(j, "error", named)
  /\ thread' = [thread EXCEPT ![j] = "raised"]
  /\ UNCHANGED outcome

RunOne(j) ==
  \/ StartLate(j) \/ Start(j) \/ StartRaises(j)
  \/ Pass(j) \/ FailJob(j) \/ Stopped(j) \/ TimeOut(j) \/ Break(j)
  \/ BreakRaises(j)

-----------------------------------------------------------------------------
(* The clock and the watch                                                  *)

Running == pc \notin {"done", "raised"}

DeadlinePasses ==
  /\ Running /\ StageLimit /\ ~expired
  /\ expired' = TRUE
  /\ UNCHANGED <<width, pc, current, pending, attempts, thread, outcome, latest, timedOut,
                 abort, executed>>

AbortRequested ==
  /\ Running /\ Watched /\ ~abort
  /\ abort' = TRUE
  /\ UNCHANGED <<width, pc, current, pending, attempts, thread, outcome, latest, timedOut,
                 expired, executed>>

Init ==
  /\ width \in 1 .. MaxWorkers
  /\ pc = "fill"
  /\ current = NoJob
  /\ pending = Plan
  /\ attempts = [j \in Jobs |-> 0]
  /\ thread = [j \in Jobs |-> "none"]
  /\ outcome = [j \in Jobs |-> NoResult]
  /\ latest = [j \in Jobs |-> NoResult]
  /\ timedOut = {}
  /\ abort = FALSE
  /\ expired = FALSE
  /\ executed = [j \in Jobs |-> <<>>]

Dispatch ==
  \/ Fill
  \/ \E j \in Jobs : Collect(j) \/ CollectRaised(j)
  \/ Settle \/ Resubmit \/ CheckDeadline \/ DispatchRaises \/ Unwind \/ Finish

Terminated == ~Running /\ UNCHANGED vars

Next ==
  \/ Dispatch
  \/ \E j \in Jobs : RunOne(j)
  \/ DeadlinePasses \/ AbortRequested
  \/ Terminated

Spec == Init /\ [][Next]_vars

\* Threads are scheduled; a command with a time limit ends.
FairSpec ==
  /\ Spec
  /\ WF_vars(Dispatch \/ \E j \in Jobs : RunOne(j))

-----------------------------------------------------------------------------
(* Properties                                                               *)

\* Variables have their types; in particular no job is announced for more than
\* MaxRetries retries.
TypeOK ==
  /\ width \in 1 .. MaxWorkers
  /\ pc \in {"fill", "wait", "decide", "resubmit", "deadline", "finish", "done", "unwind",
             "raised"}
  /\ current \in Jobs \cup {NoJob}
  /\ pending \in Seq(Jobs)
  /\ attempts \in [Jobs -> 0 .. MaxRetries]
  /\ thread \in [Jobs -> Phase]
  /\ outcome \in [Jobs -> Result]
  /\ latest \in [Jobs -> Result]
  /\ timedOut \subseteq Jobs
  /\ {abort, expired} \subseteq BOOLEAN
  /\ executed \in [Jobs -> Seq(Exit)]

\* When run_jobs returns, no job of the plan is without a result, whether it
\* ran, was given up on an abort or was left when the stage ran out of time.
EveryJobReported == pc = "done" => Recorded = Jobs

\* timed_out_job_ids, filled by the pool's threads before their results are
\* collected and by the dispatching thread, and never emptied, names in the end
\* every job whose final result is a time-out; it names another job only if
\* run_one failed in one of its runs, and never for a retry, a deadline or an
\* abort that fell in between.
TimedOutHasCause ==
  pc = "done" =>
    /\ {j \in Jobs : TimedOut(latest[j])} \subseteq timedOut
    /\ \A j \in timedOut :
         TimedOut(latest[j]) \/ \E i \in DOMAIN executed[j] : executed[j][i] = "error"

\* The final result of a job that ran is how its last run ended, but for a pass
\* during an abort and a retry that the deadline overtook; and unless the stage was
\* aborted or out of time, a job is reported failed only after all its retries.
LastRunDecides ==
  pc = "done" =>
    \A j \in Jobs : executed[j] # <<>> =>
      LET ended == executed[j][Len(executed[j])]
      IN /\ \/ latest[j].exit = ended
            \/ ended = "ok" /\ abort /\ latest[j].exit = "aborted"
            \/ ended # "ok" /\ expired /\ latest[j].exit = "timeout" /\ ~latest[j].started
         /\ latest[j].exit \in {"failed", "error"} /\ ~abort /\ ~expired =>
              Len(executed[j]) = MaxRetries + 1

\* run_jobs comes to an end, however retries, time-outs and aborts fall
\* together.  (Commands have a time limit.)
Termination == <>~Running

-----------------------------------------------------------------------------
(* The dispatcher is a RetryPool.                                           *)

\* A job is decided once its result is recorded and no retry is under way.
Decided(j) ==
  /\ j \in Recorded
  /\ thread[j] = "none"
  /\ ~(pc \in {"decide", "resubmit"} /\ current = j)

VerdictOf(result) ==
  CASE result.exit = "ok" -> "passed"
    [] TimedOut(result)   -> "timed_out"
    [] OTHER              -> "failed"

Verdict == [j \in Jobs |-> IF Decided(j) THEN VerdictOf(latest[j]) ELSE "open"]

Tries == [j \in Jobs |-> Len(executed[j]) + (IF thread[j] = "running" THEN 1 ELSE 0)]

Busy == {j \in Jobs : thread[j] = "running"}

Pool == INSTANCE RetryPool WITH verdict <- Verdict, tries <- Tries, busy <- Busy

\* The dispatcher keeps the promise of RetryPool: bounded tries, bounded
\* concurrency, one try of a job at a time, and one verdict that is final.
KeepsPromise == Pool!Spec

=============================================================================

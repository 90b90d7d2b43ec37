------------------------- MODULE Dispatcher_proofs -------------------------
(***************************************************************************)
(* Proofs about the dispatcher, for any plan, any number of workers and     *)
(* retries, and any moment of the deadline and the abort.                   *)
(***************************************************************************)
EXTENDS Dispatcher, FiniteSetTheorems, TLAPS

-----------------------------------------------------------------------------
(* The inductive invariant                                                  *)

\* No job is lost: it waits, is in the pool, or has a result.
Placed == pc \notin {"unwind", "raised"} => Jobs \subseteq Waiting \cup Futures \cup Recorded

\* A waiting job waits once and was never touched.
Untouched ==
  /\ \A i, k \in DOMAIN pending : pending[i] = pending[k] => i = k
  /\ \A j \in Waiting : /\ thread[j] = "none" /\ j \notin Recorded
                        /\ attempts[j] = 0 /\ executed[j] = <<>>

\* The dispatching thread leaves its loop only when nothing is left.
Drained == pc \in {"finish", "done"} => pending = <<>> /\ Futures = {}

\* The pool is never overfull, and has room while a result is looked at.
Room ==
  /\ Cardinality(Futures) <= width
  /\ pc \in {"decide", "resubmit"} => Cardinality(Futures) < width

\* The job looked at has a result and is not in the pool.
InHand ==
  pc \in {"decide", "resubmit"} =>
    /\ current \in Recorded /\ thread[current] = "none"
    /\ pc = "decide" => latest[current].attempt = attempts[current]
    /\ pc = "resubmit" => Len(executed[current]) <= attempts[current]

\* A job has not run more often than its attempt allows.
Counted ==
  \A j \in Jobs : /\ Len(executed[j]) <= attempts[j] + 1
                  /\ thread[j] \in {"submitted", "running"} => Len(executed[j]) <= attempts[j]

\* A finished future has the result of the job's attempt; only a job that ran
\* passed.
Returned ==
  \A j \in Jobs :
    /\ thread[j] = "finished" => outcome[j].exit # "none" /\ outcome[j].attempt = attempts[j]
    /\ outcome[j].exit = "ok" => executed[j] # <<>>
    /\ latest[j].exit = "ok" => executed[j] # <<>>

Inv == TypeOK /\ Placed /\ Untouched /\ Drained /\ Room /\ InHand /\ Counted /\ Returned

\* run_one failed in a run of j.
RunFailed(j) == \E i \in DOMAIN executed[j] : executed[j][i] = "error"

\* timed_out_job_ids follows the results, but for the runs that failed.
TimedOutInv ==
  /\ pc = "resubmit" => ~TimedOut(latest[current])
  /\ \A j \in Jobs :
       /\ j \notin Recorded => ~TimedOut(latest[j])
       /\ thread[j] # "none" => ~TimedOut(latest[j])
       /\ TimedOut(latest[j]) => j \in timedOut
       /\ j \in timedOut => \/ thread[j] = "none" /\ TimedOut(latest[j])
                            \/ thread[j] = "finished" /\ TimedOut(outcome[j])
                            \/ RunFailed(j)

-----------------------------------------------------------------------------
(* What the pieces of a step do                                             *)

\* The set of futures is finite.
LEMMA FuturesFinite == IsFiniteSet(Futures) /\ Cardinality(Futures) \in Nat
  BY DispatchAssumption, FS_Subset, FS_CardinalityType DEF Futures

\* Taking the first waiting job leaves the others waiting.
LEMMA FirstWaiting ==
  ASSUME TypeOK, Untouched, pending # <<>>
  PROVE  LET rest == Tail(pending)
         IN /\ Head(pending) \in Waiting /\ Head(pending) \in Jobs
            /\ rest \in Seq(Jobs)
            /\ {rest[i] : i \in DOMAIN rest} = Waiting \ {Head(pending)}
            /\ \A i, k \in DOMAIN rest : rest[i] = rest[k] => i = k
<1> DEFINE rest == Tail(pending)
<1>1. /\ pending \in Seq(Jobs) /\ Waiting = {pending[i] : i \in DOMAIN pending}
      /\ \A i, k \in DOMAIN pending : pending[i] = pending[k] => i = k
  BY DEF TypeOK, Untouched, Waiting
<1>2. rest \in Seq(Jobs) /\ Head(pending) = pending[1] /\ 1 \in DOMAIN pending
      /\ Head(pending) \in Jobs
  BY <1>1
<1>3. DOMAIN rest = 1 .. Len(pending) - 1 /\ DOMAIN pending = 1 .. Len(pending)
      /\ Len(pending) \in Nat
  BY <1>1
<1>4. \A i \in DOMAIN rest : rest[i] = pending[i + 1]
  BY <1>1
<1> HIDE DEF rest
<1>5. \A i \in DOMAIN rest : i \in Int /\ i + 1 \in DOMAIN pending /\ i + 1 # 1
  BY <1>3
<1>6. \A i \in DOMAIN pending :
        i # 1 => i - 1 \in DOMAIN rest /\ (i - 1) + 1 = i
  BY <1>3
<1>7. Head(pending) \in Waiting
  BY <1>1, <1>2
<1>8. \A i \in DOMAIN rest : rest[i] \in Waiting \ {Head(pending)}
  <2> SUFFICES ASSUME NEW i \in DOMAIN rest
               PROVE  rest[i] \in Waiting /\ rest[i] # Head(pending)
    BY Zenon
  <2>1. i + 1 \in DOMAIN pending /\ i + 1 # 1 /\ rest[i] = pending[i + 1]
    BY <1>4, <1>5
  <2> QED
    BY <1>1, <1>2, <2>1
<1>9. ASSUME NEW j \in Waiting \ {Head(pending)}
      PROVE  \E i \in DOMAIN rest : rest[i] = j
  <2>1. PICK i \in DOMAIN pending : pending[i] = j
    BY <1>1
  <2>2. i - 1 \in DOMAIN rest /\ pending[i] = rest[i - 1]
    BY <1>2, <1>4, <1>6, <2>1
  <2> QED
    BY <2>1, <2>2
<1>10. {rest[i] : i \in DOMAIN rest} = Waiting \ {Head(pending)}
  <2>1. {rest[i] : i \in DOMAIN rest} \subseteq Waiting \ {Head(pending)}
    BY <1>8
  <2>2. Waiting \ {Head(pending)} \subseteq {rest[i] : i \in DOMAIN rest}
    BY <1>9
  <2> QED
    BY <2>1, <2>2
<1>11. \A i, k \in DOMAIN rest : rest[i] = rest[k] => i = k
  <2> SUFFICES ASSUME NEW i \in DOMAIN rest, NEW k \in DOMAIN rest, rest[i] = rest[k]
               PROVE  i = k
    OBVIOUS
  <2>1. i + 1 = k + 1
    BY <1>1, <1>4, <1>5
  <2> QED
    BY <1>5, <2>1
<1> QED
  BY <1>2, <1>7, <1>10, <1>11 DEF rest

\* Giving jobs up gives a result to those without one.
LEMMA GiveUpEffect ==
  ASSUME TypeOK, NEW jobs \in SUBSET Jobs, NEW exit \in {"aborted", "timeout"},
         NEW scope \in Scope \ {"none"}, GiveUp(jobs, exit, scope)
  PROVE  /\ latest' \in [Jobs -> Result] /\ timedOut' \subseteq Jobs
         /\ pending' = <<>> /\ pending' \in Seq(Jobs) /\ Waiting' = {}
         /\ Recorded' = Recorded \cup jobs
         /\ timedOut' = timedOut \cup (jobs \ Recorded)
<1> USE DEF TypeOK, GiveUp
<1>1. \A j \in Jobs : Made(attempts[j], exit, scope, FALSE) \in Result
  BY DispatchAssumption DEF Made, Result, Exit
<1>2. latest' \in [Jobs -> Result]
  BY <1>1
<1>3. \A j \in jobs \ Recorded : latest'[j] = Made(attempts[j], exit, scope, FALSE)
  OBVIOUS
<1>4. \A j \in Jobs : j \in Recorded \/ j \notin jobs => latest'[j] = latest[j]
  OBVIOUS
<1>5. Recorded' = Recorded \cup jobs
  BY <1>3, <1>4 DEF Recorded, Made, Exit
<1>6. Waiting' = {} /\ pending' = <<>> /\ pending' \in Seq(Jobs)
  BY DEF Waiting
<1> QED
  BY <1>2, <1>5, <1>6

\* The result is the one asked for, and no other job's result changes.
LEMMA GiveUpResult ==
  ASSUME TypeOK, NEW jobs, NEW exit, NEW scope, GiveUp(jobs, exit, scope), NEW j \in Jobs
  PROVE  /\ j \in Recorded \/ j \notin jobs => latest'[j] = latest[j]
         /\ j \in jobs \ Recorded => latest'[j].exit = exit /\ latest'[j].scope = scope
<1>1. latest'[j] = IF j \in jobs \ Recorded THEN Made(attempts[j], exit, scope, FALSE)
                   ELSE latest[j]
  BY DEF GiveUp
<1> QED
  BY <1>1 DEF Made

\* A step of a thread of the pool leaves the dispatching thread's data alone.
LEMMA RunOneEffect ==
  ASSUME TypeOK, NEW j \in Jobs, RunOne(j)
  PROVE  /\ UNCHANGED <<width, pc, current, pending, attempts, latest, abort, expired>>
         /\ Futures' = Futures
         /\ \A k \in Jobs \ {j} : /\ thread'[k] = thread[k] /\ outcome'[k] = outcome[k]
                                 /\ executed'[k] = executed[k] /\ (k \in timedOut' <=> k \in timedOut)
         /\ thread[j] \in {"submitted", "running"}
         /\ \/ /\ thread[j] = "submitted" /\ thread'[j] \in {"finished", "running", "raised"}
               /\ UNCHANGED <<executed, timedOut>>
               /\ \/ thread'[j] # "finished" /\ outcome' = outcome
                  \/ /\ thread'[j] = "finished"
                     /\ outcome'[j] = Made(attempts[j], "timeout", "stage", FALSE)
            \/ /\ thread[j] = "running" /\ thread'[j] = "finished"
               /\ \E ended \in Exit : executed'[j] = Append(executed[j], ended)
               /\ outcome'[j].attempt = attempts[j] /\ outcome'[j].exit \in Exit
               /\ j \in timedOut' => \/ j \in timedOut \/ TimedOut(outcome'[j])
                                     \/ executed'[j] = Append(executed[j], "error")
            \/ /\ thread[j] = "running" /\ thread'[j] = "raised"
               /\ executed'[j] = Append(executed[j], "error") /\ outcome' = outcome
         /\ thread' \in [Jobs -> Phase] /\ outcome' \in [Jobs -> Result]
         /\ timedOut' \subseteq Jobs /\ executed' \in [Jobs -> Seq(Exit)]
<1> USE DEF TypeOK
<1>1. CASE StartLate(j)
  <2>1. Made(attempts[j], "timeout", "stage", FALSE) \in Result
    BY DispatchAssumption DEF Made, Result, Exit, Scope
  <2>2. outcome' \in [Jobs -> Result]
        /\ outcome'[j] = Made(attempts[j], "timeout", "stage", FALSE)
        /\ \A k \in Jobs \ {j} : outcome'[k] = outcome[k]
    BY <1>1, <2>1 DEF StartLate
  <2>3. thread' \in [Jobs -> Phase] /\ thread[j] = "submitted" /\ thread'[j] = "finished"
        /\ \A k \in Jobs \ {j} : thread'[k] = thread[k]
    BY <1>1 DEF StartLate, Phase
  <2>4. Futures' = Futures
    BY <2>3 DEF Futures
  <2> QED
    BY <1>1, <2>2, <2>3, <2>4 DEF StartLate
<1>2. CASE Start(j)
  BY <1>2 DEF Start, Futures, Phase
<1>3. CASE StartRaises(j)
  BY <1>3 DEF StartRaises, Futures, Phase
<1>4. ASSUME NEW ended \in Exit, NEW named \in BOOLEAN, Ended(j, ended, named)
      PROVE  /\ UNCHANGED <<width, pc, current, pending, attempts, latest, abort, expired>>
             /\ \A k \in Jobs \ {j} : /\ executed'[k] = executed[k]
                                     /\ (k \in timedOut' <=> k \in timedOut)
             /\ thread[j] = "running"
             /\ executed'[j] = Append(executed[j], ended)
             /\ j \in timedOut' => j \in timedOut \/ named
             /\ timedOut' \subseteq Jobs /\ executed' \in [Jobs -> Seq(Exit)]
  <2>1. Append(executed[j], ended) \in Seq(Exit)
    OBVIOUS
  <2>2. executed' \in [Jobs -> Seq(Exit)] /\ executed'[j] = Append(executed[j], ended)
        /\ \A k \in Jobs \ {j} : executed'[k] = executed[k]
    BY <1>4, <2>1 DEF Ended
  <2> QED
    BY <1>4, <2>2 DEF Ended
<1>5. \A exit \in Exit, scope \in Scope, b \in BOOLEAN :
        /\ Made(attempts[j], exit, scope, b) \in Result
        /\ Made(attempts[j], exit, scope, b).attempt = attempts[j]
        /\ Made(attempts[j], exit, scope, b).exit = exit
        /\ Made(attempts[j], exit, scope, b).scope = scope
  BY DispatchAssumption DEF Made, Result
<1>6. ASSUME Pass(j) \/ FailJob(j) \/ Stopped(j) \/ TimeOut(j) \/ Break(j)
      PROVE  \E ended \in Exit, named \in BOOLEAN, exit \in Exit, scope \in Scope, b \in BOOLEAN :
               /\ End(j, ended, named, Made(attempts[j], exit, scope, b))
               /\ named => scope # "none" \/ ended = "error"
  <2>1. {"ok", "failed", "aborted", "timeout", "error"} \subseteq Exit
        /\ {"none", "stage", "job", "watch"} \subseteq Scope /\ Limits \subseteq {"job", "stage"}
        /\ abort \in BOOLEAN /\ Named \subseteq BOOLEAN
    BY DEF Exit, Scope, Limits, Named
  <2> HIDE DEF TypeOK
  <2>2. CASE Pass(j)
    BY <2>1, <2>2 DEF Pass
  <2>3. CASE FailJob(j) \/ Stopped(j)
    BY <2>1, <2>3 DEF FailJob, Stopped
  <2>4. CASE Break(j)
    <3>1. PICK named \in Named : End(j, "error", named, Made(attempts[j], "error", "none", FALSE))
      BY <2>4 DEF Break
    <3> QED
      BY <2>1, <3>1
  <2>5. CASE TimeOut(j)
    <3>1. PICK scope \in Limits : End(j, "timeout", TRUE, Made(attempts[j], "timeout", scope, TRUE))
      BY <2>5 DEF TimeOut
    <3> QED
      BY <2>1, <3>1
  <2> QED
    BY <1>6, <2>2, <2>3, <2>4, <2>5
<1>7. CASE Pass(j) \/ FailJob(j) \/ Stopped(j) \/ TimeOut(j) \/ Break(j)
  <2>1. PICK ended \in Exit, named \in BOOLEAN, exit \in Exit, scope \in Scope, b \in BOOLEAN :
               /\ End(j, ended, named, Made(attempts[j], exit, scope, b))
               /\ named => scope # "none" \/ ended = "error"
    BY <1>6, <1>7
  <2> DEFINE result == Made(attempts[j], exit, scope, b)
  <2>2. result \in Result /\ result.attempt = attempts[j] /\ result.exit \in Exit
        /\ result.scope = scope
    BY <1>5
  <2>3. End(j, ended, named, result)
    BY <2>1
  <2> HIDE DEF result
  <2>4. /\ thread' = [thread EXCEPT ![j] = "finished"]
        /\ outcome' = [outcome EXCEPT ![j] = result] /\ Ended(j, ended, named)
    BY <2>3 DEF End
  <2>5. /\ Futures' = Futures /\ thread'[j] = "finished" /\ thread' \in [Jobs -> Phase]
        /\ \A k \in Jobs \ {j} : thread'[k] = thread[k]
    BY <1>4, <2>4 DEF Futures, Phase
  <2>6. /\ outcome'[j] = result /\ outcome' \in [Jobs -> Result]
        /\ \A k \in Jobs \ {j} : outcome'[k] = outcome[k]
    BY <2>2, <2>4
  <2>7. j \in timedOut' => \/ j \in timedOut \/ TimedOut(outcome'[j])
                           \/ executed'[j] = Append(executed[j], "error")
    BY <1>4, <2>1, <2>2, <2>4, <2>6 DEF TimedOut
  <2> HIDE DEF TypeOK
  <2> QED
    BY <1>4, <2>2, <2>4, <2>5, <2>6, <2>7
<1>8. CASE BreakRaises(j)
  <2>1. "error" \in Exit /\ Named \subseteq BOOLEAN
    BY DEF Exit, Named
  <2>2. PICK named \in Named : Ended(j, "error", named)
    BY <1>8 DEF BreakRaises
  <2>3. thread' = [thread EXCEPT ![j] = "raised"] /\ outcome' = outcome
    BY <1>8 DEF BreakRaises
  <2>4. /\ Futures' = Futures /\ thread'[j] = "raised" /\ thread' \in [Jobs -> Phase]
        /\ \A k \in Jobs \ {j} : thread'[k] = thread[k]
    BY <1>4, <2>1, <2>2, <2>3 DEF Futures, Phase
  <2> QED
    BY <1>4, <2>1, <2>2, <2>3, <2>4
<1> QED
  BY <1>1, <1>2, <1>3, <1>7, <1>8 DEF RunOne

\* Submitting a job launches it, or gives it up with all that wait.
LEMMA SubmitEffect ==
  ASSUME TypeOK, NEW job \in Jobs, NEW rest \in Seq(Jobs), Submit(job, rest)
  PROVE  \/ /\ thread' = [thread EXCEPT ![job] = "submitted"]
            /\ Futures' = Futures \cup {job}
            /\ pending' = rest
            /\ UNCHANGED <<latest, timedOut>>
         \/ /\ UNCHANGED thread
            /\ \E exit \in {"aborted", "timeout"}, scope \in Scope \ {"none"} :
                  GiveUp({job} \cup Waiting, exit, scope)
<1>1. CASE abort
  BY <1>1, Zenon DEF Submit, Exit, Scope
<1>2. CASE ~abort /\ expired
  BY <1>2, Zenon DEF Submit, Exit, Scope
<1>3. CASE ~abort /\ ~expired
  BY <1>3 DEF Submit, Futures, TypeOK
<1> QED
  BY <1>1, <1>2, <1>3

\* The pool has room for one job at least.
LEMMA RoomForOne == Inv => width \in Nat /\ width > 0
  BY DispatchAssumption DEF Inv, TypeOK

\* Waiting jobs are jobs.
LEMMA WaitingJobs == TypeOK => Waiting \subseteq Jobs
  BY DEF TypeOK, Waiting

\* What adding or removing one future does to their number.
LEMMA OneFuture ==
  ASSUME NEW j
  PROVE  /\ Cardinality(Futures \cup {j}) \in Nat
         /\ Cardinality(Futures \cup {j}) <= Cardinality(Futures) + 1
         /\ Cardinality(Futures \ {j}) \in Nat
         /\ j \in Futures => Cardinality(Futures \ {j}) = Cardinality(Futures) - 1
<1>1. /\ Cardinality(Futures \cup {j}) = IF j \in Futures THEN Cardinality(Futures)
                                         ELSE Cardinality(Futures) + 1
      /\ Cardinality(Futures \ {j}) = IF j \in Futures THEN Cardinality(Futures) - 1
                                      ELSE Cardinality(Futures)
      /\ IsFiniteSet(Futures \ {j})
  BY FuturesFinite, FS_AddElement, FS_RemoveElement, Zenon
<1>2. Cardinality(Futures \ {j}) \in Nat
  BY <1>1, FS_CardinalityType, Zenon
<1> HIDE DEF Futures
<1> QED
  BY <1>1, <1>2, FuturesFinite

\* Giving up all that wait, between two steps of the pool, keeps the parts of
\* the invariant that do not speak of the dispatching thread.
LEMMA GiveUpInv ==
  ASSUME Inv, NEW jobs \in SUBSET Jobs, NEW exit \in {"aborted", "timeout"},
         NEW scope \in Scope \ {"none"}, GiveUp(jobs, exit, scope),
         UNCHANGED <<attempts, thread, outcome, executed>>
  PROVE  /\ latest' \in [Jobs -> Result] /\ timedOut' \subseteq Jobs /\ pending' \in Seq(Jobs)
         /\ Recorded \subseteq Recorded' /\ jobs \subseteq Recorded'
         /\ \A j \in Recorded : latest'[j] = latest[j]
         /\ Futures' = Futures
         /\ Waiting' = {} /\ pending' = <<>>
         /\ Untouched' /\ Counted' /\ Returned'
<1>1. TypeOK
  BY DEF Inv
<1>2. /\ latest' \in [Jobs -> Result] /\ timedOut' \subseteq Jobs
      /\ pending' = <<>> /\ pending' \in Seq(Jobs) /\ Waiting' = {}
      /\ Recorded' = Recorded \cup jobs
  BY <1>1, GiveUpEffect
<1>3. \A j \in Jobs : j \in Recorded \/ j \notin jobs => latest'[j] = latest[j]
  BY <1>1, GiveUpResult
<1>4. \A j \in jobs \ Recorded : latest'[j].exit = exit /\ latest'[j].scope = scope
  BY <1>1, GiveUpResult
<1>5. Futures' = Futures
  BY DEF Futures
<1>6. \A j \in Recorded : latest'[j] = latest[j]
  BY <1>3 DEF Recorded
<1>7. Untouched' /\ Counted'
  BY <1>2 DEF Inv, Untouched, Counted
<1>8. Returned'
  <2> SUFFICES ASSUME NEW j \in Jobs
               PROVE  /\ thread'[j] = "finished" => /\ outcome'[j].exit # "none"
                                                    /\ outcome'[j].attempt = attempts'[j]
                      /\ outcome'[j].exit = "ok" => executed'[j] # <<>>
                      /\ latest'[j].exit = "ok" => executed'[j] # <<>>
    BY Zenon DEF Returned
  <2>1. latest'[j].exit = "ok" => latest[j].exit = "ok"
    <3>1. CASE j \in jobs \ Recorded
      BY <1>4, <3>1
    <3>2. CASE j \in Recorded \/ j \notin jobs
      BY <1>3, <3>2
    <3> QED
      BY <3>1, <3>2
  <2> QED
    BY <2>1 DEF Inv, Returned
<1> QED
  BY <1>2, <1>5, <1>6, <1>7, <1>8

-----------------------------------------------------------------------------
(* Each step keeps the invariant                                            *)

\* Submitting the first waiting job, or leaving the refill loop, keeps Inv.
LEMMA FillInv == Inv /\ Fill => Inv'
<1> SUFFICES ASSUME Inv, Fill PROVE Inv'
  OBVIOUS
<1> USE DEF Inv
<1>1. UNCHANGED <<width, current, attempts, outcome, abort, expired, executed>> /\ pc = "fill"
  BY DEF Fill
<1>2. CASE pending # <<>> /\ Cardinality(Futures) < width
  <2> DEFINE job == Head(pending)
             rest == Tail(pending)
  <2>1. Submit(job, rest) /\ UNCHANGED pc
    BY <1>2 DEF Fill
  <2>2. /\ job \in Jobs /\ job \in Waiting /\ rest \in Seq(Jobs)
        /\ {rest[i] : i \in DOMAIN rest} = Waiting \ {job}
        /\ \A i, k \in DOMAIN rest : rest[i] = rest[k] => i = k
    BY <1>2, FirstWaiting
  <2> HIDE DEF job, rest
  <2>3. CASE /\ thread' = [thread EXCEPT ![job] = "submitted"]
             /\ Futures' = Futures \cup {job}
             /\ pending' = rest
             /\ UNCHANGED <<latest, timedOut>>
    <3>1. Waiting' = Waiting \ {job} /\ Recorded' = Recorded
      BY <1>1, <2>2, <2>3 DEF Waiting, Recorded
    <3>2. TypeOK'
      BY <1>1, <2>1, <2>2, <2>3 DEF TypeOK, Phase
    <3>3. Placed' /\ Untouched'
      BY <1>1, <2>1, <2>2, <2>3, <3>1, WaitingJobs DEF Placed, Untouched, TypeOK
    <3>4. Room'
      <4>1. /\ Cardinality(Futures \cup {job}) \in Nat
            /\ Cardinality(Futures \cup {job}) <= Cardinality(Futures) + 1
        BY OneFuture
      <4> QED
        BY <1>1, <1>2, <2>1, <2>3, <4>1, FuturesFinite, RoomForOne DEF Room
    <3>5. Drained' /\ InHand' /\ Returned'
      BY <1>1, <2>1, <2>2, <2>3 DEF Drained, InHand, Returned, TypeOK
    <3>6. Counted'
      BY <1>1, <2>2, <2>3 DEF Counted, Untouched, TypeOK
    <3> QED
      BY <3>2, <3>3, <3>4, <3>5, <3>6
  <2>4. CASE /\ UNCHANGED thread
             /\ \E exit \in {"aborted", "timeout"}, scope \in Scope \ {"none"} :
                   GiveUp({job} \cup Waiting, exit, scope)
    <3>1. PICK exit \in {"aborted", "timeout"}, scope \in Scope \ {"none"} :
            GiveUp({job} \cup Waiting, exit, scope)
      BY <2>4
    <3>2. {job} \cup Waiting \in SUBSET Jobs
      BY <2>2, WaitingJobs
    <3>3. /\ latest' \in [Jobs -> Result] /\ timedOut' \subseteq Jobs /\ pending' \in Seq(Jobs)
          /\ Recorded \subseteq Recorded' /\ Waiting \subseteq Recorded'
          /\ Futures' = Futures
          /\ Untouched' /\ Counted' /\ Returned'
      <4> DEFINE jobs == {job} \cup Waiting
      <4>1. jobs \in SUBSET Jobs /\ Waiting \subseteq jobs /\ GiveUp(jobs, exit, scope)
        BY <3>1, <3>2
      <4> HIDE DEF jobs, Inv
      <4>2. Waiting \subseteq jobs /\ jobs \subseteq Recorded'
        BY <1>1, <2>4, <4>1, GiveUpInv
      <4> QED
        BY <1>1, <2>4, <4>1, <4>2, GiveUpInv
    <3>4. TypeOK' /\ Placed' /\ Drained'
      BY <1>1, <2>1, <2>4, <3>3 DEF TypeOK, Placed, Drained
    <3>5. Room' /\ InHand'
      BY <1>1, <2>1, <2>4, <3>3 DEF Room, InHand
    <3> QED
      BY <3>3, <3>4, <3>5
  <2> QED
    BY <2>1, <2>2, <2>3, <2>4, SubmitEffect
<1>3. CASE ~(pending # <<>> /\ Cardinality(Futures) < width)
  <2>1. pc' = IF Futures = {} THEN "finish" ELSE "wait"
    BY <1>3 DEF Fill, Goto
  <2>2. UNCHANGED <<pending, thread, latest, timedOut>>
    BY <1>3 DEF Fill
  <2>3. Waiting' = Waiting /\ Futures' = Futures /\ Recorded' = Recorded
    BY <2>2 DEF Waiting, Futures, Recorded
  <2>4. Futures = {} => pending = <<>>
    BY <1>3, FS_EmptySet, RoomForOne
  <2> QED
    BY <1>1, <2>1, <2>2, <2>3, <2>4
    DEF TypeOK, Placed, Untouched, Drained, Room, InHand, Counted, Returned
<1> QED
  BY <1>2, <1>3

\* Taking a finished future keeps Inv: the job is in hand and the pool has room.
LEMMA CollectInv ==
  ASSUME Inv, NEW j \in Jobs, Collect(j)
  PROVE  Inv'
<1> USE DEF Inv
<1>1. /\ UNCHANGED <<width, pending, attempts, outcome, abort, expired, executed>>
      /\ pc = "wait" /\ pc' = "decide" /\ current' = j
      /\ thread[j] = "finished" /\ thread' = [thread EXCEPT ![j] = "none"]
      /\ latest' = [latest EXCEPT ![j] = outcome[j]]
      /\ timedOut' \subseteq timedOut \cup {j}
  BY DEF Collect, Goto
<1>2. outcome[j] \in Result /\ outcome[j].exit # "none" /\ outcome[j].attempt = attempts[j]
  BY <1>1 DEF Returned, TypeOK
<1>3. TypeOK'
  BY <1>1, <1>2 DEF TypeOK, Phase
<1>4. /\ Waiting' = Waiting /\ Futures' = Futures \ {j} /\ Recorded' = Recorded \cup {j}
      /\ j \in Futures
  BY <1>1, <1>2 DEF Waiting, Futures, Recorded, TypeOK
<1>5. Cardinality(Futures') < width
  <2>1. Cardinality(Futures \ {j}) < width
    BY <1>4, OneFuture, FuturesFinite, RoomForOne DEF Room
  <2> QED
    BY <1>4, <2>1
<1>6. Room' /\ Placed' /\ Drained'
  <2>1. Cardinality(Futures') \in Nat
    BY <1>4, OneFuture
  <2>2. Room'
    BY <1>1, <1>5, <2>1, RoomForOne DEF Room
  <2> QED
    BY <1>1, <1>4, <2>2 DEF Placed, Drained
<1>7. Untouched'
  BY <1>1, <1>4, WaitingJobs DEF Untouched, TypeOK
<1>8. InHand' /\ Counted'
  BY <1>1, <1>2, <1>4 DEF InHand, Counted, TypeOK
<1>9. Returned'
  BY <1>1, <1>2 DEF Returned, TypeOK
<1> QED
  BY <1>3, <1>6, <1>7, <1>8, <1>9

\* Deciding on a retry, or giving up on an abort, keeps Inv.
LEMMA SettleInv == Inv /\ Settle => Inv'
<1> SUFFICES ASSUME Inv, Settle PROVE Inv'
  OBVIOUS
<1>1. /\ UNCHANGED <<width, current, thread, outcome, abort, expired, executed>>
      /\ pc = "decide"
      /\ Futures' = Futures
  BY DEF Settle, Futures
<1>2. CASE GiveUp(Waiting, "aborted", "watch") /\ Goto("deadline") /\ UNCHANGED attempts
  <2>1. Waiting \in SUBSET Jobs
    BY WaitingJobs DEF Inv
  <2>2. "watch" \in Scope \ {"none"} /\ "aborted" \in {"aborted", "timeout"}
    BY DEF Scope
  <2>3. /\ latest' \in [Jobs -> Result] /\ timedOut' \subseteq Jobs /\ pending' \in Seq(Jobs)
        /\ Recorded \subseteq Recorded' /\ Waiting \subseteq Recorded'
        /\ Untouched' /\ Counted' /\ Returned'
    BY <1>1, <1>2, <2>1, <2>2, GiveUpInv
  <2>4. TypeOK' /\ Placed' /\ Drained'
    BY <1>1, <1>2, <2>3 DEF Inv, TypeOK, Placed, Drained, Goto
  <2>5. Room' /\ InHand'
    BY <1>1, <1>2 DEF Inv, Room, InHand, Goto
  <2> QED
    BY <2>3, <2>4, <2>5 DEF Inv
<1>3. CASE /\ ~abort /\ Retryable(latest[current])
           /\ attempts' = [attempts EXCEPT ![current] = latest[current].attempt + 1]
           /\ Goto("resubmit")
           /\ UNCHANGED <<pending, latest, timedOut>>
  <2> USE DEF Inv
  <2>1. /\ current \in Recorded /\ current \in Jobs /\ thread[current] = "none"
        /\ latest[current].attempt = attempts[current] /\ attempts[current] < MaxRetries
    BY <1>1, <1>3 DEF InHand, Recorded, Retryable
  <2>2. attempts' = [attempts EXCEPT ![current] = attempts[current] + 1] /\ pc' = "resubmit"
    BY <1>3, <2>1 DEF Goto
  <2>3. attempts[current] \in 0 .. MaxRetries /\ attempts[current] + 1 \in 0 .. MaxRetries
    BY <2>1, DispatchAssumption DEF TypeOK
  <2>4. TypeOK'
    BY <1>1, <1>3, <2>2, <2>3 DEF TypeOK
  <2>5. Waiting' = Waiting /\ Recorded' = Recorded
    BY <1>3 DEF Waiting, Recorded
  <2>6. Placed' /\ Drained' /\ Room'
    BY <1>1, <1>3, <2>2, <2>5 DEF Placed, Drained, Room
  <2>7. Untouched'
    BY <1>1, <1>3, <2>1, <2>2, <2>5, WaitingJobs DEF Untouched, TypeOK
  <2>8. InHand' /\ Counted'
    BY <1>1, <1>3, <2>1, <2>2, <2>3, <2>5 DEF InHand, Counted, TypeOK
  <2>9. Returned'
    BY <1>1, <1>3, <2>1, <2>2 DEF Returned, TypeOK
  <2> QED
    BY <2>4, <2>6, <2>7, <2>8, <2>9
<1>4. CASE Goto("deadline") /\ UNCHANGED <<pending, attempts, latest, timedOut>>
  <2>1. Waiting' = Waiting /\ Recorded' = Recorded
    BY <1>4 DEF Waiting, Recorded
  <2> QED
    BY <1>1, <1>4, <2>1
    DEF Inv, TypeOK, Placed, Untouched, Drained, Room, InHand, Counted, Returned, Goto
<1> QED
  BY <1>2, <1>3, <1>4 DEF Settle

\* Submitting a retry keeps Inv: the room is the one its future left.
LEMMA ResubmitInv == Inv /\ Resubmit => Inv'
<1> SUFFICES ASSUME Inv, Resubmit PROVE Inv'
  OBVIOUS
<1>1. /\ UNCHANGED <<width, current, attempts, outcome, abort, expired, executed>>
      /\ pc = "resubmit" /\ pc' = "deadline" /\ Submit(current, pending)
  BY DEF Resubmit, Goto
<1>2. /\ current \in Recorded /\ current \in Jobs /\ current \notin Waiting
      /\ Len(executed[current]) <= attempts[current]
  BY <1>1 DEF Inv, InHand, Recorded, Untouched
<1>3. TypeOK /\ pending \in Seq(Jobs)
  BY DEF Inv, TypeOK
<1>4. CASE /\ thread' = [thread EXCEPT ![current] = "submitted"]
           /\ Futures' = Futures \cup {current}
           /\ pending' = pending
           /\ UNCHANGED <<latest, timedOut>>
  <2> USE DEF Inv
  <2>1. Waiting' = Waiting /\ Recorded' = Recorded
    BY <1>4 DEF Waiting, Recorded
  <2>2. TypeOK'
    BY <1>1, <1>2, <1>4 DEF TypeOK, Phase
  <2>3. Placed' /\ Untouched' /\ Drained' /\ InHand'
    BY <1>1, <1>2, <1>4, <2>1, WaitingJobs DEF Placed, Untouched, Drained, InHand, TypeOK
  <2>4. Room'
    <3>1. /\ Cardinality(Futures \cup {current}) \in Nat
          /\ Cardinality(Futures \cup {current}) <= Cardinality(Futures) + 1
      BY OneFuture
    <3> QED
      BY <1>1, <1>4, <3>1, FuturesFinite, RoomForOne DEF Room
  <2>5. Counted' /\ Returned'
    BY <1>1, <1>2, <1>4 DEF Counted, Returned, TypeOK
  <2> QED
    BY <2>2, <2>3, <2>4, <2>5
<1>5. CASE /\ UNCHANGED thread
           /\ \E exit \in {"aborted", "timeout"}, scope \in Scope \ {"none"} :
                 GiveUp({current} \cup Waiting, exit, scope)
  <2> DEFINE jobs == {current} \cup Waiting
  <2>1. PICK exit \in {"aborted", "timeout"}, scope \in Scope \ {"none"} :
          GiveUp(jobs, exit, scope)
    BY <1>5
  <2>2. jobs \in SUBSET Jobs /\ Waiting \subseteq jobs
    BY <1>2, <1>3, WaitingJobs
  <2> HIDE DEF jobs
  <2>3. jobs \subseteq Recorded'
    BY <1>1, <1>5, <2>1, <2>2, GiveUpInv
  <2>4. /\ latest' \in [Jobs -> Result] /\ timedOut' \subseteq Jobs /\ pending' \in Seq(Jobs)
        /\ Recorded \subseteq Recorded' /\ Waiting \subseteq Recorded'
        /\ Futures' = Futures
        /\ Untouched' /\ Counted' /\ Returned'
    BY <1>1, <1>5, <2>1, <2>2, <2>3, GiveUpInv
  <2>5. TypeOK' /\ Placed' /\ Drained'
    BY <1>1, <1>5, <2>4 DEF Inv, TypeOK, Placed, Drained
  <2>6. Room' /\ InHand'
    BY <1>1, <2>4 DEF Inv, Room, InHand
  <2> QED
    BY <2>4, <2>5, <2>6 DEF Inv
<1> QED
  BY <1>1, <1>2, <1>3, <1>4, <1>5, SubmitEffect

\* Looking at the deadline after a result keeps Inv.
LEMMA DeadlineInv == Inv /\ CheckDeadline => Inv'
<1> SUFFICES ASSUME Inv, CheckDeadline PROVE Inv'
  OBVIOUS
<1>1. /\ UNCHANGED <<width, attempts, thread, outcome, abort, expired, executed>>
      /\ pc = "deadline" /\ pc' = "fill" /\ current' = NoJob /\ Futures' = Futures
  BY DEF CheckDeadline, Goto, Futures
<1>2. CASE expired
  <2>1. Waiting \in SUBSET Jobs /\ GiveUp(Waiting, "timeout", "stage")
    BY <1>2, WaitingJobs DEF Inv, CheckDeadline
  <2>2. "stage" \in Scope \ {"none"} /\ "timeout" \in {"aborted", "timeout"}
    BY DEF Scope
  <2>3. /\ latest' \in [Jobs -> Result] /\ timedOut' \subseteq Jobs /\ pending' \in Seq(Jobs)
        /\ Recorded \subseteq Recorded' /\ Waiting \subseteq Recorded'
        /\ Untouched' /\ Counted' /\ Returned'
    BY <1>1, <2>1, <2>2, GiveUpInv
  <2>4. TypeOK' /\ Placed' /\ Drained'
    BY <1>1, <2>3 DEF Inv, TypeOK, Placed, Drained
  <2>5. Room' /\ InHand'
    BY <1>1 DEF Inv, Room, InHand
  <2> QED
    BY <2>3, <2>4, <2>5 DEF Inv
<1>3. CASE ~expired
  <2>1. UNCHANGED <<pending, latest, timedOut>>
    BY <1>3 DEF CheckDeadline
  <2>2. Waiting' = Waiting /\ Recorded' = Recorded
    BY <2>1 DEF Waiting, Recorded
  <2> QED
    BY <1>1, <2>1, <2>2
    DEF Inv, TypeOK, Placed, Untouched, Drained, Room, InHand, Counted, Returned
<1> QED
  BY <1>2, <1>3

\* Taking a future that raised keeps Inv.
LEMMA CollectRaisedInv ==
  ASSUME Inv, NEW j \in Jobs, CollectRaised(j)
  PROVE  Inv'
<1> USE DEF Inv
<1>1. /\ UNCHANGED <<width, current, pending, attempts, outcome, latest, timedOut, abort,
                     expired, executed>>
      /\ pc = "wait" /\ pc' = "unwind"
      /\ thread[j] = "raised" /\ thread' = [thread EXCEPT ![j] = "none"]
  BY DEF CollectRaised, Goto
<1>2. TypeOK'
  BY <1>1 DEF TypeOK, Phase
<1>3. /\ Waiting' = Waiting /\ Futures' = Futures \ {j} /\ Recorded' = Recorded /\ j \in Futures
  BY <1>1 DEF Waiting, Futures, Recorded, TypeOK
<1>4. Room'
  <2>1. /\ Cardinality(Futures \ {j}) \in Nat
        /\ Cardinality(Futures \ {j}) = Cardinality(Futures) - 1
    BY <1>3, OneFuture
  <2> QED
    BY <1>1, <1>3, <2>1, FuturesFinite, RoomForOne DEF Room
<1>5. Placed' /\ Drained' /\ InHand'
  BY <1>1 DEF Placed, Drained, InHand
<1>6. Untouched' /\ Counted' /\ Returned'
  BY <1>1, <1>3, WaitingJobs DEF Untouched, Counted, Returned, TypeOK
<1> QED
  BY <1>2, <1>4, <1>5, <1>6

\* A step of a thread of the pool keeps Inv.
LEMMA RunOneInv ==
  ASSUME Inv, NEW j \in Jobs, RunOne(j)
  PROVE  Inv'
<1>1. TypeOK
  BY DEF Inv
<1>2. /\ UNCHANGED <<width, pc, current, pending, attempts, latest, abort, expired>>
      /\ Futures' = Futures
      /\ thread[j] \in {"submitted", "running"}
      /\ \A k \in Jobs \ {j} : /\ thread'[k] = thread[k] /\ outcome'[k] = outcome[k]
                              /\ executed'[k] = executed[k]
  BY <1>1, RunOneEffect
<1>3. /\ thread' \in [Jobs -> Phase] /\ outcome' \in [Jobs -> Result]
      /\ timedOut' \subseteq Jobs /\ executed' \in [Jobs -> Seq(Exit)]
  BY <1>1, RunOneEffect
<1>4. \/ /\ thread[j] = "submitted" /\ thread'[j] \in {"finished", "running", "raised"}
         /\ executed' = executed
         /\ \/ thread'[j] # "finished" /\ outcome' = outcome
            \/ outcome'[j] = Made(attempts[j], "timeout", "stage", FALSE)
      \/ /\ thread[j] = "running" /\ thread'[j] \in {"finished", "raised"}
         /\ \E ended \in Exit : executed'[j] = Append(executed[j], ended)
         /\ \/ outcome'[j].attempt = attempts[j] /\ outcome'[j].exit \in Exit
            \/ thread'[j] = "raised" /\ outcome' = outcome
  <2>1. "error" \in Exit
    BY DEF Exit
  <2> QED
    BY <1>1, <2>1, RunOneEffect, Zenon
<1>5. TypeOK'
  BY <1>2, <1>3, <1>1 DEF TypeOK
<1>6. Waiting' = Waiting /\ Recorded' = Recorded
  BY <1>2 DEF Waiting, Recorded
<1>7. Placed' /\ Drained' /\ Room'
  BY <1>2, <1>6 DEF Inv, Placed, Drained, Room
<1>8. j \notin Waiting /\ ~(pc \in {"decide", "resubmit"} /\ current = j)
  BY <1>2 DEF Inv, Untouched, InHand
<1>9. Untouched' /\ InHand'
  BY <1>2, <1>6, <1>8, WaitingJobs DEF Inv, Untouched, InHand, Recorded
<1>10. /\ Len(executed'[j]) <= attempts[j] + 1
       /\ thread'[j] \in {"submitted", "running"} => Len(executed'[j]) <= attempts[j]
  <2>1. executed[j] \in Seq(Exit) /\ attempts[j] \in Nat
    BY <1>1, DispatchAssumption DEF TypeOK
  <2>2. /\ Len(executed[j]) <= attempts[j] + 1
        /\ thread[j] \in {"submitted", "running"} => Len(executed[j]) <= attempts[j]
    BY DEF Inv, Counted
  <2>3. CASE thread[j] = "submitted" /\ executed' = executed
    BY <2>2, <2>3
  <2>4. CASE /\ thread[j] = "running" /\ thread'[j] \in {"finished", "raised"}
             /\ \E ended \in Exit : executed'[j] = Append(executed[j], ended)
    <3>1. Len(executed'[j]) = Len(executed[j]) + 1
      BY <2>1, <2>4
    <3> QED
      BY <2>1, <2>2, <2>4, <3>1
  <2> QED
    BY <1>4, <2>3, <2>4
<1>11. Counted'
  BY <1>2, <1>10 DEF Inv, Counted
<1>12. /\ thread'[j] = "finished" => outcome'[j].exit # "none" /\ outcome'[j].attempt = attempts[j]
       /\ outcome'[j].exit = "ok" => executed'[j] # <<>>
       /\ latest[j].exit = "ok" => executed'[j] # <<>>
  <2>1. executed[j] \in Seq(Exit) /\ "none" \notin Exit
    BY <1>1 DEF TypeOK, Exit
  <2>2. /\ outcome[j].exit = "ok" => executed[j] # <<>>
        /\ latest[j].exit = "ok" => executed[j] # <<>>
    BY DEF Inv, Returned
  <2>3. CASE thread[j] = "submitted"
    BY <1>4, <2>2, <2>3 DEF Made
  <2>4. CASE thread[j] = "running"
    <3>1. executed'[j] # <<>>
      BY <1>4, <2>1, <2>4
    <3> QED
      BY <1>4, <2>1, <2>4, <3>1
  <2> QED
    BY <1>2, <2>3, <2>4
<1>13. Returned'
  BY <1>2, <1>12 DEF Inv, Returned
<1> QED
  BY <1>5, <1>7, <1>9, <1>11, <1>13 DEF Inv

\* The jobs of a part of a queue are among those that wait or have a result.
LEMMA PartGivenUp ==
  ASSUME NEW queue, NEW exit, NEW scope, GiveUpRaises(queue, exit, scope),
         DOMAIN queue = 1 .. Len(queue), Len(queue) \in Nat,
         NEW W \in SUBSET Jobs, \A i \in DOMAIN queue : queue[i] \in W
  PROVE  \E jobs \in SUBSET W : GiveUp(jobs, exit, scope)
<1>1. PICK n \in DOMAIN queue : GiveUp({queue[i] : i \in 1 .. n - 1}, exit, scope)
  BY DEF GiveUpRaises
<1>2. \A i \in 1 .. n - 1 : i \in DOMAIN queue
  OBVIOUS
<1>3. {queue[i] : i \in 1 .. n - 1} \in SUBSET W
  BY <1>2
<1> QED
  BY <1>1, <1>3

\* When an event of the dispatching thread fails, some of the jobs that wait are
\* given up, or a retry has been announced; nothing else has changed.
LEMMA DispatchRaisesEffect ==
  ASSUME Inv, DispatchRaises
  PROVE  /\ UNCHANGED <<width, current, thread, outcome, abort, expired, executed>>
         /\ pc' = "unwind" /\ pc \in {"fill", "decide", "resubmit", "deadline"}
         /\ \/ /\ UNCHANGED attempts
               /\ \E jobs \in SUBSET Jobs, exit \in {"aborted", "timeout"},
                     scope \in Scope \ {"none"} :
                    /\ GiveUp(jobs, exit, scope)
                    /\ \A j \in jobs : j \in Waiting \/ j \in Recorded
            \/ /\ pc = "decide" /\ Retryable(latest[current])
               /\ attempts' = [attempts EXCEPT ![current] = latest[current].attempt + 1]
               /\ UNCHANGED <<pending, latest, timedOut>>
<1>1. /\ UNCHANGED <<width, current, thread, outcome, abort, expired, executed>>
      /\ pc' = "unwind" /\ pc \in {"fill", "decide", "resubmit", "deadline"}
  BY DEF DispatchRaises, Goto
<1>2. TypeOK /\ pending \in Seq(Jobs) /\ Waiting \subseteq Jobs
  BY WaitingJobs DEF Inv, TypeOK
<1>3. {"watch", "stage"} \subseteq Scope \ {"none"}
  BY DEF Scope
<1>4. DOMAIN pending = 1 .. Len(pending) /\ Len(pending) \in Nat
      /\ \A i \in DOMAIN pending : pending[i] \in Waiting
  BY <1>2 DEF Waiting
<1>5. ASSUME NEW exit \in {"aborted", "timeout"}, NEW scope \in {"watch", "stage"},
             GiveUpRaises(pending, exit, scope)
      PROVE  \E jobs \in SUBSET Jobs : /\ GiveUp(jobs, exit, scope)
                                       /\ \A j \in jobs : j \in Waiting \/ j \in Recorded
  <2>1. PICK jobs \in SUBSET Waiting : GiveUp(jobs, exit, scope)
    BY <1>2, <1>4, <1>5, PartGivenUp
  <2> QED
    BY <1>2, <2>1
<1>6. ASSUME pc = "resubmit", NEW exit \in {"aborted", "timeout"},
             NEW scope \in {"watch", "stage"}, GiveUpRaises(<<current>> \o pending, exit, scope)
      PROVE  \E jobs \in SUBSET Jobs : /\ GiveUp(jobs, exit, scope)
                                       /\ \A j \in jobs : j \in Waiting \/ j \in Recorded
  <2> DEFINE queue == <<current>> \o pending
             W == {current} \cup Waiting
  <2>1. current \in Recorded /\ current \in Jobs
    BY <1>6 DEF Inv, InHand, Recorded
  <2>2. queue \in Seq(Jobs) /\ DOMAIN queue = 1 .. Len(queue) /\ Len(queue) \in Nat
    BY <1>2, <2>1
  <2>3. ASSUME NEW i \in DOMAIN queue PROVE queue[i] \in W
    <3>1. Len(queue) = Len(pending) + 1
      BY <1>2, <2>1
    <3>2. queue[i] = IF i = 1 THEN current ELSE pending[i - 1]
      BY <1>2, <2>1, <2>2
    <3>3. i # 1 => i - 1 \in DOMAIN pending
      BY <1>4, <2>2, <3>1
    <3> QED
      BY <1>4, <3>2, <3>3
  <2>4. W \in SUBSET Jobs
    BY <1>2, <2>1
  <2>5. GiveUpRaises(queue, exit, scope)
    BY <1>6
  <2> HIDE DEF queue, W
  <2>6. PICK jobs \in SUBSET W : GiveUp(jobs, exit, scope)
    BY <2>2, <2>3, <2>4, <2>5, PartGivenUp
  <2> QED
    BY <2>1, <2>4, <2>6 DEF W
<1> HIDE DEF Inv
<1>7. \/ /\ UNCHANGED attempts
         /\ \E exit \in {"aborted", "timeout"}, scope \in {"watch", "stage"} :
              \/ GiveUpRaises(pending, exit, scope)
              \/ pc = "resubmit" /\ GiveUpRaises(<<current>> \o pending, exit, scope)
      \/ /\ pc = "decide" /\ Retryable(latest[current])
         /\ attempts' = [attempts EXCEPT ![current] = latest[current].attempt + 1]
         /\ UNCHANGED <<pending, latest, timedOut>>
  BY DEF DispatchRaises, SubmitRaises
<1> QED
  BY <1>1, <1>3, <1>5, <1>6, <1>7

\* A failed event of the dispatching thread keeps Inv.
LEMMA DispatchRaisesInv == Inv /\ DispatchRaises => Inv'
<1> SUFFICES ASSUME Inv, DispatchRaises PROVE Inv'
  OBVIOUS
<1>1. /\ UNCHANGED <<width, current, thread, outcome, abort, expired, executed>>
      /\ pc' = "unwind" /\ Futures' = Futures
  BY DispatchRaisesEffect DEF Futures
<1>2. Placed' /\ Drained' /\ Room' /\ InHand'
  BY <1>1 DEF Inv, Placed, Drained, Room, InHand
<1>3. ASSUME UNCHANGED attempts, NEW jobs \in SUBSET Jobs, NEW exit \in {"aborted", "timeout"},
             NEW scope \in Scope \ {"none"}, GiveUp(jobs, exit, scope)
      PROVE  Inv'
  <2>1. /\ latest' \in [Jobs -> Result] /\ timedOut' \subseteq Jobs /\ pending' \in Seq(Jobs)
        /\ Untouched' /\ Counted' /\ Returned'
    BY <1>1, <1>3, GiveUpInv
  <2>2. TypeOK'
    BY <1>1, <1>3, <2>1 DEF Inv, TypeOK
  <2> QED
    BY <1>2, <2>1, <2>2 DEF Inv
<1>4. ASSUME pc = "decide", Retryable(latest[current]),
             attempts' = [attempts EXCEPT ![current] = latest[current].attempt + 1],
             UNCHANGED <<pending, latest, timedOut>>
      PROVE  Inv'
  <2> USE DEF Inv
  <2>1. /\ current \in Recorded /\ current \in Jobs /\ thread[current] = "none"
        /\ latest[current].attempt = attempts[current] /\ attempts[current] < MaxRetries
    BY <1>4 DEF InHand, Recorded, Retryable
  <2>2. attempts[current] \in 0 .. MaxRetries /\ attempts[current] + 1 \in 0 .. MaxRetries
    BY <2>1, DispatchAssumption DEF TypeOK
  <2>3. TypeOK'
    BY <1>1, <1>4, <2>1, <2>2 DEF TypeOK
  <2>4. Waiting' = Waiting /\ Recorded' = Recorded
    BY <1>4 DEF Waiting, Recorded
  <2>5. Untouched'
    BY <1>1, <1>4, <2>1, <2>4, WaitingJobs DEF Untouched, TypeOK
  <2>6. Counted' /\ Returned'
    BY <1>1, <1>4, <2>1, <2>2 DEF Counted, Returned, TypeOK
  <2> QED
    BY <1>2, <2>3, <2>5, <2>6
<1> QED
  BY <1>3, <1>4, DispatchRaisesEffect

\* The end of run_jobs, the clock and the watch keep Inv.
LEMMA OtherInv ==
  ASSUME Inv, Unwind \/ Finish \/ DeadlinePasses \/ AbortRequested \/ UNCHANGED vars
  PROVE  Inv'
<1>1. UNCHANGED <<width, current, pending, attempts, thread, outcome, latest, timedOut,
                  executed>>
  BY DEF Unwind, Finish, DeadlinePasses, AbortRequested, vars
<1>2. {abort', expired'} \subseteq BOOLEAN
  BY DispatchAssumption DEF Inv, TypeOK, Unwind, Finish, DeadlinePasses, AbortRequested, vars
<1>3. pc' = pc \/ (pc = "unwind" /\ pc' = "raised") \/ (pc = "finish" /\ pc' \in {"done", "raised"})
  BY DEF Unwind, Finish, DeadlinePasses, AbortRequested, Goto, vars
<1>4. Waiting' = Waiting /\ Recorded' = Recorded /\ Futures' = Futures
  BY <1>1 DEF Waiting, Recorded, Futures
<1> QED
  BY <1>1, <1>2, <1>3, <1>4
  DEF Inv, TypeOK, Placed, Untouched, Drained, Room, InHand, Counted, Returned

\* Inv holds at first.
LEMMA InitInv == Init => Inv
<1> SUFFICES ASSUME Init PROVE Inv
  OBVIOUS
<1>1. /\ pc = "fill" /\ current = NoJob /\ pending = Plan
      /\ attempts = [j \in Jobs |-> 0] /\ thread = [j \in Jobs |-> "none"]
      /\ outcome = [j \in Jobs |-> NoResult] /\ latest = [j \in Jobs |-> NoResult]
      /\ timedOut = {} /\ abort = FALSE /\ expired = FALSE
      /\ executed = [j \in Jobs |-> <<>>] /\ width \in 1 .. MaxWorkers
  BY DEF Init
<1>2. NoResult \in Result /\ NoResult.exit = "none"
  BY DEF NoResult, Result, Exit, Scope
<1>3. TypeOK
  <2>1. pending \in Seq(Jobs) /\ attempts \in [Jobs -> 0 .. MaxRetries]
    BY <1>1, DispatchAssumption
  <2>2. executed \in [Jobs -> Seq(Exit)] /\ thread \in [Jobs -> Phase]
    BY <1>1 DEF Phase
  <2> QED
    BY <1>1, <1>2, <2>1, <2>2 DEF TypeOK
<1>4. Futures = {} /\ Recorded = {} /\ Cardinality(Futures) = 0
  BY <1>1, <1>2, FS_EmptySet DEF Futures, Recorded
<1>5. Placed /\ Untouched
  BY <1>1, <1>4, DispatchAssumption DEF Placed, Untouched, Waiting
<1>6. Drained /\ Room /\ InHand
  BY <1>1, <1>4, DispatchAssumption DEF Drained, Room, InHand
<1>7. Counted /\ Returned
  BY <1>1, <1>2 DEF Counted, Returned
<1> QED
  BY <1>3, <1>5, <1>6, <1>7 DEF Inv

\* Inv is an invariant.
THEOREM InvHolds == Spec => []Inv
<1>1. Inv /\ [Next]_vars => Inv'
  <2> SUFFICES ASSUME Inv, [Next]_vars PROVE Inv'
    OBVIOUS
  <2>1. CASE Dispatch
    BY <2>1, FillInv, CollectInv, CollectRaisedInv, SettleInv, ResubmitInv, DeadlineInv,
       DispatchRaisesInv, OtherInv
    DEF Dispatch
  <2>2. CASE \E j \in Jobs : RunOne(j)
    BY <2>2, RunOneInv
  <2>3. CASE DeadlinePasses \/ AbortRequested \/ UNCHANGED vars
    BY <2>3, OtherInv
  <2> QED
    BY <2>1, <2>2, <2>3 DEF Next, Terminated
<1> QED
  BY <1>1, InitInv, PTL DEF Spec

-----------------------------------------------------------------------------
(* What follows from the invariant                                          *)

\* The variables have their types whatever the plan; in particular no job is
\* announced for more than MaxRetries retries (run_jobs: attempt < max_retries).
THEOREM DispatchTyped == Spec => []TypeOK
  BY InvHolds, PTL DEF Inv

\* run_jobs returns a result for every job of the plan, whatever the plan, the
\* number of workers, and the moment of a time-out or an abort.
THEOREM EveryJobReportedHolds == Spec => []EveryJobReported
<1>1. Inv => EveryJobReported
  BY DEF Inv, Placed, Drained, EveryJobReported, Waiting, Recorded, TypeOK
<1> QED
  BY <1>1, InvHolds, PTL

-----------------------------------------------------------------------------
(* The set of timed-out jobs                                                *)

\* Giving up jobs that are not in the pool keeps the set right.
LEMMA GiveUpTimedOut ==
  ASSUME Inv, TimedOutInv, NEW jobs \in SUBSET Jobs, NEW exit \in {"aborted", "timeout"},
         NEW scope \in Scope \ {"none"}, GiveUp(jobs, exit, scope),
         \A j \in jobs \ Recorded : thread[j] = "none",
         UNCHANGED <<thread, outcome, executed>>, pc' # "resubmit"
  PROVE  TimedOutInv'
<1>1. TypeOK
  BY DEF Inv
<1>2. Recorded' = Recorded \cup jobs /\ timedOut' = timedOut \cup (jobs \ Recorded)
  BY <1>1, GiveUpEffect
<1>3. \A j \in Jobs : j \in Recorded \/ j \notin jobs => latest'[j] = latest[j]
  BY <1>1, GiveUpResult
<1>4. \A j \in jobs \ Recorded : latest'[j].exit = exit /\ latest'[j].scope = scope
  BY <1>1, GiveUpResult
<1>5. ASSUME NEW j \in jobs \ Recorded
      PROVE  TimedOut(latest'[j]) /\ j \in timedOut' /\ thread'[j] = "none" /\ j \in Recorded'
  <2>1. latest'[j].scope = scope
    BY <1>4
  <2> QED
    BY <1>1, <1>2, <2>1 DEF TimedOut
<1>6. ASSUME NEW j \in Jobs, j \in Recorded \/ j \notin jobs
      PROVE  /\ latest'[j] = latest[j] /\ (j \in timedOut' <=> j \in timedOut)
             /\ j \in Recorded' <=> j \in Recorded
  BY <1>2, <1>3, <1>6
<1>7. \A j \in Jobs : RunFailed(j)' <=> RunFailed(j)
  BY DEF RunFailed
<1> QED
  BY <1>5, <1>6, <1>7 DEF TimedOutInv

\* A waiting job is not in the pool.
LEMMA WaitingIdle == Inv => \A j \in Waiting : thread[j] = "none"
  BY DEF Inv, Untouched

\* Submitting a job that waits, or has a result that is no time-out, keeps it too.
LEMMA SubmitTimedOut ==
  ASSUME Inv, TimedOutInv, NEW job \in Jobs, NEW rest \in Seq(Jobs), Submit(job, rest),
         job \in Recorded \/ job \in Waiting, thread[job] = "none", ~TimedOut(latest[job]),
         UNCHANGED <<outcome, executed>>, pc' # "resubmit"
  PROVE  TimedOutInv'
<1>1. TypeOK
  BY DEF Inv
<1>2. CASE /\ thread' = [thread EXCEPT ![job] = "submitted"]
           /\ UNCHANGED <<latest, timedOut>>
  <2>1. thread'[job] = "submitted" /\ \A j \in Jobs \ {job} : thread'[j] = thread[j]
    BY <1>1, <1>2 DEF TypeOK
  <2>2. job \in timedOut => RunFailed(job)
    BY <1>1 DEF TimedOutInv
  <2>3. Recorded' = Recorded /\ \A j \in Jobs : RunFailed(j)' <=> RunFailed(j)
    BY <1>2 DEF Recorded, RunFailed
  <2> QED
    BY <1>2, <2>1, <2>2, <2>3 DEF TimedOutInv
<1>3. CASE /\ UNCHANGED thread
           /\ \E exit \in {"aborted", "timeout"}, scope \in Scope \ {"none"} :
                 GiveUp({job} \cup Waiting, exit, scope)
  <2> DEFINE jobs == {job} \cup Waiting
  <2>1. PICK exit \in {"aborted", "timeout"}, scope \in Scope \ {"none"} :
          GiveUp(jobs, exit, scope)
    BY <1>3
  <2>2. jobs \in SUBSET Jobs /\ \A j \in jobs \ Recorded : thread[j] = "none"
    BY <1>1, WaitingJobs, WaitingIdle
  <2> HIDE DEF jobs
  <2> QED
    BY <1>3, <2>1, <2>2, GiveUpTimedOut
<1> QED
  BY <1>1, <1>2, <1>3, SubmitEffect

\* Every step keeps the set right.
LEMMA TimedOutStep == Inv /\ TimedOutInv /\ [Next]_vars => TimedOutInv'
<1> SUFFICES ASSUME Inv, TimedOutInv, [Next]_vars PROVE TimedOutInv'
  OBVIOUS
<1>1. TypeOK
  BY DEF Inv
<1>2. CASE Fill
  <2>1. CASE pending # <<>> /\ Cardinality(Futures) < width
    <3>1. /\ Submit(Head(pending), Tail(pending)) /\ pc' = pc /\ pc = "fill"
          /\ UNCHANGED <<outcome, executed>>
      BY <1>2, <2>1 DEF Fill
    <3>2. Head(pending) \in Waiting /\ Head(pending) \in Jobs /\ Tail(pending) \in Seq(Jobs)
      BY <2>1, FirstWaiting DEF Inv
    <3>3. thread[Head(pending)] = "none" /\ Head(pending) \notin Recorded
      BY <3>2 DEF Inv, Untouched
    <3>4. ~TimedOut(latest[Head(pending)])
      BY <3>2, <3>3 DEF TimedOutInv
    <3> QED
      BY <3>1, <3>2, <3>3, <3>4, SubmitTimedOut
  <2>2. CASE ~(pending # <<>> /\ Cardinality(Futures) < width)
    <3>1. UNCHANGED <<thread, latest, timedOut, outcome, executed>> /\ pc' # "resubmit"
      BY <1>2, <2>2 DEF Fill, Goto
    <3> QED
      BY <3>1 DEF TimedOutInv, Recorded, RunFailed
  <2> QED
    BY <2>1, <2>2
<1>3. ASSUME NEW j \in Jobs, Collect(j) PROVE TimedOutInv'
  <2>1. /\ thread[j] = "finished" /\ thread' = [thread EXCEPT ![j] = "none"]
        /\ latest' = [latest EXCEPT ![j] = outcome[j]] /\ UNCHANGED outcome
        /\ timedOut' = IF TimedOut(outcome[j]) THEN timedOut \cup {j} ELSE timedOut
        /\ pc' = "decide" /\ executed' = executed
    BY <1>3 DEF Collect, Goto
  <2>2. thread'[j] = "none" /\ latest'[j] = outcome[j]
        /\ \A k \in Jobs \ {j} : thread'[k] = thread[k] /\ latest'[k] = latest[k]
    BY <1>1, <2>1 DEF TypeOK
  <2>3. /\ TimedOut(outcome[j]) => j \in timedOut'
        /\ j \in timedOut' => TimedOut(outcome[j]) \/ RunFailed(j)
    BY <2>1 DEF TimedOutInv
  <2>4. j \in Recorded' /\ \A k \in Jobs \ {j} : k \in Recorded' <=> k \in Recorded
    BY <2>1, <2>2 DEF Recorded, Inv, Returned
  <2>5. \A k \in Jobs \ {j} : k \in timedOut' <=> k \in timedOut
    BY <2>1
  <2>6. \A k \in Jobs : RunFailed(k)' <=> RunFailed(k)
    BY <2>1 DEF RunFailed
  <2> QED
    BY <2>1, <2>2, <2>3, <2>4, <2>5, <2>6 DEF TimedOutInv
<1>4. CASE Settle
  <2>1. UNCHANGED <<thread, outcome, current, executed>>
    BY <1>4 DEF Settle
  <2>2. CASE GiveUp(Waiting, "aborted", "watch") /\ Goto("deadline")
    <3>1. "watch" \in Scope \ {"none"} /\ "aborted" \in {"aborted", "timeout"}
      BY DEF Scope
    <3>2. Waiting \in SUBSET Jobs /\ pc' # "resubmit"
      BY <1>1, <2>2, WaitingJobs DEF Goto
    <3> QED
      BY <2>1, <2>2, <3>1, <3>2, WaitingIdle, GiveUpTimedOut
  <2>3. CASE Retryable(latest[current]) /\ UNCHANGED <<latest, timedOut>>
    BY <2>1, <2>3 DEF TimedOutInv, Retryable, Recorded, RunFailed
  <2>4. CASE Goto("deadline") /\ UNCHANGED <<latest, timedOut>>
    BY <2>1, <2>4 DEF TimedOutInv, Goto, Recorded, RunFailed
  <2> QED
    BY <1>4, <2>2, <2>3, <2>4 DEF Settle
<1>5. CASE Resubmit
  <2>1. /\ Submit(current, pending) /\ pc = "resubmit" /\ pc' # "resubmit"
        /\ UNCHANGED <<outcome, executed>>
    BY <1>5 DEF Resubmit, Goto
  <2>2. current \in Recorded /\ current \in Jobs /\ thread[current] = "none"
    BY <2>1 DEF Inv, InHand, Recorded
  <2>3. ~TimedOut(latest[current]) /\ pending \in Seq(Jobs)
    BY <1>1, <2>1 DEF TimedOutInv, TypeOK
  <2> QED
    BY <2>1, <2>2, <2>3, SubmitTimedOut
<1>6. CASE CheckDeadline
  <2>1. UNCHANGED <<thread, outcome, executed>> /\ pc' # "resubmit"
    BY <1>6 DEF CheckDeadline, Goto
  <2>2. CASE GiveUp(Waiting, "timeout", "stage")
    <3>1. "stage" \in Scope \ {"none"} /\ "timeout" \in {"aborted", "timeout"}
      BY DEF Scope
    <3>2. Waiting \in SUBSET Jobs
      BY <1>1, WaitingJobs
    <3> QED
      BY <2>1, <2>2, <3>1, <3>2, WaitingIdle, GiveUpTimedOut
  <2>3. CASE UNCHANGED <<latest, timedOut>>
    BY <2>1, <2>3 DEF TimedOutInv, Recorded, RunFailed
  <2> QED
    BY <1>6, <2>2, <2>3 DEF CheckDeadline
<1>7. ASSUME NEW j \in Jobs, CollectRaised(j) PROVE TimedOutInv'
  <2>1. /\ thread[j] = "raised" /\ thread' = [thread EXCEPT ![j] = "none"]
        /\ UNCHANGED <<latest, timedOut, outcome, executed>> /\ pc' = "unwind"
    BY <1>7 DEF CollectRaised, Goto
  <2>2. thread'[j] = "none" /\ \A k \in Jobs \ {j} : thread'[k] = thread[k]
    BY <1>1, <2>1 DEF TypeOK
  <2>3. Recorded' = Recorded /\ \A k \in Jobs : RunFailed(k)' <=> RunFailed(k)
    BY <2>1 DEF Recorded, RunFailed
  <2> QED
    BY <2>1, <2>2, <2>3 DEF TimedOutInv
<1>8. CASE Unwind \/ Finish \/ DeadlinePasses \/ AbortRequested \/ UNCHANGED vars
  <2>1. UNCHANGED <<thread, outcome, latest, timedOut, current, executed>>
        /\ (pc' = "resubmit" => pc = "resubmit")
    BY <1>8 DEF Unwind, Finish, DeadlinePasses, AbortRequested, Goto, vars
  <2> QED
    BY <2>1 DEF TimedOutInv, Recorded, RunFailed
<1>9. ASSUME NEW j \in Jobs, RunOne(j) PROVE TimedOutInv'
  <2>1. /\ UNCHANGED <<pc, current, latest>>
        /\ thread[j] \in {"submitted", "running"}
        /\ \A k \in Jobs \ {j} : /\ thread'[k] = thread[k] /\ outcome'[k] = outcome[k]
                                /\ (k \in timedOut' <=> k \in timedOut)
    BY <1>1, <1>9, RunOneEffect
  <2>2. \/ thread'[j] # "none" /\ timedOut' = timedOut
        \/ /\ thread'[j] = "finished"
           /\ j \in timedOut' => \/ j \in timedOut \/ TimedOut(outcome'[j])
                                 \/ executed'[j] = Append(executed[j], "error")
        \/ thread'[j] = "raised" /\ executed'[j] = Append(executed[j], "error")
    BY <1>1, <1>9, RunOneEffect
  <2>3. ~TimedOut(latest[j]) /\ (j \in timedOut => RunFailed(j))
    BY <2>1 DEF TimedOutInv
  <2>4. /\ \A k \in Jobs : RunFailed(k) => RunFailed(k)'
        /\ executed'[j] = Append(executed[j], "error") => RunFailed(j)'
    <3>1. executed[j] \in Seq(Exit)
      BY <1>1 DEF TypeOK
    <3>2. executed'[j] = executed[j] \/ \E ended \in Exit : executed'[j] = Append(executed[j], ended)
      <4>1. "error" \in Exit
        BY DEF Exit
      <4> QED
        BY <1>1, <1>9, <4>1, RunOneEffect, Zenon
    <3>3. ASSUME NEW ended, executed'[j] = Append(executed[j], ended)
          PROVE  /\ RunFailed(j) => RunFailed(j)'
                 /\ ended = "error" => RunFailed(j)'
      <4>1. /\ DOMAIN executed[j] \subseteq DOMAIN Append(executed[j], ended)
            /\ Len(executed[j]) + 1 \in DOMAIN Append(executed[j], ended)
            /\ Append(executed[j], ended)[Len(executed[j]) + 1] = ended
            /\ \A i \in DOMAIN executed[j] : Append(executed[j], ended)[i] = executed[j][i]
        BY <3>1
      <4> QED
        BY <3>3, <4>1 DEF RunFailed
    <3> QED
      <4>1. \A k \in Jobs \ {j} : RunFailed(k) => RunFailed(k)'
        BY <1>1, <1>9, RunOneEffect DEF RunFailed
      <4>2. RunFailed(j) => RunFailed(j)'
        BY <3>2, <3>3 DEF RunFailed
      <4>3. executed'[j] = Append(executed[j], "error") => RunFailed(j)'
        BY <3>3
      <4> HIDE DEF RunFailed
      <4> QED
        BY <4>1, <4>2, <4>3
  <2>5. thread'[j] # "none"
        /\ (j \in timedOut' => \/ thread'[j] = "finished" /\ TimedOut(outcome'[j])
                               \/ RunFailed(j)')
    BY <2>2, <2>3, <2>4
  <2>6. Recorded' = Recorded
    BY <2>1 DEF Recorded
  <2> QED
    BY <2>1, <2>3, <2>4, <2>5, <2>6 DEF TimedOutInv
<1>10. CASE DispatchRaises
  <2>1. UNCHANGED <<thread, outcome, executed, current>> /\ pc' = "unwind"
    BY <1>10, DispatchRaisesEffect
  <2>2. ASSUME NEW jobs \in SUBSET Jobs, NEW exit \in {"aborted", "timeout"},
               NEW scope \in Scope \ {"none"}, GiveUp(jobs, exit, scope),
               \A j \in jobs : j \in Waiting \/ j \in Recorded
        PROVE  TimedOutInv'
    BY <2>1, <2>2, WaitingIdle, GiveUpTimedOut
  <2>3. CASE UNCHANGED <<latest, timedOut>>
    BY <2>1, <2>3 DEF TimedOutInv, Recorded, RunFailed
  <2> QED
    BY <1>10, <2>2, <2>3, DispatchRaisesEffect
<1> QED
  BY <1>2, <1>3, <1>4, <1>5, <1>6, <1>7, <1>8, <1>9, <1>10 DEF Next, Dispatch, Terminated

\* timed_out_job_ids names every job whose final result is a time-out, whichever
\* thread added it and however late, and any other only if run_one failed in one of
\* its runs: threaded.py adds the id before the event that may fail.
THEOREM TimedOutHasCauseHolds == Spec => []TimedOutHasCause
<1>1. Init => TimedOutInv
  BY DEF Init, TimedOutInv, TimedOut, NoResult
<1>2. Inv /\ TimedOutInv => TimedOutHasCause
  <2> SUFFICES ASSUME Inv, TimedOutInv, pc = "done"
               PROVE  /\ {j \in Jobs : TimedOut(latest[j])} \subseteq timedOut
                      /\ \A j \in timedOut : TimedOut(latest[j]) \/ RunFailed(j)
    BY DEF TimedOutHasCause, RunFailed
  <2>1. \A j \in Jobs : thread[j] = "none"
    BY DEF Inv, Drained, Futures
  <2> QED
    BY <2>1 DEF TimedOutInv, Inv, TypeOK
<1> QED
  BY <1>1, <1>2, TimedOutStep, InvHolds, PTL DEF Spec

-----------------------------------------------------------------------------
(* What the last run of a job decides                                       *)

Last(j) == executed[j][Len(executed[j])]

\* The result r is how the last run of j ended, or what came between.
Fits(r, j) ==
  \/ r.exit = Last(j)
  \/ Last(j) = "ok" /\ abort /\ r.exit = "aborted"
  \/ Last(j) # "ok" /\ expired /\ r.exit = "timeout" /\ ~r.started

\* Of a job that ran: its result, and why it is in the pool again.
RanOf(j) ==
  /\ thread[j] = "finished" => Fits(outcome[j], j)
  /\ thread[j] \in {"none", "submitted", "running"} => Fits(latest[j], j)
  /\ thread[j] \in {"submitted", "running"} \/ (pc = "resubmit" /\ current = j)
       => Last(j) # "ok"

\* Once run_jobs has left its loop no result is looked at any more.
Unwound == pc \in {"unwind", "raised"}

RanInv == ~Unwound => \A j \in Jobs : executed[j] # <<>> => RanOf(j)

\* A failure is no time-out.
PlainInv ==
  \A j \in Jobs :
    /\ outcome[j].exit \in {"failed", "error"} => ~TimedOut(outcome[j])
    /\ latest[j].exit \in {"failed", "error"} => ~TimedOut(latest[j])

InHandAgain(j) == pc = "resubmit" /\ current = j

\* Every attempt has run once, and a failure is final at the last attempt only.
CountOf(j) ==
  /\ thread[j] \in {"submitted", "running"} \/ InHandAgain(j)
       => Len(executed[j]) = attempts[j]
  /\ thread[j] = "finished" \/ (thread[j] = "none" /\ j \in Recorded /\ ~InHandAgain(j))
       => Len(executed[j]) = attempts[j] + 1
  /\ thread[j] = "none" /\ latest[j].exit \in {"failed", "error"}
       /\ ~(pc \in {"decide", "resubmit"} /\ current = j)
       => attempts[j] = MaxRetries

CountInv ==
  ~abort /\ ~expired /\ ~Unwound => \A j \in Jobs : CountOf(j)

\* What a step of the dispatching thread does to a job that ran.
LEMMA DispatchMoves ==
  ASSUME Inv, Dispatch, NEW j \in Jobs, executed[j] # <<>>
  PROVE  /\ UNCHANGED <<executed, outcome, expired>> /\ (abort => abort')
         /\ \/ /\ thread'[j] = thread[j] /\ latest'[j] = latest[j]
               /\ pc' # "resubmit" \/ current' # j
            \/ /\ thread'[j] = thread[j] /\ latest'[j] = latest[j]
               /\ pc = "decide" /\ current = j /\ ~abort /\ Retryable(latest[j])
            \/ /\ thread[j] = "finished" /\ thread'[j] = "none" /\ latest'[j] = outcome[j]
               /\ pc' # "resubmit"
            \/ Unwound'
            \/ /\ InHandAgain(j) /\ thread[j] = "none" /\ latest'[j] = latest[j]
               /\ thread'[j] = "submitted" /\ pc' # "resubmit"
<1>1. TypeOK /\ j \notin Waiting /\ Waiting \subseteq Jobs
  BY WaitingJobs DEF Inv, Untouched
<1>2. ASSUME NEW jobs, NEW exit, NEW scope, GiveUp(jobs, exit, scope), j \notin jobs \/ j \in Recorded
      PROVE  latest'[j] = latest[j]
  BY <1>1, <1>2, GiveUpResult
<1>3. CASE Fill
  <2>1. UNCHANGED <<executed, outcome, expired, abort, current>> /\ pc' # "resubmit"
    BY <1>3 DEF Fill, Goto
  <2>2. CASE pending # <<>> /\ Cardinality(Futures) < width
    <3>1. Submit(Head(pending), Tail(pending))
      BY <1>3, <2>2 DEF Fill
    <3>2. Head(pending) \in Waiting /\ Head(pending) # j /\ Head(pending) \in Jobs
          /\ Tail(pending) \in Seq(Jobs)
      BY <1>1, <2>2, FirstWaiting DEF Inv
    <3>3. \/ thread' = [thread EXCEPT ![Head(pending)] = "submitted"] /\ UNCHANGED latest
          \/ /\ UNCHANGED thread
             /\ \E exit \in {"aborted", "timeout"}, scope \in Scope \ {"none"} :
                  GiveUp({Head(pending)} \cup Waiting, exit, scope)
      BY <1>1, <3>1, <3>2, SubmitEffect
    <3>4. thread'[j] = thread[j] /\ latest'[j] = latest[j]
      BY <1>1, <1>2, <3>2, <3>3 DEF TypeOK
    <3> QED
      BY <2>1, <3>4
  <2>3. CASE ~(pending # <<>> /\ Cardinality(Futures) < width)
    BY <1>3, <2>1, <2>3 DEF Fill
  <2> QED
    BY <2>2, <2>3
<1>4. ASSUME NEW k \in Jobs, Collect(k) \/ CollectRaised(k)
      PROVE  /\ UNCHANGED <<executed, outcome, expired, abort>> /\ pc' # "resubmit"
             /\ \/ thread'[j] = thread[j] /\ latest'[j] = latest[j]
                \/ thread[j] = "finished" /\ thread'[j] = "none" /\ latest'[j] = outcome[j]
                \/ Unwound'
  BY <1>1, <1>4 DEF Collect, CollectRaised, Goto, TypeOK, Unwound
<1>5. CASE Settle
  <2>1. UNCHANGED <<executed, outcome, expired, abort, current, thread>> /\ pc = "decide"
    BY <1>5 DEF Settle
  <2>2. latest'[j] = latest[j]
    BY <1>1, <1>2, <1>5 DEF Settle
  <2>3. pc' # "resubmit" \/ (~abort /\ Retryable(latest[current]))
    BY <1>5 DEF Settle, Goto
  <2> QED
    BY <2>1, <2>2, <2>3
<1>6. CASE Resubmit
  <2>1. UNCHANGED <<executed, outcome, expired, abort>> /\ pc = "resubmit" /\ pc' # "resubmit"
        /\ Submit(current, pending)
    BY <1>6 DEF Resubmit, Goto
  <2>2. current \in Recorded /\ current \in Jobs /\ thread[current] = "none"
        /\ pending \in Seq(Jobs)
    BY <1>1, <2>1 DEF Inv, InHand, Recorded, TypeOK
  <2>3. \/ thread' = [thread EXCEPT ![current] = "submitted"] /\ UNCHANGED latest
        \/ /\ UNCHANGED thread
           /\ \E exit \in {"aborted", "timeout"}, scope \in Scope \ {"none"} :
                GiveUp({current} \cup Waiting, exit, scope)
    BY <1>1, <2>1, <2>2, SubmitEffect
  <2>4. latest'[j] = latest[j]
    BY <1>1, <1>2, <2>2, <2>3
  <2>5. thread'[j] = thread[j] \/ (current = j /\ thread'[j] = "submitted")
    BY <1>1, <2>3 DEF TypeOK
  <2> QED
    BY <2>1, <2>2, <2>4, <2>5 DEF InHandAgain
<1>7. CASE CheckDeadline
  <2>1. UNCHANGED <<executed, outcome, expired, abort, thread>> /\ pc' # "resubmit"
    BY <1>7 DEF CheckDeadline, Goto
  <2>2. latest'[j] = latest[j]
    BY <1>1, <1>2, <1>7 DEF CheckDeadline
  <2> QED
    BY <2>1, <2>2
<1>8. CASE Unwind \/ Finish
  <2>1. UNCHANGED <<executed, outcome, expired, thread, latest>> /\ pc' # "resubmit"
    BY <1>8 DEF Unwind, Finish, Goto
  <2>2. abort => abort'
    BY <1>8 DEF Unwind, Finish
  <2> QED
    BY <2>1, <2>2
<1>9. CASE DispatchRaises
  BY <1>9, DispatchRaisesEffect DEF Unwound
<1> QED
  BY <1>3, <1>4, <1>5, <1>6, <1>7, <1>8, <1>9 DEF Dispatch

\* How a thread of the pool ends a run.
LEMMA RunEnds ==
  ASSUME TypeOK, NEW j \in Jobs, RunOne(j)
  PROVE  \/ /\ thread[j] = "submitted" /\ thread'[j] = "finished" /\ expired
            /\ outcome'[j] = Made(attempts[j], "timeout", "stage", FALSE)
            /\ executed'[j] = executed[j]
         \/ /\ thread[j] = "submitted" /\ thread'[j] \in {"running", "raised"}
            /\ outcome'[j] = outcome[j] /\ executed'[j] = executed[j]
         \/ /\ thread[j] = "running" /\ thread'[j] = "finished"
            /\ \E ended \in Exit :
                 /\ executed'[j] = Append(executed[j], ended)
                 /\ \/ outcome'[j].exit = ended
                    \/ ended = "ok" /\ abort /\ outcome'[j].exit = "aborted"
            /\ outcome'[j].exit \in {"failed", "error"} => ~TimedOut(outcome'[j])
         \/ thread[j] = "running" /\ thread'[j] = "raised" /\ outcome'[j] = outcome[j]
<1>1. CASE StartLate(j)
  BY <1>1 DEF StartLate, TypeOK
<1>2. CASE Start(j) \/ StartRaises(j)
  BY <1>2 DEF Start, StartRaises, TypeOK
<1>3. ASSUME NEW ended \in Exit, NEW named, NEW result, End(j, ended, named, result),
             result.exit = ended \/ (ended = "ok" /\ abort /\ result.exit = "aborted"),
             result.exit \in {"failed", "error"} => ~TimedOut(result)
      PROVE  /\ thread[j] = "running" /\ thread'[j] = "finished"
             /\ executed'[j] = Append(executed[j], ended) /\ outcome'[j] = result
  BY <1>3 DEF End, Ended, TypeOK
<1>4. CASE Pass(j)
  <2> DEFINE result == IF abort THEN Made(attempts[j], "aborted", "watch", TRUE)
                       ELSE Made(attempts[j], "ok", "none", TRUE)
  <2>1. /\ result.exit = "ok" \/ (abort /\ result.exit = "aborted")
        /\ result.exit \notin {"failed", "error"}
    BY DEF Made
  <2>2. End(j, "ok", abort, result) /\ "ok" \in Exit
    BY <1>4 DEF Pass, Exit
  <2> HIDE DEF result
  <2> QED
    BY <1>3, <2>1, <2>2
<1>5. ASSUME NEW ended \in Exit, NEW named, NEW scope, NEW b,
             End(j, ended, named, Made(attempts[j], ended, scope, b)),
             ended \in {"failed", "error"} => scope = "none"
      PROVE  /\ thread[j] = "running" /\ thread'[j] = "finished"
             /\ executed'[j] = Append(executed[j], ended) /\ outcome'[j].exit = ended
             /\ ended \in {"failed", "error"} => ~TimedOut(outcome'[j])
  <2> DEFINE result == Made(attempts[j], ended, scope, b)
  <2>1. result.exit = ended /\ result.scope = scope
    BY DEF Made
  <2>2. ended \in {"failed", "error"} => ~TimedOut(result)
    BY <1>5, <2>1 DEF TimedOut
  <2> HIDE DEF result
  <2>3. End(j, ended, named, result)
    BY <1>5 DEF result
  <2> QED
    BY <1>3, <2>1, <2>2, <2>3
<1>6. CASE FailJob(j) \/ Stopped(j) \/ TimeOut(j) \/ Break(j)
  <2>1. \E ended \in Exit, named \in BOOLEAN, scope \in Scope, b \in BOOLEAN :
          /\ End(j, ended, named, Made(attempts[j], ended, scope, b))
          /\ ended \in {"failed", "error"} => scope = "none"
    <3>1. CASE FailJob(j)
      BY <3>1 DEF FailJob, Exit, Scope
    <3>2. CASE Stopped(j)
      BY <3>2 DEF Stopped, Exit, Scope
    <3>3. CASE TimeOut(j)
      BY <3>3 DEF TimeOut, Exit, Scope, Limits
    <3>4. CASE Break(j)
      BY <3>4 DEF Break, Named, Exit, Scope, TypeOK
    <3> QED
      BY <1>6, <3>1, <3>2, <3>3, <3>4
  <2>2. PICK ended \in Exit, named \in BOOLEAN, scope \in Scope, b \in BOOLEAN :
          /\ End(j, ended, named, Made(attempts[j], ended, scope, b))
          /\ ended \in {"failed", "error"} => scope = "none"
    BY <2>1
  <2> QED
    BY <1>5, <2>2
<1>7. CASE BreakRaises(j)
  BY <1>7 DEF BreakRaises, Ended, TypeOK
<1> QED
  BY <1>1, <1>2, <1>4, <1>6, <1>7, <1>3 DEF RunOne

\* The clock and the watch only go forward.
LEMMA MovesOn ==
  ASSUME Inv, [Next]_vars
  PROVE  (abort => abort') /\ (expired => expired') /\ (Unwound => Unwound')
<1> USE DEF Unwound
<1>1. CASE Dispatch
  <2>1. CASE Finish
    BY <2>1 DEF Finish
  <2>2. CASE Fill \/ Settle \/ Resubmit \/ CheckDeadline \/ DispatchRaises
    BY <2>2 DEF Fill, Settle, Resubmit, CheckDeadline, DispatchRaises
  <2>3. ASSUME NEW j \in Jobs, Collect(j) \/ CollectRaised(j)
        PROVE  UNCHANGED <<abort, expired>> /\ ~Unwound
    BY <2>3 DEF Collect, CollectRaised
  <2>4. CASE Unwind
    BY <2>4 DEF Unwind, Goto
  <2> QED
    BY <1>1, <2>1, <2>2, <2>3, <2>4 DEF Dispatch
<1>2. ASSUME NEW j \in Jobs, RunOne(j) PROVE UNCHANGED <<abort, expired, pc>>
  BY <1>2, RunOneEffect DEF Inv
<1>3. CASE DeadlinePasses \/ AbortRequested \/ Terminated \/ UNCHANGED vars
  BY <1>3 DEF DeadlinePasses, AbortRequested, Terminated, vars
<1> QED
  BY <1>1, <1>2, <1>3 DEF Next

LEMMA PlainStep ==
  ASSUME Inv, PlainInv, [Next]_vars
  PROVE  PlainInv'
<1> SUFFICES ASSUME NEW j \in Jobs
             PROVE  /\ outcome'[j].exit \in {"failed", "error"} => ~TimedOut(outcome'[j])
                    /\ latest'[j].exit \in {"failed", "error"} => ~TimedOut(latest'[j])
  BY DEF PlainInv, TimedOut
<1>1. /\ outcome[j].exit \in {"failed", "error"} => ~TimedOut(outcome[j])
      /\ latest[j].exit \in {"failed", "error"} => ~TimedOut(latest[j])
      /\ TypeOK
  BY DEF PlainInv, Inv
<1>2. ASSUME NEW k \in Jobs, RunOne(k)
      PROVE  outcome'[j].exit \in {"failed", "error"} => ~TimedOut(outcome'[j])
  <2>1. CASE k = j
    <3>1. \/ outcome'[j] = Made(attempts[j], "timeout", "stage", FALSE)
          \/ outcome'[j] = outcome[j]
          \/ outcome'[j].exit \in {"failed", "error"} => ~TimedOut(outcome'[j])
      BY <1>1, <1>2, <2>1, RunEnds
    <3>2. Made(attempts[j], "timeout", "stage", FALSE).exit = "timeout"
      BY DEF Made
    <3> QED
      BY <1>1, <3>1, <3>2
  <2>2. CASE k # j
    BY <1>1, <1>2, <2>2, RunOneEffect
  <2> QED
    BY <2>1, <2>2
<1>3. ASSUME NEW k \in Jobs, RunOne(k) PROVE latest'[j] = latest[j]
  BY <1>1, <1>3, RunOneEffect
<1>4. ASSUME NEW jobs, NEW exit \in {"aborted", "timeout"}, NEW scope, GiveUp(jobs, exit, scope)
      PROVE  latest'[j] = latest[j] \/ latest'[j].exit \notin {"failed", "error"}
  BY <1>1, <1>4, GiveUpResult
<1>5. ASSUME NEW job, NEW rest, Submit(job, rest)
      PROVE  latest'[j] = latest[j] \/ latest'[j].exit \notin {"failed", "error"}
  <2>1. CASE UNCHANGED latest
    BY <2>1
  <2>2. CASE \E exit \in {"aborted", "timeout"}, scope \in {"stage", "watch"} :
               GiveUp({job} \cup Waiting, exit, scope)
    BY <1>4, <2>2
  <2> QED
    BY <1>5, <2>1, <2>2 DEF Submit
<1>6. CASE Dispatch
  <2>1. outcome' = outcome
    BY <1>6, Zenon DEF Dispatch, Fill, Collect, CollectRaised, Settle, Resubmit, CheckDeadline,
       DispatchRaises, Unwind, Finish
  <2>2. \/ latest'[j] = latest[j] \/ latest'[j].exit \notin {"failed", "error"}
        \/ latest'[j] = outcome[j]
    <3>1. CASE Fill \/ Resubmit
      BY <3>1, <1>5 DEF Fill, Resubmit
    <3>2. CASE Settle \/ CheckDeadline
      BY <3>2, <1>4 DEF Settle, CheckDeadline
    <3>3. ASSUME NEW k \in Jobs, Collect(k) \/ CollectRaised(k)
          PROVE  latest'[j] = latest[j] \/ latest'[j] = outcome[j]
      BY <1>1, <3>3 DEF Collect, CollectRaised, TypeOK
    <3>4. CASE Unwind \/ Finish
      BY <3>4 DEF Unwind, Finish
    <3>5. CASE DispatchRaises
      BY <3>5, <1>4, DispatchRaisesEffect
    <3> QED
      BY <1>6, <3>1, <3>2, <3>3, <3>4, <3>5 DEF Dispatch
  <2> QED
    BY <1>1, <2>1, <2>2
<1>7. CASE DeadlinePasses \/ AbortRequested \/ Terminated \/ UNCHANGED vars
  <2>1. UNCHANGED <<latest, outcome>>
    BY <1>7 DEF DeadlinePasses, AbortRequested, Terminated, vars
  <2> QED
    BY <1>1, <2>1
<1> QED
  BY <1>1, <1>2, <1>3, <1>6, <1>7 DEF Next

\* A result that fits goes on to fit while time passes.
LEMMA FitsOn ==
  ASSUME NEW r, NEW j, Fits(r, j), executed'[j] = executed[j],
         abort => abort', expired => expired'
  PROVE  Fits(r, j)'
  BY DEF Fits, Last

LEMMA RanStep ==
  ASSUME Inv, RanInv, [Next]_vars
  PROVE  RanInv'
<1> SUFFICES ASSUME ~Unwound', NEW j \in Jobs, executed'[j] # <<>>
             PROVE  RanOf(j)'
  BY DEF RanInv
<1>1. TypeOK /\ (abort => abort') /\ (expired => expired')
  BY MovesOn DEF Inv
<1>2. executed[j] # <<>> => RanOf(j)
  BY MovesOn DEF RanInv
<1>3. CASE Dispatch
  <2>1. executed' = executed /\ outcome' = outcome
    BY <1>3, Zenon DEF Dispatch, Fill, Collect, CollectRaised, Settle, Resubmit, CheckDeadline,
       DispatchRaises, Unwind, Finish
  <2>2. executed[j] # <<>> /\ RanOf(j) /\ Last(j)' = Last(j)
    BY <1>2, <2>1 DEF Last
  <2>3. CASE /\ thread'[j] = thread[j] /\ latest'[j] = latest[j]
             /\ pc' # "resubmit" \/ current' # j
    BY <1>1, <2>1, <2>2, <2>3, FitsOn DEF RanOf
  <2>4. CASE /\ thread'[j] = thread[j] /\ latest'[j] = latest[j]
             /\ pc = "decide" /\ current = j /\ ~abort /\ Retryable(latest[j])
    <3>1. thread[j] = "none"
      BY <2>4 DEF Inv, InHand
    <3>2. Fits(latest[j], j)
      BY <2>2, <3>1 DEF RanOf
    <3>3. Last(j) # "ok"
      BY <2>4, <3>2 DEF Fits, Retryable
    <3> QED
      BY <1>1, <2>1, <2>2, <2>4, <3>1, <3>2, <3>3, FitsOn DEF RanOf
  <2>5. CASE /\ thread[j] = "finished" /\ thread'[j] = "none" /\ latest'[j] = outcome[j]
             /\ pc' # "resubmit"
    BY <1>1, <2>1, <2>2, <2>5, FitsOn DEF RanOf
  <2>6. CASE /\ InHandAgain(j) /\ thread[j] = "none" /\ latest'[j] = latest[j]
             /\ thread'[j] = "submitted" /\ pc' # "resubmit"
    BY <1>1, <2>1, <2>2, <2>6, FitsOn DEF RanOf, InHandAgain
  <2> QED
    BY <1>3, <2>2, <2>3, <2>4, <2>5, <2>6, DispatchMoves
<1>4. ASSUME NEW k \in Jobs, RunOne(k) PROVE RanOf(j)'
  <2>1. UNCHANGED <<pc, current, latest, abort, expired>> /\ ~InHandAgain(k)
    BY <1>1, <1>4, RunOneEffect DEF InHandAgain, Inv, InHand
  <2>2. CASE k # j
    <3>1. thread'[j] = thread[j] /\ outcome'[j] = outcome[j] /\ executed'[j] = executed[j]
      BY <1>1, <1>4, <2>2, RunOneEffect
    <3> QED
      BY <1>1, <1>2, <2>1, <3>1, FitsOn DEF RanOf, Last
  <2>3. CASE k = j
    <3>1. CASE /\ thread[j] = "submitted" /\ thread'[j] = "finished" /\ expired
               /\ outcome'[j] = Made(attempts[j], "timeout", "stage", FALSE)
               /\ executed'[j] = executed[j]
      <4>1. Last(j) # "ok" /\ Last(j)' = Last(j)
        BY <1>2, <3>1 DEF RanOf, Last
      <4>2. outcome'[j].exit = "timeout" /\ ~outcome'[j].started
        BY <3>1 DEF Made
      <4> QED
        BY <1>1, <2>1, <2>3, <3>1, <4>1, <4>2 DEF RanOf, Fits, InHandAgain
    <3>2. CASE /\ thread[j] = "submitted" /\ thread'[j] \in {"running", "raised"}
               /\ outcome'[j] = outcome[j] /\ executed'[j] = executed[j]
      BY <1>1, <1>2, <2>1, <3>2, FitsOn DEF RanOf, Last
    <3>3. CASE /\ thread[j] = "running" /\ thread'[j] = "finished"
               /\ \E ended \in Exit :
                    /\ executed'[j] = Append(executed[j], ended)
                    /\ \/ outcome'[j].exit = ended
                       \/ ended = "ok" /\ abort /\ outcome'[j].exit = "aborted"
      <4>1. PICK ended \in Exit :
                    /\ executed'[j] = Append(executed[j], ended)
                    /\ \/ outcome'[j].exit = ended
                       \/ ended = "ok" /\ abort /\ outcome'[j].exit = "aborted"
        BY <3>3
      <4>2. Last(j)' = ended
        BY <1>1, <4>1 DEF Last, TypeOK
      <4> QED
        BY <1>1, <2>1, <2>3, <3>3, <4>1, <4>2 DEF RanOf, Fits, InHandAgain
    <3>4. CASE thread[j] = "running" /\ thread'[j] = "raised"
      BY <2>1, <2>3, <3>4 DEF RanOf, InHandAgain
    <3> QED
      BY <1>1, <1>4, <2>3, <3>1, <3>2, <3>3, <3>4, RunEnds
  <2> QED
    BY <2>2, <2>3
<1>5. CASE DeadlinePasses \/ AbortRequested \/ Terminated \/ UNCHANGED vars
  <2>1. UNCHANGED <<pc, current, thread, latest, outcome, executed>>
    BY <1>5 DEF DeadlinePasses, AbortRequested, Terminated, vars
  <2> QED
    BY <1>1, <1>2, <2>1, FitsOn DEF RanOf, Last
<1> QED
  BY <1>3, <1>4, <1>5 DEF Next

\* While nothing is aborted or late, submitting is launching.
LEMMA Launches ==
  ASSUME TypeOK, NEW job \in Jobs, NEW rest, Submit(job, rest), ~abort, ~expired
  PROVE  /\ UNCHANGED latest /\ thread'[job] = "submitted"
         /\ \A j \in Jobs \ {job} : thread'[j] = thread[j]
  BY DEF Submit, TypeOK

\* A job that the dispatching thread does not look at keeps its count.
LEMMA CountStays ==
  ASSUME NEW j, CountOf(j), thread'[j] = thread[j], latest'[j] = latest[j],
         executed'[j] = executed[j], attempts'[j] = attempts[j], j \in Recorded' <=> j \in Recorded,
         ~(pc \in {"decide", "resubmit"} /\ current = j), ~InHandAgain(j)'
  PROVE  CountOf(j)'
  BY DEF CountOf, InHandAgain

LEMMA CountStep ==
  ASSUME Inv, PlainInv, CountInv, [Next]_vars
  PROVE  CountInv'
<1> SUFFICES ASSUME ~abort', ~expired', pc' \notin {"unwind", "raised"}, NEW j \in Jobs
             PROVE  CountOf(j)'
  BY DEF CountInv, Unwound
<1>1. TypeOK /\ ~abort /\ ~expired
  BY MovesOn DEF Inv
<1>2. ASSUME pc \notin {"unwind", "raised"} PROVE CountOf(j)
  BY <1>1, <1>2 DEF CountInv, Unwound
<1>3. CASE Fill
  <2>1. /\ pc = "fill" /\ pc' \notin {"decide", "resubmit"}
        /\ UNCHANGED <<executed, attempts, outcome>> /\ CountOf(j)
    BY <1>2, <1>3 DEF Fill, Goto
  <2>2. CASE pending # <<>> /\ Cardinality(Futures) < width
    <3> DEFINE first == Head(pending)
    <3>1. Submit(first, Tail(pending)) /\ first \in Waiting /\ first \in Jobs
      BY <1>1, <1>3, <2>2, FirstWaiting DEF Fill, Inv
    <3> HIDE DEF first
    <3>2. /\ UNCHANGED latest /\ thread'[first] = "submitted"
          /\ \A k \in Jobs \ {first} : thread'[k] = thread[k]
      BY <1>1, <3>1, Launches
    <3>3. Recorded' = Recorded
      BY <3>2 DEF Recorded
    <3>4. CASE j = first
      <4>1. executed[j] = <<>> /\ attempts[j] = 0
        BY <3>1, <3>4 DEF Inv, Untouched
      <4> QED
        BY <2>1, <3>2, <3>4, <4>1 DEF CountOf, InHandAgain
    <3>5. CASE j # first
      BY <2>1, <3>2, <3>3, <3>5, CountStays DEF InHandAgain
    <3> QED
      BY <3>4, <3>5
  <2>3. CASE ~(pending # <<>> /\ Cardinality(Futures) < width)
    <3>1. UNCHANGED <<thread, latest>> /\ Recorded' = Recorded
      BY <1>3, <2>3 DEF Fill, Recorded
    <3> QED
      BY <2>1, <3>1, CountStays DEF InHandAgain
  <2> QED
    BY <2>2, <2>3
<1>4. ASSUME NEW k \in Jobs, Collect(k) PROVE CountOf(j)'
  <2>1. /\ pc = "wait" /\ pc' = "decide" /\ current' = k /\ UNCHANGED <<executed, attempts>>
        /\ thread[k] = "finished" /\ thread'[k] = "none" /\ latest'[k] = outcome[k]
        /\ \A n \in Jobs \ {k} : thread'[n] = thread[n] /\ latest'[n] = latest[n]
    BY <1>1, <1>4 DEF Collect, Goto, TypeOK
  <2>2. CountOf(j)
    BY <1>2, <2>1
  <2>3. CASE j = k
    BY <2>1, <2>2, <2>3 DEF CountOf, InHandAgain
  <2>4. CASE j # k
    <3>1. j \in Recorded' <=> j \in Recorded
      BY <2>1, <2>4 DEF Recorded
    <3> QED
      BY <2>1, <2>2, <2>4, <3>1, CountStays DEF InHandAgain
  <2> QED
    BY <2>3, <2>4
<1>5. CASE Settle
  <2>1. /\ pc = "decide" /\ UNCHANGED <<executed, thread, latest, current>> /\ CountOf(j)
        /\ Recorded' = Recorded
    BY <1>1, <1>2, <1>5 DEF Settle, Recorded
  <2>2. /\ current \in Jobs /\ current \in Recorded /\ thread[current] = "none"
        /\ latest[current].attempt = attempts[current]
    BY <2>1 DEF Inv, InHand, Recorded
  <2>3. CASE /\ Retryable(latest[current]) /\ pc' = "resubmit"
             /\ attempts' = [attempts EXCEPT ![current] = latest[current].attempt + 1]
    <3>1. attempts'[current] = attempts[current] + 1
          /\ \A k \in Jobs \ {current} : attempts'[k] = attempts[k]
      BY <1>1, <2>2, <2>3 DEF TypeOK
    <3>2. CASE j = current
      <4>1. Len(executed[j]) = attempts[j] + 1
        BY <2>1, <2>2, <3>2 DEF CountOf, InHandAgain
      <4> QED
        BY <2>1, <2>2, <2>3, <3>1, <3>2, <4>1 DEF CountOf, InHandAgain
    <3>3. CASE j # current
      BY <2>1, <2>3, <3>1, <3>3, CountStays DEF InHandAgain
    <3> QED
      BY <3>2, <3>3
  <2>4. CASE ~Retryable(latest[current]) /\ pc' = "deadline" /\ UNCHANGED attempts
    <3>1. CASE j = current
      <4>1. latest[j].exit \in {"failed", "error"} => attempts[j] = MaxRetries
        <5>1. ASSUME latest[j].exit \in {"failed", "error"} PROVE ~(latest[j].attempt < MaxRetries)
          BY <2>4, <3>1, <5>1 DEF PlainInv, Retryable
        <5>2. attempts[j] \in 0 .. MaxRetries /\ MaxRetries \in Nat
          BY <1>1, DispatchAssumption DEF TypeOK
        <5> QED
          BY <2>2, <3>1, <5>1, <5>2
      <4> QED
        BY <2>1, <2>2, <2>4, <3>1, <4>1 DEF CountOf, InHandAgain
    <3>2. CASE j # current
      BY <2>1, <2>4, <3>2, CountStays DEF InHandAgain
    <3> QED
      BY <3>1, <3>2
  <2> QED
    BY <1>1, <1>5, <2>3, <2>4 DEF Settle, Goto
<1>6. CASE Resubmit
  <2>1. /\ pc = "resubmit" /\ pc' = "deadline" /\ UNCHANGED <<executed, attempts, current>>
        /\ Submit(current, pending) /\ CountOf(j)
    BY <1>2, <1>6 DEF Resubmit, Goto
  <2>2. current \in Jobs /\ current \in Recorded /\ thread[current] = "none"
    BY <2>1 DEF Inv, InHand, Recorded
  <2>3. /\ UNCHANGED latest /\ thread'[current] = "submitted"
        /\ \A k \in Jobs \ {current} : thread'[k] = thread[k]
    BY <1>1, <2>1, <2>2, Launches
  <2>4. CASE j = current
    BY <2>1, <2>2, <2>3, <2>4 DEF CountOf, InHandAgain
  <2>5. CASE j # current
    <3>1. Recorded' = Recorded
      BY <2>3 DEF Recorded
    <3> QED
      BY <2>1, <2>3, <2>5, <3>1, CountStays DEF InHandAgain
  <2> QED
    BY <2>4, <2>5
<1>7. CASE CheckDeadline
  <2>1. /\ pc = "deadline" /\ pc' = "fill" /\ UNCHANGED <<executed, attempts, thread, latest>>
        /\ CountOf(j) /\ Recorded' = Recorded
    BY <1>1, <1>2, <1>7 DEF CheckDeadline, Goto, Recorded
  <2> QED
    BY <2>1, CountStays DEF InHandAgain
<1>8. CASE DispatchRaises \/ Unwind \/ \E k \in Jobs : CollectRaised(k)
  BY <1>8 DEF DispatchRaises, Unwind, CollectRaised, Goto
<1>9. CASE Finish
  <2>1. /\ pc = "finish" /\ pc' = "done" /\ UNCHANGED <<executed, attempts, thread, latest>>
        /\ CountOf(j) /\ Recorded' = Recorded
    BY <1>2, <1>9 DEF Finish, Goto, Recorded
  <2> QED
    BY <2>1, CountStays DEF InHandAgain
<1>10. ASSUME NEW k \in Jobs, RunOne(k) PROVE CountOf(j)'
  <2>1. /\ UNCHANGED <<pc, current, attempts, latest>> /\ ~InHandAgain(k) /\ Recorded' = Recorded
        /\ ~(pc \in {"decide", "resubmit"} /\ current = k) /\ CountOf(j)
    BY <1>1, <1>2, <1>10, RunOneEffect DEF InHandAgain, Inv, InHand, Recorded
  <2>2. CASE k # j
    <3>1. thread'[j] = thread[j] /\ executed'[j] = executed[j]
      BY <1>1, <1>10, <2>2, RunOneEffect
    <3> QED
      BY <2>1, <3>1 DEF CountOf, InHandAgain
  <2>3. CASE k = j
    <3>1. CASE thread[j] = "submitted" /\ thread'[j] \in {"running", "raised"} /\ executed'[j] = executed[j]
      BY <2>1, <2>3, <3>1 DEF CountOf, InHandAgain
    <3>2. CASE /\ thread[j] = "running" /\ thread'[j] = "finished"
               /\ \E ended \in Exit : executed'[j] = Append(executed[j], ended)
      <4>1. Len(executed'[j]) = Len(executed[j]) + 1
        BY <1>1, <3>2 DEF TypeOK
      <4> QED
        BY <2>1, <2>3, <3>2, <4>1 DEF CountOf, InHandAgain
    <3>3. CASE thread[j] = "running" /\ thread'[j] = "raised"
      BY <2>1, <2>3, <3>3 DEF CountOf, InHandAgain
    <3> QED
      BY <1>1, <1>10, <2>3, <3>1, <3>2, <3>3, RunEnds
  <2> QED
    BY <2>2, <2>3
<1>11. CASE DeadlinePasses \/ AbortRequested
  BY <1>11 DEF DeadlinePasses, AbortRequested
<1>12. CASE Terminated \/ UNCHANGED vars
  <2>1. UNCHANGED <<pc, current, attempts, thread, latest, executed>>
    BY <1>12 DEF Terminated, vars
  <2> QED
    BY <1>2, <2>1 DEF CountOf, InHandAgain, Recorded
<1> QED
  BY <1>3, <1>4, <1>5, <1>6, <1>7, <1>8, <1>9, <1>10, <1>11, <1>12 DEF Next, Dispatch

\* The final result of a job is how its last run ended, and a failure is final only
\* after all retries, for any plan, retries and moments of the deadline and the abort.
THEOREM LastRunDecidesHolds == Spec => []LastRunDecides
<1>1. Init => RanInv /\ PlainInv /\ CountInv
  <2> SUFFICES ASSUME Init PROVE RanInv /\ PlainInv /\ CountInv
    OBVIOUS
  <2>1. /\ pc = "fill" /\ Recorded = {}
        /\ \A j \in Jobs : /\ thread[j] = "none" /\ executed[j] = <<>>
                           /\ latest[j].exit = "none" /\ outcome[j].exit = "none"
    BY DEF Init, NoResult, Recorded
  <2> QED
    BY <2>1 DEF RanInv, PlainInv, CountInv, CountOf, InHandAgain
<1>2. Inv /\ RanInv /\ CountInv => LastRunDecides
  <2> SUFFICES ASSUME Inv, RanInv, CountInv, pc = "done", NEW j \in Jobs, executed[j] # <<>>
               PROVE  /\ Fits(latest[j], j)
                      /\ latest[j].exit \in {"failed", "error"} /\ ~abort /\ ~expired =>
                           Len(executed[j]) = MaxRetries + 1
    BY DEF LastRunDecides, Fits, Last
  <2>1. thread[j] = "none"
    BY DEF Inv, Drained, Futures
  <2>2. Fits(latest[j], j)
    BY <2>1 DEF RanInv, RanOf, Unwound
  <2>3. ASSUME latest[j].exit \in {"failed", "error"}, ~abort, ~expired
        PROVE  Len(executed[j]) = MaxRetries + 1
    <3>1. CountOf(j) /\ j \in Recorded
      BY <2>3 DEF CountInv, Recorded, Unwound
    <3> QED
      BY <2>1, <2>3, <3>1 DEF CountOf, InHandAgain
  <2> QED
    BY <2>2, <2>3
<1>3. Inv /\ RanInv /\ PlainInv /\ CountInv /\ [Next]_vars => (RanInv /\ PlainInv /\ CountInv)'
  BY RanStep, PlainStep, CountStep
<1> HIDE DEF Init, Next, vars, Inv, RanInv, PlainInv, CountInv, LastRunDecides
<1> QED
  BY <1>1, <1>2, <1>3, InvHolds, PTL DEF Spec

-----------------------------------------------------------------------------
(***************************************************************************)
(* The dispatcher implements RetryPool: its initial states are initial      *)
(* states of the promise, and every step is a step of it or a stutter.      *)
(***************************************************************************)
(* The steps of the promise                                                 *)

\* A step that changes no verdict and runs nothing is a stutter.
LEMMA Stutter ==
  ASSUME \A j \in Jobs : /\ Decided(j)' <=> Decided(j)
                         /\ Decided(j) => latest'[j] = latest[j]
                         /\ thread'[j] = "running" <=> thread[j] = "running"
                         /\ executed'[j] = executed[j]
  PROVE  UNCHANGED Pool!promise
<1>1. Verdict' = Verdict
  BY DEF Verdict
<1>2. Tries' = Tries
  BY DEF Tries
<1>3. Busy' = Busy
  BY DEF Busy
<1> QED
  BY <1>1, <1>2, <1>3 DEF Pool!promise

\* A verdict is one of the three.
LEMMA VerdictDecided == \A result : /\ VerdictOf(result) \in Pool!Decided
                                    /\ VerdictOf(result) = "passed" => result.exit = "ok"
  BY DEF VerdictOf, Pool!Decided

\* Jobs that become decided, having run if they passed, are decided together.
LEMMA Decides ==
  ASSUME TypeOK, NEW S \in SUBSET Jobs,
         UNCHANGED executed,
         \A j \in Jobs : thread'[j] = "running" <=> thread[j] = "running",
         \A j \in S : /\ ~Decided(j) /\ thread[j] # "running" /\ Decided(j)'
                      /\ latest'[j].exit = "ok" => executed[j] # <<>>,
         \A j \in Jobs \ S : /\ Decided(j)' <=> Decided(j)
                             /\ Decided(j) => latest'[j] = latest[j]
  PROVE  Pool!Next
<1> DEFINE v == [j \in S |-> VerdictOf(latest'[j])]
<1>1. v \in [S -> Pool!Decided]
  BY VerdictDecided
<1>2. \A j \in S : v[j] = "passed" => Tries[j] > 0
  <2> SUFFICES ASSUME NEW j \in S, v[j] = "passed" PROVE Tries[j] > 0
    OBVIOUS
  <2>1. executed[j] # <<>> /\ executed[j] \in Seq(Exit)
    BY VerdictDecided DEF TypeOK
  <2>2. Len(executed[j]) > 0 /\ Len(executed[j]) \in Nat
    BY <2>1
  <2> QED
    BY <2>2, j \in Jobs, thread[j] # "running" DEF Tries
<1>3. Verdict' = [j \in Jobs |-> IF j \in S THEN v[j] ELSE Verdict[j]]
  BY DEF Verdict
<1>4. Tries' = Tries /\ Busy' = Busy
  BY DEF Tries, Busy
<1>5. \A j \in S : Verdict[j] = "open" /\ j \notin Busy
  BY DEF Verdict, Busy
<1> HIDE DEF v
<1>6. Pool!Decide(S)
  BY <1>1, <1>2, <1>3, <1>4, <1>5 DEF Pool!Decide
<1> QED
  BY <1>6 DEF Pool!Next

-----------------------------------------------------------------------------
(* The steps                                                                *)

\* Giving jobs up that are not in the pool decides those that had no result, and
\* the job in hand, if there is one, that has a result.
LEMMA GiveUpDecides ==
  ASSUME Inv, NEW jobs \in SUBSET Jobs, NEW exit \in {"aborted", "timeout"},
         NEW scope \in Scope \ {"none"}, GiveUp(jobs, exit, scope),
         \A j \in jobs \ Recorded : thread[j] = "none",
         UNCHANGED <<thread, executed>>, pc' \notin {"decide", "resubmit"}
  PROVE  Pool!Next
<1> DEFINE S == {j \in Jobs : ~Decided(j) /\ Decided(j)'}
<1>1. TypeOK
  BY DEF Inv
<1>2. Recorded' = Recorded \cup jobs
  BY <1>1, GiveUpEffect
<1>3. \A j \in Jobs : j \in Recorded \/ j \notin jobs => latest'[j] = latest[j]
  BY <1>1, GiveUpResult
<1>4. \A j \in jobs \ Recorded : latest'[j].exit = exit
  BY <1>1, GiveUpResult
<1>5. ASSUME NEW j \in S
      PROVE  /\ ~Decided(j) /\ thread[j] # "running" /\ Decided(j)'
             /\ latest'[j].exit = "ok" => executed[j] # <<>>
  BY <1>1, <1>3, <1>4 DEF Decided, Inv, Returned
<1>6. ASSUME NEW j \in Jobs \ S
      PROVE  /\ Decided(j)' <=> Decided(j)
             /\ Decided(j) => latest'[j] = latest[j]
  BY <1>2, <1>3 DEF Decided
<1> HIDE DEF S
<1> QED
  BY <1>1, <1>5, <1>6, Decides, S \in SUBSET Jobs DEF S

\* Launching a job that has no verdict is a stutter.
LEMMA LaunchStutters ==
  ASSUME TypeOK, NEW job \in Jobs, ~Decided(job), thread[job] = "none",
         thread' = [thread EXCEPT ![job] = "submitted"],
         UNCHANGED <<latest, executed, current>>,
         \A j \in Jobs \ {job} : pc' \in {"decide", "resubmit"} /\ current = j
                                <=> pc \in {"decide", "resubmit"} /\ current = j
  PROVE  UNCHANGED Pool!promise
<1>1. thread'[job] = "submitted" /\ \A j \in Jobs \ {job} : thread'[j] = thread[j]
  BY DEF TypeOK
<1>2. Recorded' = Recorded
  BY DEF Recorded
<1>3. ~Decided(job)'
  BY <1>1 DEF Decided
<1>4. \A j \in Jobs \ {job} : Decided(j)' <=> Decided(j)
  BY <1>1, <1>2 DEF Decided
<1> QED
  BY <1>1, <1>3, <1>4, Stutter

\* Submitting a job launches it or decides jobs.
LEMMA SubmitRefines ==
  ASSUME Inv, NEW job \in Jobs, NEW rest \in Seq(Jobs), Submit(job, rest),
         job \in Recorded \/ job \in Waiting, ~Decided(job), thread[job] = "none",
         UNCHANGED <<executed, current>>, pc' \notin {"decide", "resubmit"},
         pc \in {"decide", "resubmit"} => current = job
  PROVE  [Pool!Next]_(Pool!promise)
<1>1. TypeOK
  BY DEF Inv
<1>2. CASE /\ thread' = [thread EXCEPT ![job] = "submitted"]
           /\ UNCHANGED <<latest, timedOut>>
  BY <1>1, <1>2, LaunchStutters
<1>3. CASE /\ UNCHANGED thread
           /\ \E exit \in {"aborted", "timeout"}, scope \in Scope \ {"none"} :
                 GiveUp({job} \cup Waiting, exit, scope)
  <2> DEFINE jobs == {job} \cup Waiting
  <2>1. PICK exit \in {"aborted", "timeout"}, scope \in Scope \ {"none"} :
          GiveUp(jobs, exit, scope)
    BY <1>3
  <2>2. jobs \in SUBSET Jobs /\ \A j \in jobs \ Recorded : thread[j] = "none"
    BY <1>1, WaitingJobs, WaitingIdle
  <2> HIDE DEF jobs
  <2> QED
    BY <1>3, <2>1, <2>2, GiveUpDecides
<1> QED
  BY <1>1, <1>2, <1>3, SubmitEffect

\* Leaving the job in hand alone decides it.
LEMMA SettleDecides ==
  ASSUME Inv, pc = "decide", pc' \in {"deadline", "unwind"}, UNCHANGED <<thread, latest, executed, current>>
  PROVE  Pool!Next
<1>1. current \in Recorded /\ current \in Jobs /\ thread[current] = "none"
  BY DEF Inv, InHand, Recorded
<1>2. Recorded' = Recorded
  BY DEF Recorded
<1>3. ~Decided(current) /\ Decided(current)'
  BY <1>1, <1>2 DEF Decided
<1>4. \A j \in Jobs \ {current} : Decided(j)' <=> Decided(j)
  BY <1>2 DEF Decided
<1>5. latest'[current].exit = "ok" => executed[current] # <<>>
  BY <1>1 DEF Inv, Returned
<1> QED
  BY <1>1, <1>3, <1>4, <1>5, Decides, {current} \in SUBSET Jobs DEF Inv

\* A step of the dispatching thread that changes no table is a stutter, unless it
\* takes up or lays down a job.
LEMMA ThinkStutters ==
  ASSUME UNCHANGED <<thread, latest, executed>>,
         \A j \in Jobs : pc' \in {"decide", "resubmit"} /\ current' = j
                     <=> pc \in {"decide", "resubmit"} /\ current = j
  PROVE  UNCHANGED Pool!promise
<1>1. Recorded' = Recorded
  BY DEF Recorded
<1>2. \A j \in Jobs : Decided(j)' <=> Decided(j)
  BY <1>1 DEF Decided
<1> QED
  BY <1>2, Stutter

\* Taking a future out of the table leaves its job open, if it is taken up, or
\* decides it by an earlier result, if it raised.
LEMMA CollectRefines ==
  ASSUME Inv, NEW j \in Jobs, Collect(j) \/ CollectRaised(j)
  PROVE  [Pool!Next]_(Pool!promise)
<1>1. TypeOK
  BY DEF Inv
<1>2. /\ pc = "wait" /\ thread[j] \in {"finished", "raised"}
      /\ thread' = [thread EXCEPT ![j] = "none"] /\ UNCHANGED executed
  BY DEF Collect, CollectRaised
<1>3. thread'[j] = "none" /\ \A k \in Jobs \ {j} : thread'[k] = thread[k]
  BY <1>1, <1>2 DEF TypeOK
<1>4. ~Decided(j)
  BY <1>2 DEF Decided
<1>5. CASE Collect(j)
  <2>1. pc' = "decide" /\ current' = j /\ latest' = [latest EXCEPT ![j] = outcome[j]]
    BY <1>5 DEF Collect, Goto
  <2>2. \A k \in Jobs \ {j} : latest'[k] = latest[k]
    BY <1>1, <2>1 DEF TypeOK
  <2>3. \A k \in Jobs \ {j} : k \in Recorded' <=> k \in Recorded
    BY <2>2 DEF Recorded
  <2>4. ~Decided(j)' /\ \A k \in Jobs \ {j} : Decided(k)' <=> Decided(k)
    BY <1>2, <1>3, <2>1, <2>3 DEF Decided
  <2> QED
    BY <1>2, <1>3, <1>4, <2>2, <2>4, Stutter
<1>6. CASE CollectRaised(j)
  <2>1. pc' = "unwind" /\ UNCHANGED <<latest, current>>
    BY <1>6 DEF CollectRaised, Goto
  <2>2. Recorded' = Recorded
    BY <2>1 DEF Recorded
  <2>3. \A k \in Jobs \ {j} : Decided(k)' <=> Decided(k)
    BY <1>2, <1>3, <2>1, <2>2 DEF Decided
  <2>4. \A k \in Jobs : thread'[k] = "running" <=> thread[k] = "running"
    BY <1>2, <1>3
  <2>5. CASE j \in Recorded
    <3>1. Decided(j)'
      BY <1>3, <2>1, <2>2, <2>5 DEF Decided
    <3>2. latest'[j].exit = "ok" => executed[j] # <<>>
      BY <2>1 DEF Inv, Returned
    <3> QED
      BY <1>1, <1>2, <1>4, <2>1, <2>3, <2>4, <3>1, <3>2, Decides, {j} \in SUBSET Jobs
  <2>6. CASE j \notin Recorded
    <3>1. ~Decided(j)'
      BY <2>2, <2>6 DEF Decided
    <3> QED
      BY <1>2, <1>4, <2>1, <2>3, <2>4, <3>1, Stutter
  <2> QED
    BY <2>5, <2>6
<1> QED
  BY <1>5, <1>6

\* A thread of the pool tries its job, ends its try, or does nothing that counts.
LEMMA RunOneRefines ==
  ASSUME Inv, NEW j \in Jobs, RunOne(j)
  PROVE  [Pool!Next]_(Pool!promise)
<1>1. TypeOK
  BY DEF Inv
<1>2. /\ UNCHANGED <<pc, current, attempts, latest>>
      /\ Futures' = Futures
      /\ thread[j] \in {"submitted", "running"}
      /\ \A k \in Jobs \ {j} : thread'[k] = thread[k] /\ executed'[k] = executed[k]
  BY <1>1, RunOneEffect
<1>3. \/ /\ thread[j] = "submitted" /\ thread'[j] \in {"finished", "running", "raised"}
         /\ executed' = executed
      \/ /\ thread[j] = "running" /\ thread'[j] \in {"finished", "raised"}
         /\ \E ended \in Exit : executed'[j] = Append(executed[j], ended)
  <2>1. "error" \in Exit
    BY DEF Exit
  <2> QED
    BY <1>1, <2>1, RunOneEffect, Zenon
<1>4. Recorded' = Recorded
  BY <1>2 DEF Recorded
<1>5. ~Decided(j) /\ ~Decided(j)'
  BY <1>2, <1>3 DEF Decided
<1>6. \A k \in Jobs \ {j} : Decided(k)' <=> Decided(k)
  BY <1>2, <1>4 DEF Decided
<1>7. Verdict' = Verdict /\ Verdict[j] = "open"
  BY <1>2, <1>5, <1>6 DEF Verdict
<1>8. CASE thread[j] = "submitted" /\ thread'[j] # "running"
  BY <1>2, <1>3, <1>5, <1>6, <1>8, Stutter
<1>9. CASE thread[j] = "submitted" /\ thread'[j] = "running"
  <2>1. executed' = executed
    BY <1>3, <1>9
  <2>2. Busy' = Busy \cup {j} /\ j \notin Busy
    BY <1>2, <1>9 DEF Busy
  <2>3. Tries' = [Tries EXCEPT ![j] = @ + 1]
    <3>1. Tries'[j] = Tries[j] + 1
      <4>1. Tries[j] = Len(executed[j]) + 0 /\ Tries'[j] = Len(executed[j]) + 1
        BY <1>9, <2>1 DEF Tries
      <4>2. Len(executed[j]) \in Nat
        BY <1>1 DEF TypeOK
      <4> QED
        BY <4>1, <4>2
    <3>3. \A k \in Jobs \ {j} : Tries'[k] = Tries[k]
      BY <1>2 DEF Tries
    <3> QED
      BY <3>1, <3>3 DEF Tries
  <2>4. Tries[j] <= MaxRetries
    BY <1>1, <1>9, DispatchAssumption DEF Inv, Counted, TypeOK, Tries
  <2>5. Cardinality(Busy) < MaxWorkers
    <3>1. j \in Futures /\ Busy \subseteq Futures \ {j}
      BY <1>9 DEF Futures, Busy
    <3>2. /\ Cardinality(Futures \ {j}) \in Nat
          /\ Cardinality(Futures \ {j}) = Cardinality(Futures) - 1
      BY <3>1, OneFuture
    <3>3. IsFiniteSet(Futures \ {j})
      BY FuturesFinite, FS_Subset
    <3>4. Cardinality(Busy) <= Cardinality(Futures \ {j}) /\ Cardinality(Busy) \in Nat
      BY <3>1, <3>3, FS_Subset, FS_CardinalityType
    <3>5. Cardinality(Futures) <= width /\ width \in 1 .. MaxWorkers
      BY <1>1 DEF Inv, Room, TypeOK
    <3> QED
      BY <3>2, <3>4, <3>5, FuturesFinite, DispatchAssumption
  <2>6. Pool!Try(j)
    BY <1>7, <2>2, <2>3, <2>4, <2>5, Zenon DEF Pool!Try, Pool!Cardinality, Cardinality
  <2> QED
    BY <2>6 DEF Pool!Next
<1>10. CASE thread[j] = "running"
  <2>1. /\ thread'[j] \in {"finished", "raised"}
        /\ \E ended \in Exit : executed'[j] = Append(executed[j], ended)
    BY <1>3, <1>10
  <2>2. Busy' = Busy \ {j} /\ j \in Busy
    BY <1>2, <1>10, <2>1 DEF Busy
  <2>3. Tries' = Tries
    <3>1. executed[j] \in Seq(Exit)
      BY <1>1 DEF TypeOK
    <3>2. Len(executed'[j]) = Len(executed[j]) + 1 /\ Len(executed[j]) \in Nat
      BY <2>1, <3>1
    <3>3. Tries[j] = Len(executed[j]) + 1 /\ Tries'[j] = Len(executed'[j]) + 0
      BY <1>10, <2>1 DEF Tries
    <3>4. \A k \in Jobs \ {j} : Tries'[k] = Tries[k]
      BY <1>2 DEF Tries
    <3> QED
      <4>1. Tries'[j] = Tries[j]
        BY <3>2, <3>3
      <4> QED
        BY <3>4, <4>1 DEF Tries
  <2>4. Pool!EndTry(j)
    BY <1>7, <2>2, <2>3 DEF Pool!EndTry
  <2> QED
    BY <2>4 DEF Pool!Next
<1> QED
  BY <1>2, <1>8, <1>9, <1>10

\* Every step of the dispatcher is a step of the promise or a stutter.
LEMMA StepRefines == Inv /\ [Next]_vars => [Pool!Next]_(Pool!promise)
<1> SUFFICES ASSUME Inv, [Next]_vars PROVE [Pool!Next]_(Pool!promise)
  OBVIOUS
<1>1. TypeOK
  BY DEF Inv
<1>2. CASE Fill
  <2>1. CASE pending # <<>> /\ Cardinality(Futures) < width
    <3>1. /\ Submit(Head(pending), Tail(pending)) /\ pc' = pc /\ pc = "fill"
          /\ UNCHANGED <<executed, current>>
      BY <1>2, <2>1 DEF Fill
    <3>2. Head(pending) \in Waiting /\ Head(pending) \in Jobs /\ Tail(pending) \in Seq(Jobs)
      BY <2>1, FirstWaiting DEF Inv
    <3>3. thread[Head(pending)] = "none" /\ ~Decided(Head(pending))
      BY <3>2 DEF Inv, Untouched, Decided
    <3> QED
      BY <3>1, <3>2, <3>3, SubmitRefines
  <2>2. CASE ~(pending # <<>> /\ Cardinality(Futures) < width)
    <3>1. /\ UNCHANGED <<thread, latest, executed, current>>
          /\ pc \notin {"decide", "resubmit"} /\ pc' \notin {"decide", "resubmit"}
      BY <1>2, <2>2 DEF Fill, Goto
    <3> QED
      BY <3>1, ThinkStutters
  <2> QED
    BY <2>1, <2>2
<1>3. CASE Settle
  <2>1. UNCHANGED <<thread, executed, current>> /\ pc = "decide"
    BY <1>3 DEF Settle
  <2>2. CASE GiveUp(Waiting, "aborted", "watch") /\ Goto("deadline")
    <3>1. "watch" \in Scope \ {"none"} /\ "aborted" \in {"aborted", "timeout"}
      BY DEF Scope
    <3>2. Waiting \in SUBSET Jobs /\ pc' \notin {"decide", "resubmit"}
      BY <1>1, <2>2, WaitingJobs DEF Goto
    <3>3. \A j \in Waiting \ Recorded : thread[j] = "none"
      BY WaitingIdle
    <3> QED
      BY <2>1, <2>2, <3>1, <3>2, <3>3, GiveUpDecides
  <2>3. CASE Goto("resubmit") /\ UNCHANGED latest
    BY <2>1, <2>3, ThinkStutters DEF Goto
  <2>4. CASE Goto("deadline") /\ UNCHANGED latest
    BY <2>1, <2>4, SettleDecides DEF Goto
  <2> QED
    BY <1>3, <2>2, <2>3, <2>4 DEF Settle
<1>4. CASE Resubmit
  <2>1. /\ Submit(current, pending) /\ pc = "resubmit" /\ pc' = "deadline"
        /\ UNCHANGED <<executed, current>>
    BY <1>4 DEF Resubmit, Goto
  <2>2. current \in Recorded /\ current \in Jobs /\ thread[current] = "none"
    BY <2>1 DEF Inv, InHand, Recorded
  <2>3. ~Decided(current) /\ pending \in Seq(Jobs)
    BY <1>1, <2>1 DEF Decided, TypeOK
  <2> QED
    BY <2>1, <2>2, <2>3, SubmitRefines
<1>5. CASE CheckDeadline
  <2>1. /\ UNCHANGED <<thread, executed>> /\ pc = "deadline" /\ pc' = "fill"
    BY <1>5 DEF CheckDeadline, Goto
  <2>2. CASE GiveUp(Waiting, "timeout", "stage")
    <3>1. "stage" \in Scope \ {"none"} /\ "timeout" \in {"aborted", "timeout"}
      BY DEF Scope
    <3>2. Waiting \in SUBSET Jobs /\ \A j \in Waiting \ Recorded : thread[j] = "none"
      BY <1>1, WaitingJobs, WaitingIdle
    <3> QED
      BY <2>1, <2>2, <3>1, <3>2, GiveUpDecides
  <2>3. CASE UNCHANGED latest
    BY <2>1, <2>3, ThinkStutters
  <2> QED
    BY <1>5, <2>2, <2>3 DEF CheckDeadline
<1>6. CASE Unwind \/ Finish \/ DeadlinePasses \/ AbortRequested \/ UNCHANGED vars
  <2>1. /\ UNCHANGED <<thread, latest, executed, current>>
        /\ pc' \in {"decide", "resubmit"} <=> pc \in {"decide", "resubmit"}
    BY <1>6 DEF Unwind, Finish, DeadlinePasses, AbortRequested, Goto, vars
  <2> QED
    BY <2>1, ThinkStutters
<1>7. CASE DispatchRaises
  <2>1. UNCHANGED <<thread, executed, current>> /\ pc' = "unwind"
    BY <1>7, DispatchRaisesEffect
  <2>2. ASSUME NEW jobs \in SUBSET Jobs, NEW exit \in {"aborted", "timeout"},
               NEW scope \in Scope \ {"none"}, GiveUp(jobs, exit, scope),
               \A j \in jobs : j \in Waiting \/ j \in Recorded
        PROVE  Pool!Next
    BY <2>1, <2>2, WaitingIdle, GiveUpDecides
  <2>3. CASE pc = "decide" /\ UNCHANGED latest
    BY <2>1, <2>3, SettleDecides
  <2> QED
    BY <1>7, <2>2, <2>3, DispatchRaisesEffect
<1> QED
  BY <1>2, <1>3, <1>4, <1>5, <1>6, <1>7, CollectRefines, RunOneRefines
  DEF Next, Dispatch, Terminated

\* The dispatcher keeps the promise of RetryPool for any plan, any number of
\* workers and retries: bounded tries, bounded concurrency, one try of a job at a
\* time and one final verdict (the loop of run_jobs and its thread pool).
THEOREM KeepsPromiseHolds == Spec => KeepsPromise
<1>1. Init => Pool!Init
  <2> SUFFICES ASSUME Init PROVE Pool!Init
    OBVIOUS
  <2>1. thread = [j \in Jobs |-> "none"] /\ latest = [j \in Jobs |-> NoResult]
        /\ executed = [j \in Jobs |-> <<>>]
    BY DEF Init
  <2>2. \A j \in Jobs : ~Decided(j)
    BY <2>1 DEF Decided, Recorded, NoResult
  <2>3. Verdict = [j \in Jobs |-> "open"] /\ Busy = {}
    BY <2>1, <2>2 DEF Verdict, Busy
  <2>4. Tries = [j \in Jobs |-> 0]
    BY <2>1 DEF Tries
  <2> QED
    BY <2>3, <2>4 DEF Pool!Init
<1> QED
  BY <1>1, StepRefines, InvHolds, PTL DEF Spec, KeepsPromise, Pool!Spec

-----------------------------------------------------------------------------
(* What a stage may rely on, read off the promise                           *)

\* At most MaxWorkers jobs run at once, no job runs more than MaxRetries + 1 times, a
\* job that runs has no verdict yet, and one that passed was run.
BoundedWork ==
  /\ Cardinality(Busy) <= MaxWorkers
  /\ \A j \in Jobs : /\ Tries[j] \in 0 .. MaxRetries + 1
                     /\ j \in Busy => Verdict[j] = "open"
                     /\ Verdict[j] = "passed" => Tries[j] > 0

\* A verdict, once given, stays.
VerdictStays == [][\A j \in Jobs : Verdict[j] # "open" => Verdict'[j] = Verdict[j]]_vars

\* The jobs that run are jobs of the stage, so they are finitely many.
LEMMA BusyFinite == IsFiniteSet(Busy) /\ Cardinality(Busy) \in Nat
  BY DispatchAssumption, FS_Subset, FS_CardinalityType DEF Busy

\* A step of RetryPool keeps the bounds.
LEMMA PoolBounded ==
  ASSUME BoundedWork, [Pool!Next]_(Pool!promise)
  PROVE  BoundedWork'
<1> USE DispatchAssumption
<1>1. CASE UNCHANGED Pool!promise
  BY <1>1, Zenon DEF Pool!promise, BoundedWork
<1>2. ASSUME NEW j \in Jobs, Pool!Try(j) PROVE BoundedWork'
  <2>1. /\ Verdict[j] = "open" /\ j \notin Busy /\ Tries[j] <= MaxRetries
        /\ Tries' = [Tries EXCEPT ![j] = @ + 1]
        /\ Busy' = Busy \cup {j} /\ Verdict' = Verdict
    BY <1>2 DEF Pool!Try
  <2>2. Cardinality(Busy) < MaxWorkers
    BY <1>2, Zenon DEF Pool!Try, Pool!Cardinality, Cardinality
  <2>3. Cardinality(Busy') = Cardinality(Busy) + 1
    BY <2>1, BusyFinite, FS_AddElement
  <2>4. Cardinality(Busy') <= MaxWorkers
    BY <2>2, <2>3, BusyFinite
  <2>5. Tries = [k \in Jobs |-> Tries[k]]
    BY DEF Tries
  <2>6. /\ Tries'[j] = Tries[j] + 1
        /\ \A k \in Jobs \ {j} : Tries'[k] = Tries[k]
    BY <2>1, <2>5
  <2> QED
    BY <2>1, <2>4, <2>6 DEF BoundedWork
<1>3. ASSUME NEW j \in Jobs, Pool!EndTry(j) PROVE BoundedWork'
  <2>1. Busy' = Busy \ {j} /\ Tries' = Tries /\ Verdict' = Verdict
    BY <1>3 DEF Pool!EndTry
  <2>2. Cardinality(Busy') <= Cardinality(Busy) /\ Cardinality(Busy') \in Nat
    BY <2>1, BusyFinite, FS_Subset, FS_CardinalityType
  <2>3. Cardinality(Busy') <= MaxWorkers
    BY <2>2, BusyFinite DEF BoundedWork
  <2> QED
    BY <2>1, <2>3 DEF BoundedWork
<1>4. ASSUME NEW S \in SUBSET Jobs, Pool!Decide(S) PROVE BoundedWork'
  <2>1. /\ Tries' = Tries /\ Busy' = Busy
        /\ \A j \in S : j \notin Busy
    BY <1>4 DEF Pool!Decide
  <2>2. \A j \in Jobs : IF j \in S THEN Verdict'[j] = "passed" => Tries[j] > 0
                                   ELSE Verdict'[j] = Verdict[j]
    BY <1>4 DEF Pool!Decide
  <2> QED
    BY <2>1, <2>2 DEF BoundedWork
<1> QED
  BY <1>1, <1>2, <1>3, <1>4 DEF Pool!Next

\* A step of RetryPool keeps the verdicts that were given.
LEMMA PoolDecidesOnce ==
  ASSUME [Pool!Next]_(Pool!promise), NEW j \in Jobs, Verdict[j] # "open"
  PROVE  Verdict'[j] = Verdict[j]
<1>1. CASE UNCHANGED Pool!promise
  BY <1>1 DEF Pool!promise
<1>2. ASSUME NEW k \in Jobs, Pool!Try(k) \/ Pool!EndTry(k) PROVE Verdict'[j] = Verdict[j]
  BY <1>2 DEF Pool!Try, Pool!EndTry
<1>3. ASSUME NEW S \in SUBSET Jobs, Pool!Decide(S) PROVE Verdict'[j] = Verdict[j]
  BY <1>3 DEF Pool!Decide
<1> QED
  BY <1>1, <1>2, <1>3 DEF Pool!Next

\* run_jobs never runs more than max_workers jobs at once, nor a job more often than
\* max_retries allows, and reports no job as passed that it did not run.
THEOREM BoundedWorkHolds == Spec => []BoundedWork
<1>1. Init => BoundedWork
  <2> SUFFICES ASSUME Init PROVE BoundedWork
    OBVIOUS
  <2>1. thread = [j \in Jobs |-> "none"] /\ latest = [j \in Jobs |-> NoResult]
        /\ executed = [j \in Jobs |-> <<>>]
    BY DEF Init
  <2>2. \A j \in Jobs : ~Decided(j)
    BY <2>1 DEF Decided, Recorded, NoResult
  <2>3. Busy = {} /\ \A j \in Jobs : Verdict[j] = "open" /\ Tries[j] = 0
    BY <2>1, <2>2 DEF Verdict, Busy, Tries
  <2>4. Cardinality(Busy) = 0
    BY <2>3, FS_EmptySet
  <2> QED
    BY <2>3, <2>4, DispatchAssumption DEF BoundedWork
<1>2. BoundedWork /\ [Pool!Next]_(Pool!promise) => BoundedWork'
  BY PoolBounded
<1> QED
  BY <1>1, <1>2, StepRefines, InvHolds, PTL DEF Spec

\* A retry, a time-out or an abort never changes a verdict that was given.
THEOREM VerdictStaysHolds == Spec => VerdictStays
<1>1. Inv /\ [Next]_vars
        => [\A j \in Jobs : Verdict[j] # "open" => Verdict'[j] = Verdict[j]]_vars
  BY StepRefines, PoolDecidesOnce
<1> QED
  BY <1>1, InvHolds, PTL DEF Spec, VerdictStays
=============================================================================

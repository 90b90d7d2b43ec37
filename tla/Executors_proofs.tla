-------------------------- MODULE Executors_proofs --------------------------
(***************************************************************************)
(* The two executors.  LocalExecutor keeps its types, leaves no leader      *)
(* behind and tells the truth about how the command ended, for any number   *)
(* of lines, any pipe, and with callbacks that raise or are slow.  What a   *)
(* result of docker_run means, and that a container is removed, for any     *)
(* amount of output and whatever calls to the daemon fail.                  *)
(***************************************************************************)
EXTENDS LocalExecutor, DockerRun, TLAPS

-----------------------------------------------------------------------------
(* LocalExecutorAdapter.run. *)


\* A pump has not taken more than was written.
TakenIsWritten == \A s \in Streams : sink[s] <= wrote[s]

\* The leader has a status when it does not run any more, and only then.
StatusAgrees == status = "running" <=> "leader" \in alive

Looping == pc \in {"stopped?", "ended?", "late?"}
Terminating == pc \in {"terminate", "grace"}

\* Past the loop and the termination, the leader is gone.
GoneAfter == ~Looping /\ ~Terminating => "leader" \notin alive

\* The loop settles on a code when it ends, and has its reason then.
CodeHasReason ==
  /\ Looping <=> code = "none"
  /\ code \in Ended => status = code
  /\ code = "timeout" => limited /\ late
  /\ code = "stopped" => stopping

IInv == TypeOK /\ TakenIsWritten /\ StatusAgrees /\ GoneAfter /\ CodeHasReason

\* The initial states satisfy the invariant.
LEMMA InitIInv == Init => IInv
<1> SUFFICES ASSUME Init PROVE IInv
  OBVIOUS
<1>1. Nothing \in [Streams -> 0 .. MaxLines]
  BY ConstantsAssumption DEF Nothing
<1>2. TypeOK
  BY <1>1 DEF Init, TypeOK, Group, Ended, Finished
<1>3. TakenIsWritten
  BY DEF Init, TakenIsWritten, Nothing
<1>4. StatusAgrees /\ GoneAfter /\ CodeHasReason
  BY DEF Init, StatusAgrees, GoneAfter, CodeHasReason, Looping, Terminating, Ended
<1> QED
  BY <1>2, <1>3, <1>4 DEF IInv

\* One more line written keeps the count within the bound and above what was
\* taken.
LEMMA OneMore ==
  ASSUME NEW w \in [Streams -> 0 .. MaxLines], NEW f \in [Streams -> 0 .. MaxLines],
         NEW s \in Streams, w[s] < MaxLines, \A t \in Streams : f[t] <= w[t]
  PROVE  LET v == [w EXCEPT ![s] = w[s] + 1]
         IN v \in [Streams -> 0 .. MaxLines] /\ \A t \in Streams : f[t] <= v[t]
  BY ConstantsAssumption

\* One more line taken does not exceed what was written.
LEMMA OneTaken ==
  ASSUME NEW w \in [Streams -> 0 .. MaxLines], NEW f \in [Streams -> 0 .. MaxLines],
         NEW s \in Streams, f[s] # w[s], \A t \in Streams : f[t] <= w[t]
  PROVE  LET g == [f EXCEPT ![s] = f[s] + 1]
         IN g \in [Streams -> 0 .. MaxLines] /\ \A t \in Streams : g[t] <= w[t]
  BY ConstantsAssumption

-----------------------------------------------------------------------------
(* What a step keeps, one part of the invariant at a time. *)

USE DEF Next, Run, vars, command, pumps, main, Write, Fork, Die, Exit, TimePasses,
        PumpGoes, Enter, ReadLine, ReadEnd, CallbackGoesOn, CallbackStops,
        CallbackRaises, Pump, Goto, Settle, Signal, SeeStop, SeeEnd, SeeDeadline,
        Terminate, Terminated, Reap, Kill, Report, Join, Close, Return

\* The variables with a small range, without those that a pump of its own has.
Kinds ==
  /\ limited \in BOOLEAN /\ late \in BOOLEAN /\ stopping \in BOOLEAN
  /\ deaf \subseteq Group /\ alive \subseteq Group
  /\ status \in Ended \cup {"running"}
  /\ code \in Ended \cup {"none", "stopped", "timeout"}

Counters ==
  /\ wrote \in [Streams -> 0 .. MaxLines] /\ due \in [Streams -> 0 .. MaxLines]
  /\ sink \in [Streams -> 0 .. MaxLines] /\ result \in [Streams -> 0 .. MaxLines]

Places ==
  /\ pump \in [Streams -> Finished \cup {"idle", "read", "callback"}]
  /\ open \in [Streams -> BOOLEAN]
  /\ pc \in {"stopped?", "ended?", "late?", "terminate", "grace", "report",
             "join stdout", "join stderr", "close stdout", "close stderr",
             "return", "done", "raised"}

LEMMA KindsStay ==
  ASSUME Kinds, [Next]_vars
  PROVE  Kinds'
<1>1. (limited \in BOOLEAN /\ late \in BOOLEAN /\ stopping \in BOOLEAN)'
  BY DEF Kinds
<1>2. (deaf \subseteq Group /\ alive \subseteq Group)'
  BY DEF Kinds, Group
<1>3. (status \in Ended \cup {"running"})'
  BY DEF Kinds, Ended
<1>4. (code \in Ended \cup {"none", "stopped", "timeout"})'
  BY DEF Kinds, Ended
<1> QED
  BY <1>1, <1>2, <1>3, <1>4 DEF Kinds

LEMMA PlacesStay ==
  ASSUME Places, [Next]_vars
  PROVE  Places'
<1>1. (pump \in [Streams -> Finished \cup {"idle", "read", "callback"}])'
  BY DEF Places, Finished
<1>2. (open \in [Streams -> BOOLEAN])'
  BY DEF Places
<1>3. (pc \in {"stopped?", "ended?", "late?", "terminate", "grace", "report",
               "join stdout", "join stderr", "close stdout", "close stderr",
               "return", "done", "raised"})'
  BY DEF Places
<1> QED
  BY <1>1, <1>2, <1>3 DEF Places

\* What the group writes in all bounds what it writes to a stream.
LEMMA RoomForOne ==
  ASSUME wrote \in [Streams -> 0 .. MaxLines], wrote["stdout"] + wrote["stderr"] < MaxLines,
         NEW s \in Streams
  PROVE  wrote[s] < MaxLines
<1>1. wrote["stdout"] \in 0 .. MaxLines /\ wrote["stderr"] \in 0 .. MaxLines
  BY DEF Streams
<1>2. s = "stdout" \/ s = "stderr"
  BY DEF Streams
<1> QED BY <1>1, <1>2, ConstantsAssumption

\* A step writes one line, takes one, or does neither.
LEMMA OneLine ==
  ASSUME Counters, [Next]_vars
  PROVE  \/ /\ UNCHANGED sink
            /\ \E s \in Streams : /\ wrote[s] < MaxLines
                                  /\ wrote' = [wrote EXCEPT ![s] = @ + 1]
         \/ /\ UNCHANGED wrote
            /\ \E s \in Streams : /\ sink[s] # wrote[s]
                                  /\ sink' = [sink EXCEPT ![s] = @ + 1]
         \/ UNCHANGED <<wrote, sink>>
<1>1. CASE \E s \in Streams : Write(s)
  BY <1>1, RoomForOne DEF Counters
<1>2. CASE ~ \E s \in Streams : Write(s)
  BY <1>2 DEF Drained
<1> QED BY <1>1, <1>2

\* The history and the result are copies of the counters.
LEMMA Copies ==
  ASSUME [Next]_vars
  PROVE  due' \in {due, wrote} /\ result' \in {result, sink}
  OBVIOUS

LEMMA CountersStay ==
  ASSUME Counters, TakenIsWritten, [Next]_vars
  PROVE  Counters' /\ TakenIsWritten'
<1> USE DEF Counters, TakenIsWritten
<1>1. (due \in [Streams -> 0 .. MaxLines] /\ result \in [Streams -> 0 .. MaxLines])'
  BY Copies
<1> HIDE DEF Next
<1>2. ASSUME NEW s \in Streams, UNCHANGED sink, wrote[s] < MaxLines,
             wrote' = [wrote EXCEPT ![s] = @ + 1]
      PROVE  (wrote \in [Streams -> 0 .. MaxLines])' /\ TakenIsWritten'
  BY <1>2, OneMore
<1>3. ASSUME NEW s \in Streams, UNCHANGED wrote, sink[s] # wrote[s],
             sink' = [sink EXCEPT ![s] = @ + 1]
      PROVE  (sink \in [Streams -> 0 .. MaxLines])' /\ TakenIsWritten'
  BY <1>3, OneTaken
<1>4. /\ (wrote \in [Streams -> 0 .. MaxLines])'
      /\ (sink \in [Streams -> 0 .. MaxLines])'
      /\ TakenIsWritten'
  BY <1>2, <1>3, OneLine
<1> QED
  BY <1>1, <1>4

\* The leader gets a status by the step that ends it.
LEMMA StatusAgreesStay ==
  ASSUME Kinds, StatusAgrees, [Next]_vars
  PROVE  StatusAgrees'
  BY DEF Kinds, StatusAgrees, Group, Ended

\* The grace period is left when the leader has ended or is killed.
LEMMA GoneAfterStay ==
  ASSUME Kinds, Places, StatusAgrees, GoneAfter, [Next]_vars
  PROVE  GoneAfter'
  BY DEF Kinds, Places, StatusAgrees, GoneAfter, Looping, Terminating, Group, Ended

\* The loop settles on a code together with its reason, and the code stays.
LEMMA CodeHasReasonStay ==
  ASSUME Kinds, StatusAgrees, CodeHasReason, [Next]_vars
  PROVE  CodeHasReason'
<1> USE DEF Kinds, StatusAgrees, CodeHasReason, Looping, Group, Ended
<1>1. (Looping <=> code = "none")'
  OBVIOUS
<1>2. (code \in Ended => status = code)'
  OBVIOUS
<1>3. (code = "timeout" => limited /\ late)'
  OBVIOUS
<1>4. (code = "stopped" => stopping)'
  OBVIOUS
<1> QED
  BY <1>1, <1>2, <1>3, <1>4

LEMMA TypeParts == TypeOK <=> Kinds /\ Counters /\ Places
  BY DEF TypeOK, Kinds, Counters, Places

-----------------------------------------------------------------------------
(* The output of a command that ended by itself.  Its leader is gone, so    *)
(* what is due does not change any more.                                    *)

\* A pump that saw the end of its stream took all there is.
EndSeen == \A s \in Streams : pump[s] = "eof" => alive = {} /\ sink[s] = wrote[s]

DueWritten == \A s \in Streams : due[s] <= wrote[s]

\* The pump of s took what was due, or gave up.
Whole(s) == pump[s] \in {"stop", "broken"} \/ sink[s] >= due[s]

\* The pump of s has been waited for.
Past(s) == pc \in {"close stdout", "close stderr", "return", "done"}
                   \cup (IF s = "stdout" THEN {"join stderr"} ELSE {})

PastWhole == \A s \in Streams : Past(s) /\ code \in Ended => Whole(s)

ResultWhole ==
  pc = "done" /\ code \in Ended =>
    \A s \in Streams : pump[s] \in {"stop", "broken"} \/ result[s] >= due[s]

OutputInv == EndSeen /\ DueWritten /\ PastWhole /\ ResultWhole

LEMMA EndSeenStay ==
  ASSUME Kinds, Places, Counters, EndSeen, [Next]_vars
  PROVE  EndSeen'
<1>1. alive = {} => alive' = {} /\ wrote' = wrote
  BY DEF Kinds, Group
<1>2. ASSUME NEW s \in Streams, pump[s] = "eof" PROVE sink'[s] = sink[s]
  <2>1. UNCHANGED sink \/ \E t \in Streams : ReadLine(t)
    OBVIOUS
  <2> HIDE DEF Next
  <2>2. ASSUME NEW t \in Streams, ReadLine(t) PROVE sink'[s] = sink[s]
    <3>1. t # s /\ sink' = [sink EXCEPT ![t] = @ + 1]
      BY <1>2, <2>2
    <3> QED
      BY <3>1 DEF Counters
  <2> QED
    BY <2>1, <2>2
<1>3. ASSUME NEW s \in Streams, pump[s] # "eof", pump'[s] = "eof"
      PROVE  sink[s] = wrote[s] /\ alive = {} /\ UNCHANGED sink
  <2>1. PICK t \in Streams : Pump(t) /\ pump'[s] # pump[s]
    BY <1>3
  <2>2. s = t
    BY <2>1 DEF Places
  <2>3. ReadEnd(t)
    BY <1>3, <2>1, <2>2 DEF Places
  <2> QED
    BY <2>2, <2>3 DEF Drained
<1> HIDE DEF Next
<1> SUFFICES ASSUME NEW s \in Streams, pump'[s] = "eof"
             PROVE  alive' = {} /\ sink'[s] = wrote'[s]
  BY DEF EndSeen
<1>4. CASE pump[s] = "eof"
  BY <1>1, <1>2, <1>4 DEF EndSeen
<1>5. CASE pump[s] # "eof"
  BY <1>1, <1>3, <1>5
<1> QED
  BY <1>4, <1>5

LEMMA Grow ==
  ASSUME Counters, [Next]_vars
  PROVE  \A s \in Streams : sink'[s] >= sink[s] /\ wrote'[s] >= wrote[s]
<1> HIDE DEF Next
<1> USE DEF Counters
<1>1. ASSUME NEW s \in Streams, wrote' = [wrote EXCEPT ![s] = @ + 1]
      PROVE  \A t \in Streams : wrote'[t] >= wrote[t]
  BY <1>1, ConstantsAssumption
<1>2. ASSUME NEW s \in Streams, sink' = [sink EXCEPT ![s] = @ + 1]
      PROVE  \A t \in Streams : sink'[t] >= sink[t]
  BY <1>2, ConstantsAssumption
<1>3. \A t \in Streams : sink[t] >= sink[t] /\ wrote[t] >= wrote[t]
  BY ConstantsAssumption
<1> QED
  BY <1>1, <1>2, <1>3, OneLine

LEMMA DueWrittenStay ==
  ASSUME Counters, DueWritten, [Next]_vars
  PROVE  DueWritten'
<1> HIDE DEF Next
<1>1. \A s \in Streams : wrote[s] \in Nat /\ wrote'[s] >= wrote[s] /\ due[s] \in Nat
  BY Grow, ConstantsAssumption DEF Counters
<1>2. wrote' \in [Streams -> Nat]
  <2>1. wrote' \in [Streams -> 0 .. MaxLines] \/ \E s \in Streams : wrote' = [wrote EXCEPT ![s] = @ + 1]
    BY OneLine DEF Counters
  <2> QED
    BY <2>1, ConstantsAssumption DEF Counters
<1>3. CASE due' = due
  BY <1>1, <1>2, <1>3 DEF DueWritten
<1>4. CASE due' = wrote
  BY <1>1, <1>2, <1>4 DEF DueWritten
<1> QED
  BY <1>3, <1>4, Copies

\* When the leader is gone, what is due stays, and so does a pump that gave up.
LEMMA GoneKeeps ==
  ASSUME "leader" \notin alive, Kinds, Places, [Next]_vars
  PROVE  /\ due' = due
         /\ \A s \in Streams : pump[s] \in {"stop", "broken"} => pump'[s] = pump[s]
<1>1. due' = due
  BY DEF Kinds, Group
<1>2. \A s \in Streams : pump[s] \in {"stop", "broken"} => pump'[s] = pump[s]
  BY DEF Places
<1> QED
  BY <1>1, <1>2

LEMMA WholeStays ==
  ASSUME NEW s \in Streams, Whole(s), "leader" \notin alive,
         Kinds, Places, Counters, Counters', [Next]_vars
  PROVE  Whole(s)'
<1> HIDE DEF Next
<1>1. sink'[s] >= sink[s] /\ sink[s] \in Nat /\ sink'[s] \in Nat /\ due[s] \in Nat
  BY Grow, ConstantsAssumption DEF Counters
<1> QED
  BY <1>1, GoneKeeps DEF Whole

\* A pump is waited for where run says so, and it has finished then or has nothing
\* more to read.  From there on the code stays.
LEMMA PastWhen ==
  ASSUME NEW s \in Streams, ~Slow, ~Past(s), Past(s)', [Next]_vars
  PROVE  /\ pump[s] \in Finished \/ Drained(s)
         /\ UNCHANGED <<pump, sink, due>>
<1>1. CASE s = "stdout"
  <2>1. pc = "join stdout" /\ pc' = "join stderr"
    BY <1>1 DEF Past
  <2> QED
    BY <1>1, <2>1
<1>2. CASE s = "stderr"
  <2>1. pc = "join stderr" /\ pc' = "close stdout"
    BY <1>2 DEF Past
  <2> QED
    BY <1>2, <2>1
<1> QED
  BY <1>1, <1>2 DEF Streams

LEMMA PastCode ==
  ASSUME NEW s \in Streams, Past(s), [Next]_vars
  PROVE  code' = code /\ ~Looping /\ ~Terminating
  BY DEF Past, Looping, Terminating

LEMMA PastWholeStay ==
  ASSUME ~Slow, Kinds, Places, Counters, Counters', GoneAfter, EndSeen, DueWritten,
         PastWhole, [Next]_vars
  PROVE  PastWhole'
<1> HIDE DEF Next
<1> SUFFICES ASSUME NEW s \in Streams, Past(s)', (code \in Ended)' PROVE Whole(s)'
  BY DEF PastWhole
<1>1. CASE Past(s)
  <2>1. Whole(s) /\ "leader" \notin alive
    BY <1>1, PastCode DEF PastWhole, GoneAfter
  <2> QED
    BY <2>1, WholeStays
<1>2. CASE ~Past(s)
  <2>1. pump[s] \in {"stop", "broken"} \/ sink[s] = wrote[s]
    BY <1>2, PastWhen DEF EndSeen, Finished, Drained
  <2>2. due[s] <= wrote[s]
    BY DEF DueWritten
  <2>3. sink[s] = wrote[s] => sink[s] >= due[s]
    BY <2>2, ConstantsAssumption DEF Counters
  <2> QED
    BY <1>2, <2>1, <2>3, PastWhen DEF Whole
<1> QED
  BY <1>1, <1>2

\* The result is taken by the last step, and stays.
LEMMA ResultWhen ==
  ASSUME pc' = "done", [Next]_vars
  PROVE  \/ pc = "return" /\ result' = sink /\ UNCHANGED <<code, pump, due>>
         \/ pc = "done" /\ UNCHANGED <<result, code>>
  OBVIOUS

LEMMA ResultWholeStay ==
  ASSUME Kinds, Places, GoneAfter, PastWhole, ResultWhole, [Next]_vars
  PROVE  ResultWhole'
<1> HIDE DEF Next
<1> SUFFICES ASSUME pc' = "done", (code \in Ended)', NEW s \in Streams
             PROVE  (pump[s] \in {"stop", "broken"} \/ result[s] >= due[s])'
  BY DEF ResultWhole
<1>1. CASE pc = "return" /\ result' = sink /\ UNCHANGED <<code, pump, due>>
  <2>1. Past(s) /\ code \in Ended
    BY <1>1 DEF Past
  <2> QED
    BY <1>1, <2>1 DEF PastWhole, Whole
<1>2. CASE pc = "done" /\ UNCHANGED <<result, code>>
  <2>1. "leader" \notin alive
    BY <1>2 DEF GoneAfter, Looping, Terminating
  <2>2. pump[s] \in {"stop", "broken"} \/ result[s] >= due[s]
    BY <1>2 DEF ResultWhole
  <2> QED
    BY <1>2, <2>1, <2>2, GoneKeeps
<1> QED
  BY <1>1, <1>2, ResultWhen

LEMMA InitOutput == Init => OutputInv
  BY DEF Init, Nothing, OutputInv, EndSeen, DueWritten, PastWhole, Past, ResultWhole

-----------------------------------------------------------------------------
HIDE DEF Next, vars

\* The invariant holds of every behaviour.
THEOREM IInvHolds == Spec => []IInv
<1>1. IInv /\ [Next]_vars => IInv'
  <2> SUFFICES ASSUME IInv, [Next]_vars PROVE IInv'
    OBVIOUS
  <2>1. Kinds /\ Counters /\ Places
    BY TypeParts DEF IInv
  <2>2. Kinds' /\ Counters' /\ Places' /\ TakenIsWritten'
    BY <2>1, KindsStay, CountersStay, PlacesStay DEF IInv
  <2>3. StatusAgrees' /\ GoneAfter' /\ CodeHasReason'
    BY <2>1, StatusAgreesStay, GoneAfterStay, CodeHasReasonStay DEF IInv
  <2>4. TypeOK'
    BY <2>2 DEF TypeOK, Kinds, Counters, Places
  <2> QED
    BY <2>2, <2>3, <2>4 DEF IInv
<1> QED
  BY InitIInv, <1>1, PTL DEF Spec

\* The executor's variables keep their types; no line is taken that was not
\* written.
THEOREM ExecutorTyped == Spec => []TypeOK
<1>1. IInv => TypeOK
  BY DEF IInv
<1> QED
  BY IInvHolds, <1>1, PTL

\* run never returns, or raises, while the leader runs (_terminate_process).
THEOREM LeaderGoneHolds == Spec => []LeaderGone
<1>1. IInv => LeaderGone
  BY DEF IInv, LeaderGone, GoneAfter, Looping, Terminating, Returned
<1> QED
  BY IInvHolds, <1>1, PTL

\* The exit code that run returns has its reason: the leader's own status, a
\* limit that has passed, or a callback that returned False.
THEOREM CodeIsTrueHolds == Spec => []CodeIsTrue
<1>1. IInv => CodeIsTrue
  BY DEF IInv, TypeOK, CodeIsTrue, CodeHasReason, Looping
<1> QED
  BY IInvHolds, <1>1, PTL

\* run returns what the command had written when it ended by itself, whatever its
\* children hold open, as long as callbacks are quicker than the wait for the pumps.
THEOREM OutputCompleteHolds ==
  ASSUME ~Slow
  PROVE  Spec => []OutputComplete
<1>1. IInv /\ IInv' /\ OutputInv /\ [Next]_vars => OutputInv'
  <2> SUFFICES ASSUME IInv, IInv', OutputInv, [Next]_vars PROVE OutputInv'
    OBVIOUS
  <2>1. Kinds /\ Counters /\ Places /\ Counters' /\ GoneAfter
    BY TypeParts DEF IInv, TypeOK, Counters
  <2> QED
    BY <2>1, EndSeenStay, DueWrittenStay, PastWholeStay, ResultWholeStay DEF OutputInv
<1>2. OutputInv => OutputComplete
  BY DEF OutputInv, ResultWhole, OutputComplete
<1> HIDE DEF IInv, OutputInv, OutputComplete, Init
<1> QED
  BY <1>1, <1>2, InitOutput, IInvHolds, PTL DEF Spec

-----------------------------------------------------------------------------
(* docker_run. *)

Fired == timer \in {"fired", "over"}

\* timed_out is set by the timer and by a callback that objects, and by nothing
\* else.
TimedOutHasCause == timedOut <=> Fired \/ objected

ObjectedToOutput == objected => seen > 0

\* Before the container is waited for there is no code, and a code that was
\* settled belongs to a container that does not run any more.
CodeIsLate ==
  /\ docker_pc \in {"create", "prime", "start", "wait"} => docker_code = "none"
  /\ docker_code # "none" => box \in {"exited", "removed"}

\* Until the decision the code is the status of the container.
CodeIsStatus ==
  docker_pc \in {"logs", "cancel", "decide"} => docker_code = docker_status /\ box = "exited"

\* The timer can not fire any more when the decision is made.
NotArmed == docker_pc = "decide" => timer # "armed"

\* From the decision on, a code tells what it should.
Decided ==
  docker_pc \in {"clean up", "done", "raised"} =>
    /\ docker_code = "zero" => docker_status = "zero" /\ ~timedOut /\ timer \in {"off", "canceled"}
    /\ docker_code = "124" => timedOut \/ docker_status = "124"

\* Before it is started there is no container to run, and no timer.
Boxed ==
  /\ docker_pc = "create" => box = "none"
  /\ docker_pc \in {"create", "prime", "start"} => timer = "off"
  /\ docker_pc \in {"prime", "start"} => box = "created"

\* The parts of the type invariant: numbers, flags and the rest.
Counts == printed \in 0 .. MaxChunks /\ seen \in 0 .. printed

Options ==
  /\ remote \in BOOLEAN /\ docker_limited \in BOOLEAN /\ keep \in BOOLEAN
  /\ refusing \in BOOLEAN

Flags == objected \in BOOLEAN /\ timedOut \in BOOLEAN

DockerKinds ==
  /\ box \in {"none", "created", "running", "exited", "removed"}
  /\ docker_status \in Statuses \cup {"none", "stopped"}
  /\ timer \in {"off", "armed", "fired", "over", "canceled"}
  /\ docker_pc \in {"create", "prime", "start", "wait", "logs", "cancel", "decide",
                    "clean up", "done", "raised"}
  /\ docker_code \in Statuses \cup {"none", "stopped"}

DockerInv ==
  /\ Counts /\ Options /\ Flags /\ DockerKinds
  /\ TimedOutHasCause /\ ObjectedToOutput
  /\ CodeIsLate /\ CodeIsStatus /\ NotArmed /\ Decided
  /\ Boxed /\ StartedIsRemoved

USE DEF Statuses, DockerReturned, Fired, config, container, Proceed

\* One more chunk printed, one more handed on.
LEMMA OneMoreChunk ==
  ASSUME NEW p \in 0 .. MaxChunks, NEW s \in 0 .. p
  PROVE  /\ p < MaxChunks => p + 1 \in 0 .. MaxChunks /\ s \in 0 .. (p + 1)
         /\ s < p => s + 1 \in 0 .. p /\ s + 1 > 0
  BY DockerAssumption

\* The initial states satisfy the invariant.
LEMMA InitDockerInv == DockerInit => DockerInv
<1> SUFFICES ASSUME DockerInit PROVE DockerInv
  OBVIOUS
<1>1. Counts /\ ObjectedToOutput
  BY DockerAssumption DEF DockerInit, Counts, ObjectedToOutput
<1>2. Options
  BY DEF DockerInit, Options
<1>3. Flags
  BY DEF DockerInit, Flags
<1>4. DockerKinds /\ TimedOutHasCause
  BY DEF DockerInit, DockerKinds, TimedOutHasCause
<1>5. CodeIsLate /\ CodeIsStatus /\ NotArmed /\ Decided /\ Boxed /\ StartedIsRemoved
  BY DEF DockerInit, CodeIsLate, CodeIsStatus, NotArmed, Decided, Boxed, StartedIsRemoved
<1> QED BY <1>1, <1>2, <1>3, <1>4, <1>5 DEF DockerInv

-----------------------------------------------------------------------------
(* Every step keeps every part of the invariant, given the parts that the    *)
(* lemma assumes.                                                            *)

\* The numbers: a chunk that is handed on is one that was printed.
LEMMA CountsStay ==
  ASSUME Counts, ObjectedToOutput, [DockerNext]_docker_vars
  PROVE  Counts' /\ ObjectedToOutput'
<1>1. CASE WriteChunk
  BY <1>1, OneMoreChunk DEF Counts, ObjectedToOutput, WriteChunk
<1>2. ASSUME NEW stop \in BOOLEAN, HandOn(stop) PROVE Counts' /\ ObjectedToOutput'
  BY <1>2, OneMoreChunk DEF Counts, ObjectedToOutput, HandOn
<1>3. CASE UNCHANGED <<printed, seen, objected>>
  BY <1>3 DEF Counts, ObjectedToOutput
<1> QED
  BY <1>1, <1>2, <1>3
     DEF DockerNext, docker_vars, ContainerExits, Timer, Fire,
         StopContainer, StopRefused, RunDocker, Create,
         Prime, CreateFails, Start, Wait, LogsEnd,
         CancelTimer, Decide, CleanUp, CallFails

USE DEF DockerNext, docker_vars, WriteChunk, ContainerExits, Timer,
        Fire, StopContainer, StopRefused, RunDocker,
        Create, Prime, CreateFails, Start, Wait,
        HandOn, LogsEnd, CancelTimer, Decide,
        CleanUp, CallFails

\* The options never change.
LEMMA OptionsStay ==
  ASSUME Options, [DockerNext]_docker_vars
  PROVE  Options'
  BY DEF Options

\* The flags stay flags.
LEMMA FlagsStay ==
  ASSUME Flags, [DockerNext]_docker_vars
  PROVE  Flags'
  BY DEF Flags

\* The control states stay what they are.
LEMMA DockerKindsStay ==
  ASSUME DockerKinds, [DockerNext]_docker_vars
  PROVE  DockerKinds'
  BY DEF DockerKinds

\* timed_out is set together with what it stands for: by the timer, or by the
\* callback that objects.
LEMMA TimedOutHasCauseStay ==
  ASSUME Flags, DockerKinds, Boxed, TimedOutHasCause, [DockerNext]_docker_vars
  PROVE  TimedOutHasCause'
<1>1. CASE Timer
  BY <1>1 DEF DockerKinds, TimedOutHasCause
<1>2. ASSUME NEW stop \in BOOLEAN, HandOn(stop) PROVE TimedOutHasCause'
  <2>1. /\ timer' = timer
        /\ objected' <=> objected \/ stop
        /\ timedOut' <=> timedOut \/ stop
    BY <1>2
  <2> QED BY <2>1 DEF TimedOutHasCause
<1>3. CASE UNCHANGED <<objected, timedOut>> /\ (Fired' <=> Fired)
  BY <1>3 DEF TimedOutHasCause
<1>4. \/ Timer \/ \E stop \in BOOLEAN : HandOn(stop)
      \/ UNCHANGED <<objected, timedOut>>
  OBVIOUS
<1>5. \/ Timer \/ \E stop \in BOOLEAN : HandOn(stop)
      \/ (Fired' <=> Fired)
  BY DEF DockerKinds, Boxed
<1> QED BY <1>1, <1>2, <1>3, <1>4, <1>5

\* A code appears when the container has been waited for.
LEMMA CodeIsLateStay ==
  ASSUME DockerKinds, CodeIsLate, CodeIsStatus, [DockerNext]_docker_vars
  PROVE  CodeIsLate'
  BY DEF DockerKinds, CodeIsLate, CodeIsStatus

\* Nothing changes the status of a container that has ended.
LEMMA CodeIsStatusStay ==
  ASSUME DockerKinds, CodeIsLate, CodeIsStatus, Boxed, [DockerNext]_docker_vars
  PROVE  CodeIsStatus'
  BY DEF DockerKinds, CodeIsLate, CodeIsStatus, Boxed

\* The timer is canceled on the way to the decision.
LEMMA NotArmedStay ==
  ASSUME DockerKinds, NotArmed, [DockerNext]_docker_vars
  PROVE  NotArmed'
  BY DEF DockerKinds, NotArmed

\* The decision settles the code by timed_out, and no timer fires after it.
LEMMA DecidedStay ==
  ASSUME DockerKinds, TimedOutHasCause, CodeIsLate, CodeIsStatus, NotArmed, Decided,
         [DockerNext]_docker_vars
  PROVE  Decided'
<1> DEFINE Later == docker_pc \in {"clean up", "done", "raised"}
<1>1. (Later /\ docker_code = "zero" => docker_status = "zero" /\ ~timedOut)'
  BY DEF DockerKinds, CodeIsLate, CodeIsStatus, Decided, NotArmed
<1>2. (Later /\ docker_code = "zero" => timer \in {"off", "canceled"})'
  BY DEF DockerKinds, TimedOutHasCause, CodeIsLate, CodeIsStatus, NotArmed, Decided
<1>3. (Later /\ docker_code = "124" => timedOut \/ docker_status = "124")'
  BY DEF DockerKinds, CodeIsLate, CodeIsStatus, Decided
<1> QED
  BY <1>1, <1>2, <1>3 DEF Decided

\* The timer is armed by the step that starts the container.
LEMMA BoxedStay ==
  ASSUME DockerKinds, Boxed, [DockerNext]_docker_vars
  PROVE  Boxed'
  BY DEF DockerKinds, Boxed

\* Only the finally block leads to a return after the start.
LEMMA StartedIsRemovedStay ==
  ASSUME DockerKinds, Boxed, CodeIsStatus, StartedIsRemoved, [DockerNext]_docker_vars
  PROVE  StartedIsRemoved'
  BY DEF DockerKinds, Boxed, CodeIsStatus, StartedIsRemoved

\* The whole invariant.
LEMMA NextDockerInv == DockerInv /\ [DockerNext]_docker_vars => DockerInv'
  BY CountsStay, OptionsStay, FlagsStay, DockerKindsStay, TimedOutHasCauseStay, CodeIsLateStay,
     CodeIsStatusStay, NotArmedStay, DecidedStay, BoxedStay, StartedIsRemovedStay
     DEF DockerInv

HIDE DEF DockerNext, docker_vars

-----------------------------------------------------------------------------
(* The theorems. *)

\* The invariant holds in every state.
THEOREM DockerInvHolds == DockerSpec => []DockerInv
  BY InitDockerInv, NextDockerInv, PTL DEF DockerSpec

\* TypeOK is invariant: among other things, no chunk is handed on twice.
THEOREM DockerTyped == DockerSpec => []DockerTypeOK
<1>1. DockerInv => DockerTypeOK
  BY DEF DockerInv, Counts, Options, Flags, DockerKinds, DockerTypeOK
<1> QED BY <1>1, DockerInvHolds, PTL

\* A result of 0 is a pass that nobody objected to and no timer fired for.
THEOREM ZeroIsAPassHolds == DockerSpec => []ZeroIsAPass
<1>1. DockerInv => ZeroIsAPass
  BY DEF DockerInv, TimedOutHasCause, Decided, ZeroIsAPass
<1> QED BY <1>1, DockerInvHolds, PTL

\* A result of 124 has a reason.
THEOREM TimeoutHasReasonHolds == DockerSpec => []TimeoutHasReason
<1>1. DockerInv => TimeoutHasReason
  BY DEF DockerInv, ObjectedToOutput, TimedOutHasCause, Decided, TimeoutHasReason
<1> QED BY <1>1, DockerInvHolds, PTL

\* A container that was started is removed, whatever failed meanwhile.
THEOREM StartedIsRemovedHolds == DockerSpec => []StartedIsRemoved
<1>1. DockerInv => StartedIsRemoved
  BY DEF DockerInv
<1> QED BY <1>1, DockerInvHolds, PTL
===============================================================================

------------------------------ MODULE DockerRun ------------------------------
(***************************************************************************)
(* docker_run (execution/executors/dockerops.py): one container, the       *)
(* thread that creates it, waits for it, hands its output to the callbacks *)
(* and removes it, and the timer that stops it.  DockerExecutorAdapter.run *)
(* takes a result of 124 for a time-out.                                   *)
(*                                                                         *)
(* Any call to the daemon may fail; refusing tells whether that holds for  *)
(* the calls whose failure is swallowed, too.  A callback goes on, asks to *)
(* stop or raises.                                                         *)
(***************************************************************************)
EXTENDS Naturals

CONSTANT
  MaxChunks  \* bound: chunks of output

ASSUME DockerAssumption == MaxChunks \in Nat

\* Some names have a docker_ before them: Executors_proofs reasons about this
\* module and LocalExecutor side by side.
VARIABLES
  remote,          \* the endpoint is remote
  docker_limited,  \* timeout_seconds is set
  keep,            \* keep_container
  refusing,        \* the daemon may refuse to stop or to remove a container
  box,             \* the container
  docker_status,   \* how it ended
  printed,         \* chunks it has printed
  seen,            \* chunks handed to the callbacks
  objected,        \* a callback has returned False (history)
  timer,           \* the timer and its thread
  timedOut,        \* timed_out
  docker_pc,       \* where docker_run is
  docker_code      \* the exit code it returns

config == <<remote, docker_limited, keep, refusing>>
container == <<box, docker_status, printed>>
docker_vars ==
  <<config, container, seen, objected, timer, timedOut, docker_pc, docker_code>>

Statuses == {"zero", "nonzero", "124"}
DockerReturned == docker_pc \in {"done", "raised"}

DockerTypeOK ==
  /\ remote \in BOOLEAN /\ docker_limited \in BOOLEAN /\ keep \in BOOLEAN
  /\ refusing \in BOOLEAN /\ objected \in BOOLEAN /\ timedOut \in BOOLEAN
  /\ box \in {"none", "created", "running", "exited", "removed"}
  /\ docker_status \in Statuses \cup {"none", "stopped"}
  /\ printed \in 0 .. MaxChunks /\ seen \in 0 .. printed
  /\ timer \in {"off", "armed", "fired", "over", "canceled"}
  /\ docker_pc \in {"create", "prime", "start", "wait", "logs", "cancel", "decide",
                    "clean up", "done", "raised"}
  /\ docker_code \in Statuses \cup {"none", "stopped"}

DockerInit ==
  /\ remote \in BOOLEAN /\ docker_limited \in BOOLEAN /\ keep \in BOOLEAN
  /\ refusing \in BOOLEAN
  /\ box = "none" /\ docker_status = "none" /\ printed = 0 /\ seen = 0
  /\ objected = FALSE /\ timer = "off" /\ timedOut = FALSE
  /\ docker_pc = "create" /\ docker_code = "none"

-----------------------------------------------------------------------------
(* The container. *)

WriteChunk ==
  /\ box = "running" /\ printed < MaxChunks
  /\ printed' = printed + 1
  /\ UNCHANGED <<config, box, docker_status, seen, objected, timer, timedOut,
                 docker_pc, docker_code>>

ContainerExits(s) ==
  /\ box = "running"
  /\ box' = "exited" /\ docker_status' = s
  /\ UNCHANGED <<config, printed, seen, objected, timer, timedOut, docker_pc, docker_code>>

-----------------------------------------------------------------------------
(* The timer. *)

Fire ==
  /\ timer = "armed"
  /\ timer' = "fired" /\ timedOut' = TRUE
  /\ UNCHANGED <<config, container, seen, objected, docker_pc, docker_code>>

\* stop, and kill if that fails.
StopContainer ==
  /\ timer = "fired" /\ timer' = "over"
  /\ IF box = "running" THEN box' = "exited" /\ docker_status' = "stopped"
                        ELSE UNCHANGED <<box, docker_status>>
  /\ UNCHANGED <<config, printed, seen, objected, timedOut, docker_pc, docker_code>>

StopRefused ==
  /\ refusing
  /\ timer = "fired" /\ timer' = "over"
  /\ UNCHANGED <<config, container, seen, objected, timedOut, docker_pc, docker_code>>

Timer == Fire \/ StopContainer \/ StopRefused

-----------------------------------------------------------------------------
(* docker_run *)

Proceed(here, there) == docker_pc = here /\ docker_pc' = there

\* A container that could not be created, or not be filled with the
\* repository, is left as it is.
Create ==
  /\ Proceed("create", IF remote THEN "prime" ELSE "start")
  /\ box' = "created"
  /\ UNCHANGED <<config, docker_status, printed, seen, objected, timer, timedOut, docker_code>>

Prime ==
  /\ Proceed("prime", "start")
  /\ UNCHANGED <<config, container, seen, objected, timer, timedOut, docker_code>>

CreateFails ==
  /\ Proceed("create", "raised") \/ Proceed("prime", "raised")
  /\ UNCHANGED <<config, container, seen, objected, timer, timedOut, docker_code>>

\* Mutant: a remote container gets no timer.
StartLocalTimer ==
  /\ Proceed("start", "wait")
  /\ box' = "running"
  /\ timer' = IF docker_limited /\ ~remote THEN "armed" ELSE "off"
  /\ UNCHANGED <<config, docker_status, printed, seen, objected, timedOut, docker_code>>

Start ==
  /\ Proceed("start", "wait")
  /\ box' = "running"
  /\ timer' = IF docker_limited THEN "armed" ELSE "off"
  /\ UNCHANGED <<config, docker_status, printed, seen, objected, timedOut, docker_code>>

\* The output is asked for when the container has ended.
Wait ==
  /\ box = "exited" /\ Proceed("wait", "logs")
  /\ docker_code' = docker_status
  /\ UNCHANGED <<config, container, seen, objected, timer, timedOut>>

CallFails ==
  /\ \E here \in {"start", "wait", "logs"} : Proceed(here, "clean up")
  /\ docker_code' = "none"
  /\ UNCHANGED <<config, container, seen, objected, timer, timedOut>>

\* Mutant: a callback that returns nothing counts as one that returns False.
HandOnNothing(stop) ==
  /\ seen < printed
  /\ seen' = seen + 1
  /\ Proceed("logs", IF stop /\ ~remote THEN "cancel" ELSE "logs")
  /\ objected' = (objected \/ stop) /\ timedOut' = TRUE
  /\ UNCHANGED <<config, container, timer, docker_code>>

\* A callback that returns False ends the streaming of a local container.
HandOn(stop) ==
  /\ seen < printed
  /\ seen' = seen + 1
  /\ Proceed("logs", IF stop /\ ~remote THEN "cancel" ELSE "logs")
  /\ objected' = (objected \/ stop) /\ timedOut' = (timedOut \/ stop)
  /\ UNCHANGED <<config, container, timer, docker_code>>

LogsEnd ==
  /\ seen = printed /\ Proceed("logs", "cancel")
  /\ UNCHANGED <<config, container, seen, objected, timer, timedOut, docker_code>>

CancelTimer ==
  /\ Proceed("cancel", "decide")
  /\ timer' = IF timer = "armed" THEN "canceled" ELSE timer
  /\ UNCHANGED <<config, container, seen, objected, timedOut, docker_code>>

\* Mutant: a time-out does not change the code of a container that passed.
DecideByStatus ==
  /\ Proceed("decide", "clean up")
  /\ docker_code' = IF timedOut /\ docker_code # "zero" THEN "124" ELSE docker_code
  /\ UNCHANGED <<config, container, seen, objected, timer, timedOut>>

\* on_stderr is told of a time-out; if it raises, there is no result.
Decide ==
  /\ Proceed("decide", "clean up")
  /\ \/ docker_code' = IF timedOut THEN "124" ELSE docker_code
     \/ timedOut /\ docker_code' = "none"
  /\ UNCHANGED <<config, container, seen, objected, timer, timedOut>>

\* Mutant: only a container that ended is removed.
CleanUpExited ==
  /\ Proceed("clean up", IF docker_code = "none" THEN "raised" ELSE "done")
  /\ timer' = IF timer = "armed" THEN "canceled" ELSE timer
  /\ box' = IF keep \/ box = "running" THEN box ELSE "removed"
  /\ UNCHANGED <<config, docker_status, printed, seen, objected, timedOut, docker_code>>

\* The finally block.
CleanUp ==
  /\ Proceed("clean up", IF docker_code = "none" THEN "raised" ELSE "done")
  /\ timer' = IF timer = "armed" THEN "canceled" ELSE timer
  /\ box' \in {IF keep THEN box ELSE "removed"} \cup (IF refusing THEN {box} ELSE {})
  /\ UNCHANGED <<config, docker_status, printed, seen, objected, timedOut, docker_code>>

RunDocker ==
  \/ Create \/ Prime \/ CreateFails \/ Start \/ Wait \/ LogsEnd \/ CancelTimer
  \/ Decide \/ CleanUp
  \/ \E stop \in BOOLEAN : HandOn(stop)

DockerNext ==
  WriteChunk \/ (\E s \in Statuses : ContainerExits(s)) \/ Timer \/ RunDocker \/ CallFails

DockerSpec == DockerInit /\ [][DockerNext]_docker_vars

\* The two threads are scheduled and the timer runs down; nothing is assumed of
\* the container, and a call need not fail.
DockerFairSpec == DockerSpec /\ WF_docker_vars(RunDocker) /\ WF_docker_vars(Timer)

-----------------------------------------------------------------------------
(* Properties. *)

\* A result of 0 is a container that ended with 0, that no callback objected
\* to, and that the timer had not fired for when the result was settled.
ZeroIsAPass ==
  docker_pc = "done" /\ docker_code = "zero" =>
    docker_status = "zero" /\ ~objected /\ timer \in {"off", "canceled"}

\* A container that was started does not outlive docker_run, unless it is to be
\* kept or the daemon refuses: whatever failed after the start, the finally
\* block removes it.
StartedIsRemoved ==
  DockerReturned /\ ~keep /\ ~refusing => box \in {"none", "created", "removed"}

\* With a time limit docker_run ends, if the daemon stops what it is told to.
DockerEnds == docker_limited /\ ~refusing ~> DockerReturned

\* A result that is told as a time-out (docker.py) has a reason that was there
\* before the result was settled: the timer fired, a callback of a container
\* with output objected, or the container itself ended with 124.
TimeoutHasReason ==
  docker_pc = "done" /\ docker_code = "124" =>
    timer \in {"fired", "over"} \/ (objected /\ seen > 0) \/ docker_status = "124"
=============================================================================

---------------------------- MODULE LocalExecutor ----------------------------
(***************************************************************************)
(* LocalExecutorAdapter.run (execution/executors/local.py): a command, a   *)
(* pump thread for each of its output streams, and the thread that waits   *)
(* for the command to end, to be stopped or to run out of time.            *)
(*                                                                         *)
(* The command is a process group: a leader, and possibly a child that it  *)
(* leaves in the background and that holds the same pipes.  Output is      *)
(* counted in lines.  A callback goes on, asks to stop (returns False) or  *)
(* raises.                                                                 *)
(***************************************************************************)
EXTENDS Naturals

CONSTANTS
  MaxLines,   \* bound: lines that the group writes
  PipeSize,   \* lines that a pipe holds
  Children,   \* whether a command may leave a process behind
  Raising,    \* whether a callback may raise
  Slow        \* whether a pump may need five seconds for what it has to read

ASSUME ConstantsAssumption ==
  /\ MaxLines \in Nat
  /\ PipeSize \in Nat \ {0}
  /\ {Children, Raising, Slow} \subseteq BOOLEAN

VARIABLES
  limited,   \* cmd.timeout_seconds is set
  late,      \* the time limit has passed
  deaf,      \* the processes that ignore SIGTERM
  alive,     \* the processes that run and hold the pipes open
  status,    \* what p.poll() would tell
  wrote,     \* lines written to each stream
  due,       \* lines written to each stream when the leader ended (history)
  sink,      \* out_chunks and err_chunks: lines taken from each stream
  pump,      \* where each pump is
  open,      \* p.stdout and p.stderr are open
  stopping,  \* stop_requested is set
  pc,        \* where run is
  code,      \* the exit code that run settles on
  result     \* the lines that the ExecResult holds

command == <<limited, deaf, alive, status, wrote, due>>
pumps == <<sink, pump, open, stopping>>
main == <<pc, code, result>>
vars == <<command, late, pumps, main>>

Streams == {"stdout", "stderr"}
Group == {"leader", "child"}
Ended == {"zero", "nonzero", "signal"}
Finished == {"eof", "stop", "broken"}
Returned == pc \in {"done", "raised"}

TypeOK ==
  /\ limited \in BOOLEAN /\ late \in BOOLEAN /\ stopping \in BOOLEAN
  /\ deaf \subseteq Group /\ alive \subseteq Group
  /\ status \in Ended \cup {"running"}
  /\ wrote \in [Streams -> 0 .. MaxLines] /\ due \in [Streams -> 0 .. MaxLines]
  /\ sink \in [Streams -> 0 .. MaxLines] /\ result \in [Streams -> 0 .. MaxLines]
  /\ pump \in [Streams -> Finished \cup {"idle", "read", "callback"}]
  /\ open \in [Streams -> BOOLEAN]
  /\ pc \in {"stopped?", "ended?", "late?", "terminate", "grace", "report",
             "join stdout", "join stderr", "close stdout", "close stderr",
             "return", "done", "raised"}
  /\ code \in Ended \cup {"none", "stopped", "timeout"}

Nothing == [s \in Streams |-> 0]

Init ==
  /\ limited \in BOOLEAN /\ deaf \in SUBSET Group
  /\ late = FALSE /\ stopping = FALSE
  /\ alive = {"leader"} /\ status = "running"
  /\ wrote = Nothing /\ due = Nothing /\ sink = Nothing /\ result = Nothing
  /\ pump = [s \in Streams |-> "idle"]
  /\ open = [s \in Streams |-> TRUE]
  /\ pc = "stopped?" /\ code = "none"

-----------------------------------------------------------------------------
(* The command and the clock. *)

Drained(s) == sink[s] = wrote[s]

\* A process writes a line; it waits while the pipe is full.
Write(s) ==
  /\ alive # {} /\ open[s]
  /\ wrote["stdout"] + wrote["stderr"] < MaxLines /\ wrote[s] - sink[s] < PipeSize
  /\ wrote' = [wrote EXCEPT ![s] = @ + 1]
  /\ UNCHANGED <<limited, late, deaf, alive, status, due, pumps, main>>

\* The leader starts a process in the background.
Fork ==
  /\ Children /\ alive = {"leader"}
  /\ alive' = Group
  /\ UNCHANGED <<limited, late, deaf, status, wrote, due, pumps, main>>

\* The processes P of the group end; how is the leader's status if it is one.
Die(P, how) ==
  /\ alive' = alive \ P
  /\ IF "leader" \in P \cap alive
       THEN status' = how /\ due' = wrote
       ELSE UNCHANGED <<status, due>>
  /\ UNCHANGED <<limited, late, deaf, wrote>>

Exit(p, how) == p \in alive /\ Die({p}, how) /\ UNCHANGED <<pumps, main>>

TimePasses == ~late /\ late' = TRUE /\ UNCHANGED <<command, pumps, main>>

-----------------------------------------------------------------------------
(* pump, one thread for each stream. *)

PumpGoes(s, here, there) ==
  /\ pump[s] = here /\ pump' = [pump EXCEPT ![s] = there]
  /\ UNCHANGED <<command, late, open, main>>

\* The thread enters a read, which holds the lock of the stream's buffer; it
\* dies when the stream was closed meanwhile.
Enter(s) ==
  /\ PumpGoes(s, "idle", IF open[s] THEN "read" ELSE "broken")
  /\ UNCHANGED <<sink, stopping>>

ReadLine(s) ==
  /\ ~Drained(s) /\ PumpGoes(s, "read", "callback")
  /\ sink' = [sink EXCEPT ![s] = @ + 1]
  /\ UNCHANGED stopping

\* The stream ends when no process holds it open.
ReadEnd(s) ==
  /\ Drained(s) /\ alive = {} /\ PumpGoes(s, "read", "eof")
  /\ UNCHANGED <<sink, stopping>>

CallbackGoesOn(s) ==
  PumpGoes(s, "callback", "idle") /\ UNCHANGED <<sink, stopping>>

CallbackStops(s) ==
  PumpGoes(s, "callback", "stop") /\ stopping' = TRUE /\ UNCHANGED sink

CallbackRaises(s) ==
  Raising /\ PumpGoes(s, "callback", "broken") /\ UNCHANGED <<sink, stopping>>

Pump(s) == Enter(s) \/ ReadLine(s) \/ ReadEnd(s) \/ CallbackGoesOn(s)
             \/ CallbackStops(s) \/ CallbackRaises(s)

-----------------------------------------------------------------------------
(* run, after it has started the command and the pumps. *)

Goto(here, there) == pc = here /\ pc' = there
Settle(c) == code' = c /\ UNCHANGED <<command, late, pumps, result>>
Signal(P) == Die(P, "signal") /\ UNCHANGED <<pumps, code, result>>

\* The loop asks in this order: was a stop requested, did the command end, is
\* its time up?
SeeStop ==
  /\ Goto("stopped?", IF stopping THEN "terminate" ELSE "ended?")
  /\ Settle(IF stopping THEN "stopped" ELSE code)

SeeEnd ==
  /\ Goto("ended?", IF status = "running" THEN "late?" ELSE "join stdout")
  /\ Settle(IF status = "running" THEN code ELSE status)

\* Mutant: a command without a limit has one.
SeeDeadlineAlways ==
  /\ Goto("late?", IF late THEN "terminate" ELSE "stopped?")
  /\ Settle(IF late THEN "timeout" ELSE code)

SeeDeadline ==
  /\ Goto("late?", IF limited /\ late THEN "terminate" ELSE "stopped?")
  /\ Settle(IF limited /\ late THEN "timeout" ELSE code)

\* SIGTERM to the group.
Terminate == Goto("terminate", "grace") /\ Signal(Group \ deaf)

Terminated == IF code = "timeout" THEN "report" ELSE "join stdout"

\* The leader ends within three seconds: the group gets no other signal.
Reap == status # "running" /\ Goto("grace", Terminated) /\ Settle(code)

\* Mutant: the leader is waited for without a limit.
WaitOn == FALSE /\ UNCHANGED vars

\* It does not: SIGKILL to the group.
Kill == status = "running" /\ Goto("grace", Terminated) /\ Signal(Group)

\* on_stderr is told of the time-out, by this thread.
Report ==
  /\ \E there \in {"join stdout"} \cup (IF Raising THEN {"raised"} ELSE {}) :
       Goto("report", there)
  /\ Settle(code)

\* Mutant: the pumps are not waited for.
JoinNothing(s, here, there) == Goto(here, there) /\ Settle(code)

\* Five seconds are enough for a pump that has something to read, unless its
\* callbacks are slow; they pass when the stream is silent and stays open.
Join(s, here, there) ==
  /\ \/ pump[s] \in Finished
     \/ Slow
     \/ pump[s] = "read" /\ Drained(s)
  /\ Goto(here, there) /\ Settle(code)

\* close needs the lock that a pump holds while it reads.
Close(s, here, there) ==
  /\ pump[s] # "read"
  /\ open' = [open EXCEPT ![s] = FALSE]
  /\ Goto(here, there)
  /\ UNCHANGED <<command, late, sink, pump, stopping, code, result>>

Return ==
  /\ Goto("return", "done") /\ result' = sink
  /\ UNCHANGED <<command, late, pumps, code>>

Run == \/ SeeStop \/ SeeEnd \/ SeeDeadline
       \/ Terminate \/ Reap \/ Kill \/ Report
       \/ Join("stdout", "join stdout", "join stderr")
       \/ Join("stderr", "join stderr", "close stdout")
       \/ Close("stdout", "close stdout", "close stderr")
       \/ Close("stderr", "close stderr", "return")
       \/ Return

Next ==
  \/ \E s \in Streams : Write(s) \/ Pump(s)
  \/ \E p \in Group, how \in {"zero", "nonzero"} : Exit(p, how)
  \/ Fork \/ TimePasses \/ Run

Spec == Init /\ [][Next]_vars

\* The threads are scheduled and time passes; nothing is assumed of the command.
FairSpec ==
  Spec /\ WF_vars(Run) /\ WF_vars(TimePasses) /\ \A s \in Streams : WF_vars(Pump(s))

-----------------------------------------------------------------------------
(* Properties. *)

\* When run returns, the leader does not run any more: it ended by itself or
\* by SIGTERM, or it was killed after the three seconds (_terminate_process).
LeaderGone == Returned => "leader" \notin alive

\* The exit code tells how the command ended: its own status if the loop saw
\* one, 124 only with a time limit that has passed, 130 only if a callback
\* returned False, however the three raced.
CodeIsTrue ==
  pc = "done" =>
    \/ code \in Ended /\ status = code
    \/ code = "timeout" /\ limited /\ late
    \/ code = "stopped" /\ stopping

\* The result of a command that ended by itself holds all that had been written
\* by then, unless a callback stopped the pump or raised in it: run waits for
\* the pumps before it joins the chunks.
OutputComplete ==
  pc = "done" /\ code \in Ended =>
    \A s \in Streams : pump[s] \notin {"stop", "broken"} => result[s] >= due[s]

\* run ends when the command has a time limit, when it ended, and when a
\* callback asked it to stop, even if a callback raised and the pipe is full,
\* unless the command leaves a process behind that stays.
Ends ==
  []<>("child" \notin alive) => ((limited \/ stopping \/ status # "running") ~> Returned)
=============================================================================

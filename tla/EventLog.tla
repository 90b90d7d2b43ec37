------------------------------ MODULE EventLog ------------------------------
(***************************************************************************)
(* The events of a run: its threads append them to events.jsonl             *)
(* (testfabric/infra/live_logger.py), the API reads the file and the run's  *)
(* row (testfabric/api/store.py), and `testfabric events` polls it          *)
(* (testfabric/cli/main.py, testfabric/cli/transport.py).                   *)
(*                                                                         *)
(* An event is its sequence number.  A line reaches the file in two halves, *)
(* as a reader of a file that is being appended to may see it, and as it is  *)
(* left when the write fails between them: the next event is then appended  *)
(* to the half, and the line they share is not JSON.  A half never lacks     *)
(* only the line break.                                                     *)
(***************************************************************************)
EXTENDS Naturals, Sequences, SequencesExt

CONSTANTS
  Threads,    \* the threads of the run that emit events
  Late,       \* those that may go on when the run has ended: a poller that was
              \* not waited for
  Limit,      \* events per answer, 0 for all
  Wait,       \* how long the API holds a request that has nothing to say
  Timeout,    \* how long the client waits for an answer
  Faults,     \* whether files, connections and processes fail
  MaxEvents   \* bound: how many events are emitted

Free == "free"       \* nobody holds the lock

ASSUME EventLogAssumption ==
  /\ Late \subseteq Threads /\ Free \notin Threads
  /\ Limit \in Nat /\ MaxEvents \in Nat /\ Faults \in BOOLEAN
  /\ Wait \in Nat \ {0} /\ Timeout \in Nat \ {0}

VARIABLES
  state,      \* of the run, in its row
  process,    \* "none" | "runs" | "returned" | "killed"
  value,      \* the last sequence number
  lock,       \* the thread in the critical section of event
  emits,      \* the number each thread is writing, 0 for none
  log,        \* the lines of events.jsonl, each the events written to it
  tail,       \* the events written to the line that has no end yet
  failed,     \* the events whose writer has got an exception
  req,        \* the request in flight, and its answer
  waited,     \* how long the client waits for it
  cli,        \* "polls" | "drains" | "pauses" | "stopped" | "failed"
  follow, from, \* --follow, --offset
  offset,     \* current_offset
  printed     \* the events printed

writer == <<state, process, value, lock, emits, log, tail, failed>>
reader == <<req, waited, cli, offset, printed>>
vars == <<state, process, value, lock, emits, log, tail, failed,
          req, waited, cli, follow, from, offset, printed>>

Final == {"completed", "failed", "canceled"}

-----------------------------------------------------------------------------
(* The run.                                                                 *)

\* A worker claims the run; its orchestrator makes one logger for all threads.
StartRun ==
  /\ process = "none" /\ state = "queued"
  /\ state' = "running" /\ process' = "runs"
  /\ UNCHANGED <<value, lock, emits, log, tail, failed, reader, follow, from>>

MayEmit(t) ==
  /\ process = "runs" \/ (process = "returned" /\ t \in Late)
  /\ emits[t] = 0
  /\ value < MaxEvents

\* Mutant: the number is taken before the lock is, and the lock not held to the end.
EmitUnlocked(t) ==
  /\ MayEmit(t)
  /\ value' = value + 1
  /\ emits' = [emits EXCEPT ![t] = value']
  /\ UNCHANGED <<state, process, lock, log, tail, failed, reader, follow, from>>

Emit(t) ==
  /\ MayEmit(t)
  /\ lock = Free
  /\ lock' = t
  /\ value' = value + 1
  /\ emits' = [emits EXCEPT ![t] = value']
  /\ UNCHANGED <<state, process, log, tail, failed, reader, follow, from>>

Leave(t) ==
  /\ emits' = [emits EXCEPT ![t] = 0]
  /\ lock' = IF lock = t THEN Free ELSE lock

\* open, write or close raises: the number is used up, the lock is given back, and
\* what the file has got of the line stays there.
EmitFails(t) ==
  /\ Faults
  /\ process # "killed" /\ emits[t] # 0
  /\ failed' = failed \cup {emits[t]}
  /\ Leave(t)
  /\ UNCHANGED <<state, process, value, log, tail, reader, follow, from>>

WriteHalf(t) ==
  /\ process # "killed" /\ emits[t] # 0 /\ ~Contains(tail, emits[t])
  /\ tail' = Append(tail, emits[t])
  /\ UNCHANGED <<state, process, value, lock, emits, log, failed, reader, follow, from>>

WriteRest(t) ==
  /\ process # "killed" /\ emits[t] # 0 /\ Contains(tail, emits[t])
  /\ log' = Append(log, tail)
  /\ tail' = <<>>
  /\ Leave(t)
  /\ UNCHANGED <<state, process, value, failed, reader, follow, from>>

\* The orchestrator returns and the worker completes the run, canceled or not.
Finish ==
  /\ process = "runs"
  /\ \A t \in Threads \ Late : emits[t] = 0
  /\ process' = "returned"
  /\ state' \in IF state = "running" THEN {"completed", "failed"} ELSE {state}
  /\ UNCHANGED <<value, lock, emits, log, tail, failed, reader, follow, from>>

\* Nobody tells the orchestrator.
Cancel ==
  /\ state \in {"queued", "running"}
  /\ state' = "canceled"
  /\ UNCHANGED <<process, value, lock, emits, log, tail, failed, reader, follow, from>>

Killed ==
  /\ Faults
  /\ process = "runs"
  /\ process' = "killed"
  /\ UNCHANGED <<state, value, lock, emits, log, tail, failed, reader, follow, from>>

-----------------------------------------------------------------------------
(* GET /runs/<id>/events.                                                   *)

NoRequest == [at |-> "none", held |-> 0, all |-> <<>>, items |-> <<>>, next |-> 0,
              state |-> "queued"]
Request   == [NoRequest EXCEPT !.at = "sent"]

\* Lines that are not JSON are passed over, and so is the one that has no end.
Items(lines) ==
  FlattenSeq([n \in DOMAIN lines |-> IF Len(lines[n]) = 1 THEN lines[n] ELSE <<>>])

Accept ==
  /\ req.at = "sent"
  /\ req' = [req EXCEPT !.at = "file"]
  /\ UNCHANGED <<writer, waited, cli, follow, from, offset, printed>>

\* The file first, the state in a session of its own afterwards.
ReadFile ==
  /\ req.at = "file"
  /\ req' = [req EXCEPT !.at = "state", !.all = Items(log)]
  /\ UNCHANGED <<writer, waited, cli, follow, from, offset, printed>>

\* Mutant: what was cut off by the limit is passed over.
NextTotal(items, slice) == Len(items)

NextOffset(items, slice) == offset + Len(slice)

Slice(items) ==
  LET last == IF Limit = 0 THEN Len(items) ELSE offset + Limit
  IN SubSeq(items, offset + 1, IF last < Len(items) THEN last ELSE Len(items))

Waiting == cli \in {"polls", "drains"}

\* An answer, when there is something to say; the request is held otherwise.
Reply ==
  /\ req.at = "state"
  /\ LET answers == \/ Len(req.all) > offset
                    \/ ~follow
                    \/ state \in Final
                    \/ req.held >= Wait
         slice == Slice(req.all)
     IN req' = [req EXCEPT !.at = IF answers THEN "answered" ELSE "sleeps",
                           !.items = slice,
                           !.next = NextOffset(req.all, slice),
                           !.state = state]
  /\ UNCHANGED <<writer, waited, cli, follow, from, offset, printed>>

\* Time passes for a request that is held, and for one that is slow on its way or
\* in the server.  The client's clock began no later than the server's.
Tick ==
  /\ req.at = "sleeps" \/ (Faults /\ req.at \in {"sent", "file", "state", "answered"})
  /\ Waiting /\ waited < Timeout
  /\ waited' = waited + 1
  /\ req' = [req EXCEPT !.held = IF req.at = "sent" THEN 0 ELSE @ + 1,
                        !.at = IF @ = "sleeps" THEN "file" ELSE @]
  /\ UNCHANGED <<writer, cli, follow, from, offset, printed>>

-----------------------------------------------------------------------------
(* testfabric events.                                                       *)

\* Mutant: a canceled run is not known to have ended.
StopsUnlessCanceled(items) == req.state \in {"completed", "failed"} /\ items = <<>>

Stops(items) == req.state \in Final /\ items = <<>>

\* An empty answer to a drain ends the loop, as a final state with no events does;
\* a final state with events asks for more at once.
Receive ==
  /\ Waiting /\ req.at = "answered"
  /\ printed' = printed \o req.items
  /\ offset' = IF req.items = <<>> THEN offset ELSE req.next
  /\ LET over == ~follow \/ Stops(req.items) \/ (cli = "drains" /\ req.items = <<>>)
         drains == ~over /\ req.state \in Final /\ req.items # <<>>
     IN /\ cli' = IF over THEN "stopped" ELSE IF drains THEN "drains" ELSE "pauses"
        /\ req' = IF over THEN req ELSE IF drains THEN Request ELSE NoRequest
  /\ waited' = 0
  /\ UNCHANGED <<writer, follow, from>>

PollAgain ==
  /\ cli = "pauses"
  /\ cli' = "polls"
  /\ req' = Request
  /\ UNCHANGED <<writer, waited, follow, from, offset, printed>>

GiveUp ==
  /\ cli' = "failed"
  /\ req' = NoRequest
  /\ waited' = 0
  /\ UNCHANGED <<writer, follow, from, offset, printed>>

\* The socket's timeout: the exception ends the command.
TimesOut == Waiting /\ waited = Timeout /\ GiveUp

RequestFails == Faults /\ Waiting /\ GiveUp

-----------------------------------------------------------------------------
Init ==
  /\ state = "queued" /\ process = "none"
  /\ value = 0 /\ lock = Free /\ emits = [t \in Threads |-> 0]
  /\ log = <<>> /\ tail = <<>> /\ failed = {}
  /\ follow \in BOOLEAN /\ from \in 0..1
  /\ cli = "polls" /\ req = Request /\ waited = 0
  /\ offset = from /\ printed = <<>>

Writes(t) == WriteHalf(t) \/ WriteRest(t) \/ EmitFails(t)
Answer == Accept \/ ReadFile \/ Reply
Client == Receive \/ PollAgain \/ TimesOut \/ RequestFails

Next ==
  \/ StartRun \/ Finish \/ Cancel \/ Killed
  \/ \E t \in Threads : Emit(t) \/ Writes(t)
  \/ Answer \/ Tick
  \/ Client

Spec == Init /\ [][Next]_vars

\* Threads get on with what they write, the API serves, the command runs, time passes.
FairSpec ==
  /\ Spec
  /\ \A t \in Threads : WF_vars(Writes(t))
  /\ WF_vars(Answer) /\ WF_vars(Tick) /\ WF_vars(Client)

-----------------------------------------------------------------------------
(* Properties                                                               *)

\* LiveLogger.event: whichever threads emit at once and wherever their writes fail,
\* the lines of the file are in the order of the sequence numbers, and a line is one
\* event unless those before its last failed half written: a failed write costs the
\* event that is written next, and no other.
LogIsOrdered ==
  /\ \A i, k \in DOMAIN log : i < k => Last(log[i]) < Last(log[k])
  /\ \A i \in DOMAIN log : \A n \in DOMAIN log[i] :
       n < Len(log[i]) => log[i][n] \in failed /\ log[i][n] < Last(log[i])

\* get_run_events and events_cmd: over all the answers, cut by the limit and taken
\* while the file grows, no event is printed twice and none is skipped.
\* A follower that stops has printed all that there was when the file was last read:
\* it misses at most what was written after that.
NoneMissed ==
  /\ printed = SubSeq(Items(log), from + 1, from + Len(printed))
  /\ cli = "stopped" /\ follow => printed = SubSeq(req.all, from + 1, Len(req.all))

\* events_cmd: the command ends once the run is final, whoever made it so.
FollowEnds == state \in Final ~> cli \in {"stopped", "failed"}

\* main.py:1470 says of --follow "Keep polling until the run finishes": it does not
\* end before, as long as nothing fails.
FollowsToTheEnd == follow /\ cli \in {"stopped", "failed"} => state \in Final
=============================================================================

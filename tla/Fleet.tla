-------------------------------- MODULE Fleet --------------------------------
(***************************************************************************)
(* The worker programs over the run queue: the serve loop                   *)
(* (testfabric/worker/serve.py), run_once with its heartbeat thread         *)
(* (testfabric/worker/remote.py, testfabric/worker/runtime.py), the client  *)
(* they send their requests with (testfabric/worker/client.py), and a user  *)
(* who submits and cancels runs (testfabric/cli/transport.py).              *)
(*                                                                         *)
(* The server is RunStore with its requests overlapping.  Each thread is    *)
(* one caller of it.  A thread goes on when its request is answered; what   *)
(* becomes of a request whose sender gave up or died is up to the server.   *)
(***************************************************************************)
EXTENDS Integers, FiniteSets

CONSTANTS
  Runs,       \* run ids
  Workers,    \* worker ids
  Remote,     \* the workers that register: RemoteWorkerRuntime with a registration
  NoRun,      \* the lease of a program that has none
  NoWorker,   \* the claimed_by of a run without a worker
  Faults,     \* which faults happen
  MaxLives,   \* bound: how many programs are started under one worker id
  MaxFaults   \* bound: how many faults happen

ASSUME FleetAssumption ==
  /\ Remote \subseteq Workers
  /\ NoRun \notin Runs /\ NoWorker \notin Workers
  /\ IsFiniteSet(Runs)
  /\ Faults \subseteq {"refused", "timeout", "raises", "slow", "killed", "stale"}
  /\ MaxLives \in Nat \ {0} /\ MaxFaults \in Nat

VARIABLES
  runs, workers, call, clock, grants,   \* the server: see RunStore
  pc,         \* what the program of each worker id does
  lease,      \* the run it holds a lease for
  life,       \* how many programs were started under the id
  pulse,      \* the heartbeat thread of each run
  stop,       \* the runs whose heartbeat thread was told to stop
  faults,     \* how many faults happened
  abandoned,  \* history: the runs whose program went away with the lease
  overdue,    \* history: the runs with a heartbeat still in flight when its
              \* thread was given up
  overtaken   \* history: the runs claimed while a cancellation that had read
              \* them as queued was in flight

server == <<runs, workers, call, clock, grants>>
fleet  == <<pc, lease, life, pulse, stop, faults, abandoned, overdue, overtaken>>
vars   == <<runs, workers, call, clock, grants,
            pc, lease, life, pulse, stop, faults, abandoned, overdue, overtaken>>

-----------------------------------------------------------------------------
(* The server and its callers.                                              *)

Client   == <<"client">>
Main(w)  == <<"main", w, life[w]>>
Pulse(r) == <<"pulse", r>>

Callers == {Client} \cup {<<"main", w, n>> : w \in Workers, n \in 1..MaxLives}
                    \cup {<<"pulse", r>> : r \in Runs}

Plain == "job"
NoRequest == "none"

Store == INSTANCE RunStore WITH
  Requests <- {Plain}, NoRequest <- NoRequest,
  Required <- [q \in {Plain} |-> {}], Routing <- [q \in {Plain} |-> {}],
  Priority <- [q \in {Plain} |-> 0],
  LabelSets <- {{}}, Policies <- {"fifo"}, Capacities <- {1}, Reported <- {"healthy"},
  Overlap <- TRUE, ReuseIds <- FALSE, AnonymousClaims <- FALSE,
  MaxSubmits <- Cardinality(Runs)

Answered(c) == call[c] = Store!Idle

Serving == {"poll", "register", "beat", "claim", "first", "execute", "join",
            "unwind", "finished", "complete"}
Working == {"claim", "first", "execute", "join", "unwind", "finished", "complete"}
Gone    == {"off", "stopped", "dead"}
Places  == Serving \cup Gone

Go(w, place) == pc' = [pc EXCEPT ![w] = place]

\* One of the faults that the instance has happens.
Happens(kind) ==
  /\ kind \in Faults
  /\ faults < MaxFaults
  /\ faults' = faults + 1

-----------------------------------------------------------------------------
(* The user.                                                                *)

\* The id of a run is that of its invocation, so it is not in the table.
Submit(r) ==
  /\ Store!BeginCreate(Client, r, Plain)
  /\ UNCHANGED fleet

CancelRun(r) ==
  /\ Store!BeginCancel(Client, r)
  /\ UNCHANGED fleet

-----------------------------------------------------------------------------
(* The program: worker serve, then loop by loop run_once.                   *)

Start(w) ==
  /\ pc[w] \in Gone
  /\ life[w] < MaxLives
  /\ life' = [life EXCEPT ![w] = @ + 1]
  /\ lease' = [lease EXCEPT ![w] = NoRun]
  /\ Go(w, "poll")
  /\ UNCHANGED <<server, pulse, stop, faults, abandoned, overdue, overtaken>>

\* stop_event, max_runs or max_idle_polls.
StopServing(w) ==
  /\ pc[w] = "poll"
  /\ Go(w, "stopped")
  /\ UNCHANGED <<server, lease, life, pulse, stop, faults, abandoned, overdue, overtaken>>

RegisterWorker(w) ==
  /\ pc[w] = "poll" /\ w \in Remote
  /\ Store!BeginRegister(Main(w), w, 1, "healthy")
  /\ Go(w, "register")
  /\ UNCHANGED <<lease, life, pulse, stop, faults, abandoned, overdue, overtaken>>

HeartbeatWorker(w) ==
  /\ pc[w] = "register" /\ Answered(Main(w))
  /\ Store!BeginBeat(Main(w), w, "healthy")
  /\ Go(w, "beat")
  /\ UNCHANGED <<lease, life, pulse, stop, faults, abandoned, overdue, overtaken>>

ReadyToClaim(w) == IF w \in Remote THEN pc[w] = "beat" /\ Answered(Main(w))
                                   ELSE pc[w] = "poll"

ClaimNextRun(w) ==
  /\ ReadyToClaim(w)
  /\ Store!BeginClaim(Main(w), w, {}, "fifo")
  /\ Go(w, "claim")
  /\ UNCHANGED <<lease, life, pulse, stop, faults, abandoned, overdue, overtaken>>

\* The store raises, the endpoint answers 409, the client raises, and nothing
\* in run_once or in the serve loop catches it.
ClaimRefused(w) ==
  /\ ReadyToClaim(w)
  /\ ~Store!Available(workers[w])
  /\ Go(w, "dead")
  /\ UNCHANGED <<server, lease, life, pulse, stop, faults, abandoned, overdue, overtaken>>

\* The first heartbeat of a run is sent by the program, the others by a thread.
\* A heartbeat of a run that is final reads it, and answers.
FirstHeartbeat(w) ==
  /\ pc[w] = "claim" /\ Answered(Main(w)) /\ lease[w] # NoRun
  /\ \/ Store!BeginRunBeat(Main(w), lease[w], w)
     \/ /\ runs[lease[w]].status \notin {"queued", "running"}
        /\ UNCHANGED server
  /\ Go(w, "first")
  /\ UNCHANGED <<lease, life, pulse, stop, faults, abandoned, overdue, overtaken>>

StartPulse(w) ==
  /\ pc[w] = "first" /\ Answered(Main(w))
  /\ pulse' = [pulse EXCEPT ![lease[w]] = "waiting"]
  /\ Go(w, "execute")
  /\ UNCHANGED <<server, lease, life, stop, faults, abandoned, overdue, overtaken>>

\* Mutant: the heartbeat thread is not told to stop.
ExecutorReturnsQuietly(w) ==
  /\ pc[w] = "execute"
  /\ Go(w, "join")
  /\ UNCHANGED <<server, lease, life, pulse, stop, faults, abandoned, overdue, overtaken>>

\* The executor returns a result; a failure of the run is one.
ExecutorReturns(w) ==
  /\ pc[w] = "execute"
  /\ stop' = stop \cup {lease[w]}
  /\ Go(w, "join")
  /\ UNCHANGED <<server, lease, life, pulse, faults, abandoned, overdue, overtaken>>

\* The executor raises: a lease without a spec, a spec that is not valid.
ExecutorRaises(w) ==
  /\ Happens("raises")
  /\ pc[w] = "execute"
  /\ stop' = stop \cup {lease[w]}
  /\ Go(w, "unwind")
  /\ UNCHANGED <<server, lease, life, pulse, abandoned, overdue, overtaken>>

\* Mutant: the heartbeat thread is not waited for.
JoinAtOnce(w) ==
  /\ pc[w] \in {"join", "unwind"}
  /\ IF pc[w] = "join"
     THEN Go(w, "finished") /\ UNCHANGED abandoned
     ELSE Go(w, "dead") /\ abandoned' = abandoned \cup {lease[w]}
  /\ UNCHANGED <<server, lease, life, pulse, stop, faults, overdue, overtaken>>

\* Mutant: the loop survives an exception of the executor, without a completion.
JoinAndServeOn(w) ==
  /\ pc[w] \in {"join", "unwind"}
  /\ pulse[lease[w]] = "ended"
  /\ IF pc[w] = "join"
     THEN Go(w, "finished") /\ UNCHANGED lease
     ELSE Go(w, "poll") /\ lease' = [lease EXCEPT ![w] = NoRun]
  /\ UNCHANGED <<server, life, pulse, stop, faults, abandoned, overdue, overtaken>>

\* After the finally block an exception ends the program, lease and all.
Join(w) ==
  /\ pc[w] \in {"join", "unwind"}
  /\ pulse[lease[w]] = "ended"
  /\ IF pc[w] = "join"
     THEN Go(w, "finished") /\ UNCHANGED abandoned
     ELSE Go(w, "dead") /\ abandoned' = abandoned \cup {lease[w]}
  /\ UNCHANGED <<server, lease, life, pulse, stop, faults, overdue, overtaken>>

\* join returns after two seconds though a heartbeat is not answered.
JoinTimesOut(w) ==
  /\ Happens("slow")
  /\ pc[w] = "join"
  /\ ~Answered(Pulse(lease[w]))
  /\ overdue' = overdue \cup {lease[w]}
  /\ Go(w, "finished")
  /\ UNCHANGED <<server, lease, life, pulse, stop, abandoned, overtaken>>

\* complete_run of a run that is final reads it, and answers.
CompleteRun(w) ==
  /\ pc[w] = "finished"
  /\ \/ \E res \in Store!Results : Store!BeginComplete(Main(w), lease[w], res)
     \/ /\ runs[lease[w]].state \in Store!Final
        /\ UNCHANGED server
  /\ Go(w, "complete")
  /\ UNCHANGED <<lease, life, pulse, stop, faults, abandoned, overdue, overtaken>>

RunOver(w) ==
  /\ pc[w] = "complete" /\ Answered(Main(w))
  /\ lease' = [lease EXCEPT ![w] = NoRun]
  /\ Go(w, "poll")
  /\ UNCHANGED <<server, life, pulse, stop, faults, abandoned, overdue, overtaken>>

-----------------------------------------------------------------------------
(* The heartbeat thread of a run.                                           *)

\* Event.wait returned False: the interval passed.
PulseHeartbeat(r) ==
  /\ pulse[r] = "waiting" /\ r \notin stop
  /\ \/ Store!BeginRunBeat(Pulse(r), r, runs[r].claimed_by)
     \/ /\ runs[r].status \notin {"queued", "running"}
        /\ UNCHANGED server
  /\ pulse' = [pulse EXCEPT ![r] = "run_beat"]
  /\ UNCHANGED <<pc, lease, life, stop, faults, abandoned, overdue, overtaken>>

\* A registered worker is reported alive as well.
PulseHeartbeatWorker(r) ==
  /\ pulse[r] = "run_beat" /\ Answered(Pulse(r))
  /\ runs[r].claimed_by \in Remote
  /\ Store!BeginBeat(Pulse(r), runs[r].claimed_by, "healthy")
  /\ pulse' = [pulse EXCEPT ![r] = "worker_beat"]
  /\ UNCHANGED <<pc, lease, life, stop, faults, abandoned, overdue, overtaken>>

PulseWaits(r) ==
  /\ Answered(Pulse(r))
  /\ pulse[r] = IF runs[r].claimed_by \in Remote THEN "worker_beat" ELSE "run_beat"
  /\ pulse' = [pulse EXCEPT ![r] = "waiting"]
  /\ UNCHANGED <<server, pc, lease, life, stop, faults, abandoned, overdue, overtaken>>

PulseEnds(r) ==
  /\ pulse[r] = "waiting" /\ r \in stop
  /\ pulse' = [pulse EXCEPT ![r] = "ended"]
  /\ UNCHANGED <<server, pc, lease, life, stop, faults, abandoned, overdue, overtaken>>

-----------------------------------------------------------------------------
(* The server answers, or does not.                                         *)

Serve(c) ==
  /\ call[c].op # "claim"
  /\ Store!Commit(c) \/ Store!BeginBeatRegister(c)
  /\ overtaken' = IF /\ call[c].op = "cancel"
                     /\ call[c].read.claimed_by # runs[call[c].run].claimed_by
                  THEN overtaken \cup {call[c].run} ELSE overtaken
  /\ UNCHANGED <<pc, lease, life, pulse, stop, faults, abandoned, overdue>>

\* A lease whose program is no longer there is granted all the same.
GrantLease(w, n) ==
  LET c == <<"main", w, n>>
  IN /\ Store!CommitClaim(c)
     /\ \E r \in Store!Selected({}, "fifo") :
          IF pc[w] = "claim" /\ life[w] = n
          THEN lease' = [lease EXCEPT ![w] = r] /\ UNCHANGED abandoned
          ELSE abandoned' = abandoned \cup {r} /\ UNCHANGED lease
     /\ UNCHANGED <<pc, life, pulse, stop, faults, overdue, overtaken>>

\* 204: nothing to do; run_once returns None and the loop polls again.
GrantNothing(w, n) ==
  /\ Store!CommitClaimNothing(<<"main", w, n>>)
  /\ IF pc[w] = "claim" /\ life[w] = n THEN Go(w, "poll") ELSE UNCHANGED pc
  /\ UNCHANGED <<lease, life, pulse, stop, faults, abandoned, overdue, overtaken>>

\* An exception leaves the serve loop.
Die(w) ==
  /\ Go(w, "dead")
  /\ abandoned' = abandoned \cup ({lease[w]} \ {NoRun})

\* The server meant to insert a row that another request inserted first.
RowTaken(c) ==
  /\ call[c].op \in {"register", "claim"}
  /\ ~call[c].read.known /\ workers[call[c].worker].known

\* The request fails, and its thread ends with the exception.
RequestFails(c) ==
  /\ (RowTaken(c) /\ UNCHANGED faults) \/ Happens("refused")
  /\ Store!Fail(c)
  /\ \/ \E w \in Workers : c = Main(w) /\ pc[w] \in Serving /\ Die(w) /\ UNCHANGED pulse
     \/ /\ \A w \in Workers : c = Main(w) => pc[w] \notin Serving
        /\ pulse' = [r \in Runs |-> IF c = Pulse(r) THEN "ended" ELSE pulse[r]]
        /\ UNCHANGED <<pc, abandoned>>
  /\ UNCHANGED <<lease, life, stop, overdue, overtaken>>

\* The program does not wait any longer; the request is not taken back.
RequestTimesOut(w) ==
  /\ Happens("timeout")
  /\ pc[w] \in Serving /\ ~Answered(Main(w))
  /\ Die(w)
  /\ UNCHANGED <<server, lease, life, pulse, stop, overdue, overtaken>>

PulseTimesOut(r) ==
  /\ Happens("timeout")
  /\ pulse[r] \in {"run_beat", "worker_beat"} /\ ~Answered(Pulse(r))
  /\ pulse' = [pulse EXCEPT ![r] = "ended"]
  /\ overdue' = overdue \cup {r}
  /\ UNCHANGED <<server, pc, lease, life, stop, abandoned, overtaken>>

Killed(w) ==
  /\ Happens("killed")
  /\ pc[w] \in Serving
  /\ Die(w)
  /\ pulse' = [r \in Runs |-> IF r = lease[w] THEN "ended" ELSE pulse[r]]
  /\ UNCHANGED <<server, lease, life, stop, overdue, overtaken>>

GoStale(w) ==
  /\ Happens("stale")
  /\ Store!GoStale(w)
  /\ UNCHANGED <<pc, lease, life, pulse, stop, abandoned, overdue, overtaken>>

-----------------------------------------------------------------------------
Init ==
  /\ Store!Init
  /\ pc = [w \in Workers |-> "off"]
  /\ lease = [w \in Workers |-> NoRun]
  /\ life = [w \in Workers |-> 0]
  /\ pulse = [r \in Runs |-> "none"]
  /\ stop = {} /\ faults = 0 /\ abandoned = {} /\ overdue = {} /\ overtaken = {}

Program(w) ==
  \/ RegisterWorker(w) \/ HeartbeatWorker(w) \/ ClaimNextRun(w) \/ ClaimRefused(w)
  \/ FirstHeartbeat(w) \/ StartPulse(w) \/ ExecutorReturns(w) \/ ExecutorRaises(w)
  \/ Join(w) \/ JoinTimesOut(w) \/ CompleteRun(w) \/ RunOver(w)

PulseThread(r) ==
  \/ PulseHeartbeat(r) \/ PulseHeartbeatWorker(r) \/ PulseWaits(r) \/ PulseEnds(r)

Answer(c) ==
  \/ Serve(c)
  \/ \E w \in Workers, n \in 1..MaxLives :
       c = <<"main", w, n>> /\ (GrantLease(w, n) \/ GrantNothing(w, n))
  \/ RequestFails(c)

Fault ==
  \/ \E w \in Workers : RequestTimesOut(w) \/ Killed(w) \/ GoStale(w)
  \/ \E r \in Runs : PulseTimesOut(r)

Next ==
  \/ \E r \in Runs : Submit(r) \/ CancelRun(r)
  \/ \E w \in Workers : Start(w) \/ StopServing(w) \/ Program(w)
  \/ \E r \in Runs : PulseThread(r)
  \/ \E c \in Callers : Answer(c)
  \/ Fault

Spec == Init /\ [][Next]_vars

\* Programs and threads run, executions end, and the server gets to every request.
FairSpec ==
  /\ Spec
  /\ \A w \in Workers : WF_vars(Program(w))
  /\ \A r \in Runs : WF_vars(PulseThread(r))
  /\ \A c \in Callers : WF_vars(Answer(c))

-----------------------------------------------------------------------------
(* Properties                                                               *)

Served(r) == {w \in Workers : pc[w] \in Working /\ lease[w] = r}

\* A run is executed by one program at a time, whatever requests are late and
\* whichever workers come back.
OneExecutor == \A r \in Runs : Cardinality(Served(r)) <= 1

\* A run that says it is running is in the hands of a program, unless that
\* program went away with it: nothing else leaves a run behind.
OrphanHasCause ==
  \A r \in Runs : runs[r].state = "running" => Served(r) # {} \/ r \in abandoned

\* A worker is not charged for more than the running runs that name it: capacity
\* is lost only with a run whose cancellation was overtaken by its claim.
ChargeHasCause ==
  \A w \in Workers :
    workers[w].active_leases
      <= Cardinality({r \in Runs : /\ runs[r].claimed_by = w
                                  /\ (runs[r].state = "running" \/ r \in overtaken)})

\* GET /runs/<id> tells the outcome of a run that was completed, unless a
\* heartbeat of it was still in flight when its thread was given up.
OutcomeShows ==
  \A r \in Runs : runs[r].state \in Store!Results =>
    runs[r].status = runs[r].state \/ r \in overdue

Settled(r) == runs[r].state \in Store!Final \/ r \in abandoned

\* A submitted run is executed and gets an outcome as long as there is a program
\* that serves.
RunsSettle ==
  \A r \in Runs : runs[r].state = "queued" ~> Settled(r) \/ \A w \in Workers : pc[w] \in Gone
=============================================================================

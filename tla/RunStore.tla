------------------------------ MODULE RunStore ------------------------------
(***************************************************************************)
(* The run queue of the API server: SqliteRunStore and the endpoints that   *)
(* call it (testfabric/api/store.py, testfabric/api/app.py).                *)
(*                                                                         *)
(* Endpoints run in a thread pool, each with its own database session.      *)
(* SQLite takes its write lock at the first UPDATE or INSERT of a session,  *)
(* so what a handler reads before that is read without the lock, and what   *)
(* it writes at commit are the columns whose value differs from the one it  *)
(* read.  Every handler is therefore two steps: Begin<Op> reads a row and   *)
(* applies the early returns, Commit<Op> holds the lock and writes.  call   *)
(* holds the request each caller has in flight between the two.             *)
(***************************************************************************)
EXTENDS Integers, FiniteSets

CONSTANTS
  Runs,             \* run ids
  Workers,          \* worker ids
  Callers,          \* the concurrent clients of the API
  Requests,         \* request payloads: what a run asks for
  Required,         \* [Requests -> label sets]: request.routing_labels
  Routing,          \* [Requests -> label sets]: the labels the affinity score uses
  Priority,         \* [Requests -> Int]: the priority of the request
  LabelSets,        \* the label sets a claim may pass
  Policies,         \* the queue policies a claim may pass
  Capacities,       \* the capacities a worker may register
  Reported,         \* the health states a worker may report
  NoWorker,         \* the claimed_by of a run without a worker
  NoRequest,        \* the request of a run id the table lacks
  Overlap,          \* whether the server handles requests concurrently
  ReuseIds,         \* whether a submission may name the id of an existing run
  AnonymousClaims,  \* whether a claim may leave out its worker id
  MaxSubmits        \* bound: number of submissions

ASSUME StoreAssumption ==
  /\ NoWorker \notin Workers
  /\ NoRequest \notin Requests
  /\ Capacities \subseteq Nat \ {0}
  /\ Reported \subseteq {"healthy", "unhealthy"}
  /\ MaxSubmits \in Nat
  /\ {Overlap, ReuseIds, AnonymousClaims} \subseteq BOOLEAN

VARIABLES
  runs,     \* table runs
  workers,  \* table workers
  call,     \* the request each caller has in flight
  clock,    \* number of submissions so far: the source of queued_at
  grants    \* history: leases granted to the present submission of each run

vars == <<runs, workers, call, clock, grants>>

-----------------------------------------------------------------------------
(* Rows.  state and status are the two places a run's state is stored: the  *)
(* state column, and the state inside status_json, which GET /runs/<id>     *)
(* answers with.                                                            *)

Results  == {"completed", "failed"}
Final    == Results \cup {"canceled"}
RunState == {"absent", "queued", "running"} \cup Final
Health   == {"healthy", "unhealthy"}   \* degraded counts as healthy for a claim

RunRow == [state: RunState, status: RunState, claimed_by: Workers \cup {NoWorker},
           queued_at: Nat, request: Requests \cup {NoRequest},
           result: Results \cup {"none"}]

WorkerRow == [known: BOOLEAN, capacity: Nat \ {0}, active_leases: Nat,
              health: Health, fresh: BOOLEAN]

AbsentRun == [state |-> "absent", status |-> "absent", claimed_by |-> NoWorker,
              queued_at |-> 0, request |-> NoRequest, result |-> "none"]

\* A worker id the table lacks, with the values a claim would create it with.
UnknownWorker == [known |-> FALSE, capacity |-> 1, active_leases |-> 0,
                  health |-> "healthy", fresh |-> TRUE]

\* An UPDATE names the columns whose new value differs from the value read.
Column(current, read, new) == IF new = read THEN current ELSE new

\* status_json carries a timestamp of the write, so it always differs.
Written(current, read, new) ==
  [state      |-> Column(current.state, read.state, new.state),
   status     |-> new.status,
   claimed_by |-> Column(current.claimed_by, read.claimed_by, new.claimed_by),
   queued_at  |-> Column(current.queued_at, read.queued_at, new.queued_at),
   request    |-> Column(current.request, read.request, new.request),
   result     |-> Column(current.result, read.result, new.result)]

-----------------------------------------------------------------------------
(* Requests in flight.                                                      *)

Idle == [op |-> "idle"]

Create(r, read, new)       == [op |-> "create", run |-> r, read |-> read, new |-> new]
Register(w, read, cap, h)  == [op |-> "register", worker |-> w, read |-> read,
                               capacity |-> cap, health |-> h]
Beat(w, read, h)           == [op |-> "beat", worker |-> w, read |-> read, health |-> h]
BeatRegister(w, cap, h)    == [op |-> "beat_register", worker |-> w,
                               capacity |-> cap, health |-> h]
Claim(w, read, ls, p)      == [op |-> "claim", worker |-> w, read |-> read,
                               labels |-> ls, policy |-> p]
ClaimAnon(r, read)         == [op |-> "claim_anon", run |-> r, read |-> read]
RunBeat(r, read, w)        == [op |-> "run_beat", run |-> r, read |-> read, worker |-> w]
Cancel(r, read)            == [op |-> "cancel", run |-> r, read |-> read]
Complete(r, read, res)     == [op |-> "complete", run |-> r, read |-> read, result |-> res]

\* Without Overlap the server finishes a request before it takes the next.
CanBegin(c) == /\ call[c] = Idle
               /\ Overlap \/ \A d \in Callers : call[d] = Idle

Send(c, request) == call' = [call EXCEPT ![c] = request]

Done(c) == call' = [call EXCEPT ![c] = Idle]

-----------------------------------------------------------------------------
(* POST /runs, POST /runs/<id>/replay                                       *)

\* A submission sets every column of the row; the id may be one in the table.
BeginCreate(c, r, q) ==
  /\ CanBegin(c)
  /\ clock < MaxSubmits
  /\ ReuseIds \/ runs[r].state = "absent"
  /\ clock' = clock + 1
  /\ Send(c, Create(r, runs[r],
                    [state |-> "queued", status |-> "queued", claimed_by |-> NoWorker,
                     queued_at |-> clock + 1, request |-> q, result |-> "none"]))
  /\ UNCHANGED <<runs, workers, grants>>

\* A replay submits the request of an existing run again.
BeginReplay(c, source, r) ==
  /\ runs[source].state # "absent"
  /\ BeginCreate(c, r, runs[source].request)

(***************************************************************************)
(* INSERT fails when another submission inserted the id since the read.  A  *)
(* queued status has no timestamp: resubmitting the same request over a     *)
(* queued row may find status_json unchanged, and then does not write it.   *)
(***************************************************************************)
CommitCreate(c) ==
  /\ call[c].op = "create"
  /\ LET r == call[c].run
         read == call[c].read
         new == call[c].new
         row == Written(runs[r], read, new)
         same == read.status = "queued" /\ read.request = new.request
     IN /\ read.state = "absent" => runs[r].state = "absent"
        /\ \E unwritten \in {FALSE, same} :
             runs' = [runs EXCEPT ![r] =
                        [row EXCEPT !.status = IF unwritten THEN runs[r].status ELSE @]]
        /\ grants' = [grants EXCEPT ![r] = IF row.state = "queued" THEN 0 ELSE @]
  /\ Done(c)
  /\ UNCHANGED <<workers, clock>>

-----------------------------------------------------------------------------
(* POST /workers, POST /workers/<id>/heartbeat, and the passing of time     *)

BeginRegister(c, w, cap, h) ==
  /\ CanBegin(c)
  /\ Send(c, Register(w, workers[w], cap, h))
  /\ UNCHANGED <<runs, workers, clock, grants>>

\* active_leases and last_heartbeat_at are not columns a registration sets.
CommitRegister(c) ==
  /\ call[c].op = "register"
  /\ LET w == call[c].worker
         read == call[c].read
     IN /\ ~read.known => ~workers[w].known
        /\ workers' = [workers EXCEPT
             ![w].known = TRUE,
             ![w].capacity = Column(@, read.capacity, call[c].capacity),
             ![w].health = Column(@, read.health, call[c].health)]
  /\ Done(c)
  /\ UNCHANGED <<runs, clock, grants>>

BeginBeat(c, w, h) ==
  /\ CanBegin(c)
  /\ workers[w].known
  /\ Send(c, Beat(w, workers[w], h))
  /\ UNCHANGED <<runs, workers, clock, grants>>

\* A heartbeat that reports a health goes on to register the worker again,
\* with the capacity that the heartbeat read.
CommitBeat(c) ==
  /\ call[c].op = "beat"
  /\ workers' = [workers EXCEPT ![call[c].worker].fresh = TRUE]
  /\ IF call[c].health = "unreported"
     THEN Done(c)
     ELSE Send(c, BeatRegister(call[c].worker, call[c].read.capacity, call[c].health))
  /\ UNCHANGED <<runs, clock, grants>>

BeginBeatRegister(c) ==
  /\ call[c].op = "beat_register"
  /\ LET w == call[c].worker
     IN Send(c, Register(w, workers[w], call[c].capacity, call[c].health))
  /\ UNCHANGED <<runs, workers, clock, grants>>

\* The heartbeat timeout passes without a heartbeat or a claim.
GoStale(w) ==
  /\ workers[w].known /\ workers[w].fresh
  /\ workers' = [workers EXCEPT ![w].fresh = FALSE]
  /\ UNCHANGED <<runs, call, clock, grants>>

-----------------------------------------------------------------------------
(* POST /queue/claim                                                        *)

\* Mutant: the queue is the runs whose status_json says queued.
EligibleByStatus(r, labels) ==
  /\ runs[r].status = "queued"
  /\ labels = {} \/ Required[runs[r].request] \subseteq labels

\* Mutant: a run whose worker was silent for too long is leased again.
EligibleAfterSilence(r, labels) ==
  /\ \/ runs[r].state = "queued"
     \/ /\ runs[r].state = "running" /\ runs[r].claimed_by # NoWorker
        /\ ~workers[runs[r].claimed_by].fresh
  /\ labels = {} \/ Required[runs[r].request] \subseteq labels

\* A claim that passes no labels is eligible for every run.
Eligible(r, labels) ==
  /\ runs[r].state = "queued"
  /\ labels = {} \/ Required[runs[r].request] \subseteq labels

Older(r, s) == runs[r].queued_at < runs[s].queued_at

Score(r, labels) ==
  LET routing == Routing[runs[r].request]
  IN Cardinality(IF labels = {} THEN routing ELSE routing \cap labels)

HigherPriority(r, s) ==
  LET p == Priority[runs[r].request]
      q == Priority[runs[s].request]
  IN p > q \/ (p = q /\ Older(r, s))

\* Whether the policy sorts run r before run s.
Ahead(r, s, policy, labels) ==
  CASE policy = "lifo"     -> Older(s, r)
    [] policy = "priority" -> HigherPriority(r, s)
    [] policy = "affinity" -> \/ Score(r, labels) > Score(s, labels)
                              \/ /\ Score(r, labels) = Score(s, labels)
                                 /\ HigherPriority(r, s)
    [] OTHER               -> Older(r, s)

\* The run a claim takes: the first of the eligible runs under the policy.
Selected(labels, policy) ==
  {r \in Runs : /\ Eligible(r, labels)
                /\ \A s \in Runs \ {r} : Eligible(s, labels) => Ahead(r, s, policy, labels)}

Available(row) ==
  row.health # "unhealthy" /\ row.fresh /\ row.active_leases < row.capacity

\* The availability of the worker is judged on a row read without the lock.
BeginClaim(c, w, labels, policy) ==
  /\ CanBegin(c)
  /\ Available(workers[w])
  /\ Send(c, Claim(w, workers[w], labels, policy))
  /\ UNCHANGED <<runs, workers, clock, grants>>

\* Under the lock the queue is read afresh, but active_leases is one more
\* than the value read before.
CommitClaim(c) ==
  /\ call[c].op = "claim"
  /\ LET w == call[c].worker
         read == call[c].read
     IN /\ ~read.known => ~workers[w].known
        /\ \E r \in Selected(call[c].labels, call[c].policy) :
             /\ runs' = [runs EXCEPT ![r] =
                  [@ EXCEPT !.state = "running", !.status = "running", !.claimed_by = w]]
             /\ workers' = [workers EXCEPT ![w] =
                  [@ EXCEPT !.known = TRUE, !.fresh = TRUE,
                            !.active_leases = read.active_leases + 1]]
             /\ grants' = [grants EXCEPT ![r] = @ + 1]
  /\ Done(c)
  /\ UNCHANGED clock

\* No eligible run: the session is rolled back, the worker row with it.
CommitClaimNothing(c) ==
  /\ call[c].op = "claim"
  /\ ~call[c].read.known => ~workers[call[c].worker].known
  /\ Selected(call[c].labels, call[c].policy) = {}
  /\ Done(c)
  /\ UNCHANGED <<runs, workers, clock, grants>>

\* Without a worker id nothing is written, so nothing locked, before the
\* queue is read.
BeginClaimAnon(c, labels, policy) ==
  /\ CanBegin(c)
  /\ AnonymousClaims
  /\ \E r \in Selected(labels, policy) : Send(c, ClaimAnon(r, runs[r]))
  /\ UNCHANGED <<runs, workers, clock, grants>>

CommitClaimAnon(c) ==
  /\ call[c].op = "claim_anon"
  /\ LET r == call[c].run
         read == call[c].read
         new == [read EXCEPT !.state = "running", !.status = "running",
                             !.claimed_by = NoWorker]
     IN /\ runs' = [runs EXCEPT ![r] = Written(@, read, new)]
        /\ grants' = [grants EXCEPT ![r] = @ + 1]
  /\ Done(c)
  /\ UNCHANGED <<workers, clock>>

-----------------------------------------------------------------------------
(* POST /runs/<id>/heartbeat, /cancel, /complete                            *)

BeginRunBeat(c, r, w) ==
  /\ CanBegin(c)
  /\ runs[r].status \in {"queued", "running"}
  /\ Send(c, RunBeat(r, runs[r], w))
  /\ UNCHANGED <<runs, workers, clock, grants>>

\* Mutant: the heartbeat writes the state it read to the state column too.
CommitRunBeatState(c) ==
  /\ call[c].op = "run_beat"
  /\ runs' = [runs EXCEPT ![call[c].run].status = call[c].read.status,
                          ![call[c].run].state = call[c].read.status]
  /\ Done(c)
  /\ UNCHANGED <<workers, clock, grants>>

\* The status that was read is written back with a new timestamp.
CommitRunBeat(c) ==
  /\ call[c].op = "run_beat"
  /\ LET r == call[c].run
         read == call[c].read
         w == call[c].worker
     IN /\ runs' = [runs EXCEPT ![r] = Written(@, read, read)]
        /\ workers' = IF w \in Workers /\ workers[w].known
                      THEN [workers EXCEPT ![w].fresh = TRUE]
                      ELSE workers
  /\ Done(c)
  /\ UNCHANGED <<clock, grants>>

\* The lease of the worker that the run row names goes back, if it has one.
Release(w) ==
  workers' = IF w \in Workers /\ workers[w].known
             THEN [workers EXCEPT ![w].active_leases = IF @ > 0 THEN @ - 1 ELSE 0]
             ELSE workers

\* A run that failed can be canceled; one completed or canceled cannot.
BeginCancel(c, r) ==
  /\ CanBegin(c)
  /\ runs[r].status \notin {"absent", "canceled", "completed"}
  /\ Send(c, Cancel(r, runs[r]))
  /\ UNCHANGED <<runs, workers, clock, grants>>

\* Mutant: the cancellation reaches status_json but not the state column.
CommitCancelStatusOnly(c) ==
  /\ call[c].op = "cancel"
  /\ runs' = [runs EXCEPT ![call[c].run].status = "canceled"]
  /\ Release(call[c].read.claimed_by)
  /\ Done(c)
  /\ UNCHANGED <<clock, grants>>

\* Mutant: the lease of a canceled run is not released.
CommitCancelNoRelease(c) ==
  /\ call[c].op = "cancel"
  /\ LET r == call[c].run
         read == call[c].read
     IN runs' = [runs EXCEPT ![r] =
                   Written(@, read, [read EXCEPT !.state = "canceled", !.status = "canceled"])]
  /\ Done(c)
  /\ UNCHANGED <<workers, clock, grants>>

CommitCancel(c) ==
  /\ call[c].op = "cancel"
  /\ LET r == call[c].run
         read == call[c].read
         new == [read EXCEPT !.state = "canceled", !.status = "canceled"]
     IN /\ runs' = [runs EXCEPT ![r] = Written(@, read, new)]
        /\ Release(read.claimed_by)
  /\ Done(c)
  /\ UNCHANGED <<clock, grants>>

\* Whoever completes a run is not compared with its claimed_by.
BeginComplete(c, r, result) ==
  /\ CanBegin(c)
  /\ runs[r].state \notin Final \cup {"absent"}
  /\ Send(c, Complete(r, runs[r], result))
  /\ UNCHANGED <<runs, workers, clock, grants>>

\* Mutant: the first result is kept.
CommitCompleteFirstResult(c) ==
  /\ call[c].op = "complete"
  /\ LET r == call[c].run
         read == call[c].read
         res == call[c].result
         new == [read EXCEPT !.state = res, !.status = res]
     IN /\ runs' = [runs EXCEPT ![r] =
                      [Written(@, read, new) EXCEPT
                         !.result = IF @ = "none" THEN res ELSE @]]
        /\ Release(read.claimed_by)
  /\ Done(c)
  /\ UNCHANGED <<clock, grants>>

\* result_json carries the time of the lease, so it always differs.
CommitComplete(c) ==
  /\ call[c].op = "complete"
  /\ LET r == call[c].run
         read == call[c].read
         res == call[c].result
         new == [read EXCEPT !.state = res, !.status = res]
     IN /\ runs' = [runs EXCEPT ![r] = [Written(@, read, new) EXCEPT !.result = res]]
        /\ Release(read.claimed_by)
  /\ Done(c)
  /\ UNCHANGED <<clock, grants>>

-----------------------------------------------------------------------------
\* The request fails before its commit: the database stayed locked past the
\* busy timeout, an INSERT met an existing row, or the server stopped.
Fail(c) ==
  /\ call[c] # Idle
  /\ Done(c)
  /\ UNCHANGED <<runs, workers, clock, grants>>

Init ==
  /\ runs = [r \in Runs |-> AbsentRun]
  /\ workers = [w \in Workers |-> UnknownWorker]
  /\ call = [c \in Callers |-> Idle]
  /\ clock = 0
  /\ grants = [r \in Runs |-> 0]

Begin(c) ==
  \/ \E r \in Runs, q \in Requests : BeginCreate(c, r, q)
  \/ \E source, r \in Runs : BeginReplay(c, source, r)
  \/ \E w \in Workers, cap \in Capacities, h \in Reported : BeginRegister(c, w, cap, h)
  \/ \E w \in Workers, h \in Reported \cup {"unreported"} : BeginBeat(c, w, h)
  \/ BeginBeatRegister(c)
  \/ \E w \in Workers, ls \in LabelSets, p \in Policies : BeginClaim(c, w, ls, p)
  \/ \E ls \in LabelSets, p \in Policies : BeginClaimAnon(c, ls, p)
  \/ \E r \in Runs, w \in Workers \cup {NoWorker} : BeginRunBeat(c, r, w)
  \/ \E r \in Runs : BeginCancel(c, r)
  \/ \E r \in Runs, res \in Results : BeginComplete(c, r, res)

Commit(c) ==
  \/ CommitCreate(c)
  \/ CommitRegister(c)
  \/ CommitBeat(c)
  \/ CommitClaim(c)
  \/ CommitClaimNothing(c)
  \/ CommitClaimAnon(c)
  \/ CommitRunBeat(c)
  \/ CommitCancel(c)
  \/ CommitComplete(c)

Next ==
  \/ \E c \in Callers : Begin(c) \/ Commit(c) \/ Fail(c)
  \/ \E w \in Workers : GoStale(w)

Spec == Init /\ [][Next]_vars

-----------------------------------------------------------------------------
(* Properties                                                               *)

Request ==
       [op: {"idle"}]
  \cup [op: {"create"}, run: Runs, read: RunRow, new: RunRow]
  \cup [op: {"register"}, worker: Workers, read: WorkerRow, capacity: Nat \ {0}, health: Health]
  \cup [op: {"beat"}, worker: Workers, read: WorkerRow, health: Health \cup {"unreported"}]
  \cup [op: {"beat_register"}, worker: Workers, capacity: Nat \ {0}, health: Health]
  \cup [op: {"claim"}, worker: Workers, read: WorkerRow, labels: LabelSets, policy: Policies]
  \cup [op: {"claim_anon"}, run: Runs, read: RunRow]
  \cup [op: {"run_beat"}, run: Runs, read: RunRow, worker: Workers \cup {NoWorker}]
  \cup [op: {"cancel"}, run: Runs, read: RunRow]
  \cup [op: {"complete"}, run: Runs, read: RunRow, result: Results]

\* Rows and requests have their types; in particular active_leases never
\* becomes negative and a request in flight carries a complete row.
TypeOK ==
  /\ runs \in [Runs -> RunRow]
  /\ workers \in [Workers -> WorkerRow]
  /\ call \in [Callers -> Request]
  /\ clock \in Nat
  /\ grants \in [Runs -> Nat]

\* The leases a worker holds according to table runs.
Held(w) == {r \in Runs : runs[r].state = "running" /\ runs[r].claimed_by = w}

\* The leases a worker is charged for beyond those it holds.
Leaked(w) ==
  LET charged == workers[w].active_leases
      held == Cardinality(Held(w))
  IN IF charged > held THEN charged - held ELSE 0

\* The requests whose commit writes the columns of a row read before.
RowOps == {"create", "claim_anon", "run_beat", "cancel", "complete"}

\* This step ends the request of c, or lets it fail.
Ends(c) == call[c] # Idle /\ call'[c] = Idle

\* The row of the run was changed since c read it.
Outdated(c) == call[c].op \in RowOps /\ call[c].read # runs[call[c].run]

\* The two places a run's state is stored tell the same, and part only when a
\* request writes over a row that another one changed since it was read: no
\* handler by itself makes GET /runs/<id> answer what the queue does not act on.
StatusHasCause ==
  [][\A r \in Runs :
       runs[r].status = runs[r].state /\ runs'[r].status # runs'[r].state =>
         \E c \in Callers : Ends(c) /\ Outdated(c) /\ call[c].run = r]_vars

\* A worker is charged for a lease it does not hold only because a claim read a
\* higher count than the one it replaced, its run was submitted anew, or the run
\* was taken from it by a request that had read another state or owner: every
\* other way to end a run gives the lease back.
LeakHasCause ==
  [][\A w \in Workers : Leaked(w)' > Leaked(w) =>
       \E c \in Callers :
         /\ Ends(c)
         /\ \/ /\ call[c].op = "claim" /\ call[c].worker = w
               /\ call[c].read.active_leases > workers[w].active_leases
            \/ /\ call[c].op = "create" /\ call[c].run \in Held(w)
            \/ /\ Outdated(c) /\ call[c].run \in Held(w)
               /\ \/ call[c].read.state # "running"
                  \/ call[c].read.claimed_by # w]_vars

\* A submission is leased at most once, however claims, cancellations and
\* resubmissions interleave.  (Claims that name their worker.)
ExclusiveLease == \A r \in Runs : grants[r] <= 1

\* A run that has an outcome has the result that was reported with it, whatever
\* request its commit raced with.
ResultMatchesState ==
  \A r \in Runs : runs[r].state \in Results => runs[r].result = runs[r].state

Rank(state) == CASE state = "absent" -> 0 [] state = "queued" -> 1
                 [] state = "running" -> 2 [] OTHER -> 3

\* A run moves from queued to running to an outcome and never back: no late
\* claim or heartbeat sets a finished run to work again.  (Claims that name
\* their worker, run ids not reused.)
OnlyAdvance == [][\A r \in Runs : Rank(runs[r].state) <= Rank(runs'[r].state)]_vars

\* GET /runs/<id> never tells more than the queue knows: status_json may fall
\* behind the state column when requests overlap, and is never ahead of it.  (Claims
\* that name their worker, run ids not reused.)
StatusNotAhead == \A r \in Runs : Rank(runs[r].status) <= Rank(runs[r].state)

\* A worker does not hold more leases than the capacity it registered.
LeasesWithinCapacity ==
  \A w \in Workers : Cardinality(Held(w)) <= workers[w].capacity

-----------------------------------------------------------------------------
(* The store is a RunQueue.                                                 *)

Phase == [r \in Runs |-> CASE runs[r].state = "absent"  -> "free"
                           [] runs[r].state = "queued"  -> "queued"
                           [] runs[r].state = "running" -> "leased"
                           [] OTHER                     -> "over"]

Holder == [r \in Runs |-> runs[r].claimed_by]

Outcome == [r \in Runs |-> IF runs[r].state \in Final THEN runs[r].state ELSE "none"]

Queue == INSTANCE RunQueue WITH phase <- Phase, holder <- Holder, outcome <- Outcome

\* The store keeps the promise of RunQueue, whatever requests overlap: a run is
\* leased once, by a claim that finds it queued, keeps its worker's name, and a late
\* claim or heartbeat never sets a finished run to work again.  (Claims that name
\* their worker, run ids not reused.)
KeepsQueue == Queue!Spec
=============================================================================

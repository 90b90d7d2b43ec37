# TestFabric in TLA+

Specifications of TestFabric: TLA+ modules translated from the Python source,
TLC configurations that check them on small instances, and proofs that TLAPS
checks for all instances.  Paths below are relative to `testfabric/`.

## The system

TestFabric runs test jobs.  A run is described by a YAML file; it has stages,
a stage has jobs, and a job is one command executed locally or in a container.
Runs are started from the command line or submitted to an API server, from
which workers claim them.

| Component | Code | State it keeps | Operations | Talks to | Modules |
|---|---|---|---|---|---|
| Run store and API | `api/store.py`, `api/app.py` | tables `runs` and `workers` in SQLite | submit, replay, register, worker heartbeat, claim, run heartbeat, cancel, complete, read events | workers and clients, by HTTP | RunStore, RunQueue, EventLog |
| Worker | `worker/*` | the lease it holds, a heartbeat thread | register, claim, execute, heartbeat, complete | the API; the orchestrator, by a call | Fleet |
| Plan compiler | `orchestrator/plan/*` | none | lay out stages on targets, split items into jobs | specification | Planner |
| Orchestrator and lifecycle | `orchestrator/orchestrator.py`, `orchestrator/plan/lifecycle.py` | group state, stage results | run stages in order, skip after failures, run teardowns, summarize | compiler, coordinator, aggregate | Orchestrator |
| Stage coordinator | `orchestrator/stage/*` | the stage's context | acquire, build, dispatch, judge, write, mirror, release | dispatcher, executors, reporter, pool | Orchestrator |
| Worker pool and targets | `workers/*` | free workers | acquire, release | coordinator | Planner, Orchestrator |
| Reporter and aggregate | `reporting/*`, `orchestrator/aggregate.py` | report files | verdict and counts of a stage and of a run | coordinator, orchestrator | Orchestrator |
| Health | `health/*` | none | probe, decide | orchestrator | Orchestrator |
| Dispatcher | `orchestrator/dispatch/threaded.py` | pending jobs, futures, attempts, latest results, time-outs | submit, collect, retry, give up | thread pool, executor, watch | Dispatcher, RetryPool |
| Executors | `execution/executors/*` | a process or container, output pumps, a stop flag | run, time out, stop | operating system, callbacks | LocalExecutor, DockerRun |
| Expect runtime | `expect/runtime.py` | position in a dialogue | answer output | executor, by a callback | ExpectSession |
| Watch runtime | `watch/runtime.py` | matches seen, sequences, file offsets, abort flag | feed output, poll, act, stop, finalize | dispatcher, by callbacks and a flag | Watch |
| Events and followers | `infra/live_logger.py`, `cli/main.py`, `cli/transport.py` | `events.jsonl`, a follower's offset | append, read, poll | all of the above | EventLog |
| Suites, specification, inputs, artifacts, workspace, redaction, bootstrap, library API, history, the rest of the command line | the rest | files | text, paths and records | all of the above | see "Not modelled" |

What is hard in it:

* The API handles requests in a thread pool.  Each handler reads rows first and
  takes the database's write lock only with its first write, so that what it
  decides on may be old when it writes (`api/store.py`).
* The run's state is stored twice, in a column and inside `status_json`.
* Workers hold leases that are counted, not listed; requests fail, time out or
  are answered late, and worker programs die and are started again.  Nothing in
  the store takes a lease back.
* Nearly every step of a stage may raise, an event that cannot be written
  included.  Some failures are swallowed, some fail the stage, some the run
  (`orchestrator/stage/coordinator.py`).
* Groups of stages share a failure flag that decides which teardown runs.
* The dispatching thread shares `attempts`, `timed_out_job_ids` and the abort
  flag with the threads of its pool; retries, the stage deadline and aborts
  meet in any order (`orchestrator/dispatch/threaded.py`).
* An executor waits for a process or a container beside the pumps and the timer
  that may stop it; callbacks may raise.
* The watch runtime is fed by the output pumps of all jobs and by its own
  pollers, mostly without a lock, and reads files that grow (`watch/runtime.py`).
* A follower reads a file that is being written, and a row that another request
  is about to change.

The hazards of the code, each at its line and with the properties that would
notice it, are listed in `PROJECT.json`.

## How the modules fit together

```
Fleet          worker programs and a user   --INSTANCE-->  RunStore
RunStore       the run queue                --implements-> RunQueue
Orchestrator   one run                      --EXTENDS-->   Planner
                 (a stage's jobs end as the dispatcher says)
Dispatcher     the jobs of one stage        --implements-> RetryPool
                 (a job's command ends as an executor says)
LocalExecutor, DockerRun     one command    (callbacks go on, object or raise)
ExpectSession, Watch         the callbacks
EventLog       what all of them emit, and who reads it
```

`MC<Module>` gives a module its instances; `<Module>_<run>.cfg` is a run of it;
`<Module>_proofs` holds its theorems; `Executors_proofs` holds those of LocalExecutor
and of DockerRun.

### RunStore and RunQueue: the run queue

`RunQueue.tla` is what the store promises: a run is submitted once, leased to one
worker at most and only from the queue, keeps the name of that worker, and does not
lose its outcome but to a report that comes later.

`RunStore.tla` models `SqliteRunStore` and the endpoints that write to it.
`runs` and `workers` are the tables, one record per row.  Each handler is two
actions, `Begin<Op>` and `Commit<Op>`: the first reads a row and applies the
handler's early returns, the second holds the write lock until it commits.
`call[c]` is the request that caller `c` has in flight, with the row it read.

* SQLAlchemy writes the columns whose new value differs from the value read.
  `Column` and `Written` say so, and that is what makes overlapping requests
  interesting: a column that did not change is not written, even if another
  request changed it meanwhile.
* `status` is the state inside `status_json`.  It carries a timestamp and is
  therefore always written.
* A claim judges the worker's availability on a row read without the lock, but
  reads the queue after its first UPDATE, hence under the lock (`BeginClaim`,
  `CommitClaim`).  Without a worker id nothing is locked before the queue is
  read (`BeginClaimAnon`, `CommitClaimAnon`).
* For `cancel` and `complete`, the worker's row is read after the autoflush of
  the run's UPDATE, so `Release` acts on the current row.
* `POST /workers/<id>/heartbeat` with a health state is two transactions
  (`CommitBeat`, then `BeginBeatRegister` and `CommitRegister`).
* `Fail` is a request that ends before its commit: the busy timeout, an INSERT
  that meets a row, a stopped server.  `GoStale` is a worker row whose last
  heartbeat has become too old.

Abstractions: request payloads are model values with their labels and priority;
completions carry `completed` or `failed`, the two a worker sends; `degraded`
health counts as healthy, as it does for a claim; `queued_at` is the number of
the submission; `grants` is a history variable.  `Overlap`, `ReuseIds` and
`AnonymousClaims` switch off concurrency, resubmission of a run id, and claims
without a worker id.  What holds only without one of them says so; what is said of
the two stored states (`StatusHasCause`) and of the charge of a worker
(`LeakHasCause`) is said with all three, and names the requests that break them.

The refinement mapping (`Phase`, `Holder`, `Outcome`) reads the state column and
`claimed_by` of the rows; `KeepsQueue` says that the store is a RunQueue if ids
are not reused and claims name their worker.  `status` is not in it: the state that
`GET /runs/<id>` answers may be older than the column (see the divergences).

### Fleet: the worker programs over the queue

`Fleet.tla` composes the server, which is `RunStore` with overlapping requests,
with `worker serve` (`worker/serve.py`), `run_once` and its heartbeat thread
(`worker/remote.py`, `worker/runtime.py`), and a user who submits and cancels.
Every thread is one caller of the store: `Main(w)` the program now running
under worker id `w`, `Pulse(r)` the heartbeat thread of run `r`, `Client` the
user.  A thread goes on when its request is answered.  A request whose sender
has given up or died stays in flight, and the server commits it all the same:
`GrantLease` grants a run to a program that is no longer there.

The faults, of which an instance chooses: a request is `refused`; it meets the
client's `timeout`; the executor `raises`; a heartbeat is so `slow` that the
join of its thread gives up; a program is `killed`; a worker's row goes `stale`.
Each ends what it ends in the code: an exception leaves `run_once` through its
finally block (`Join`) and ends the serve loop, which catches nothing.

`abandoned`, `overdue` and `overtaken` are history: they name the three causes
for which a run may stay running, show another state than its outcome, or keep
a worker charged.  Not in the model: a heartbeat interval of 0 (no thread), and
replayed runs.

### Planner and Orchestrator: one run

`Planner.tla` holds the pure part: how a specification becomes planned stages
(`compiler.py`, `targets.py`: executors, settings, targets, the layers of a
transport) and how the items of a stage become jobs (`job_planner.py`,
`strategies.py`, `split.py`, `manifest.py`).  A stage whose workers or chunks are
fewer than one, or retries fewer than none, is refused (`StageIsValid`).

`Orchestrator.tla` is `Orchestrator.run` with everything it calls in its thread.
`pc` names the next step; `here` holds the locals of `StageCoordinator.run`.  A
step that may raise has a disjunct with `Breaks`, and where the exception goes is
where the code's try blocks send it: `StageFails` inside the coordinator's try,
`GiveUp` outside it, nowhere for what is swallowed (`MirrorStage`,
`EnsureStageSummary`, `WriteRunSummary`).  `Interrupt` is a KeyboardInterrupt,
which no except clause holds.

* `BeforeStage`, `ShouldExecute` and `AfterStage` are the lifecycle.
* `written` and `mirrored` are the two copies of `stage-summary.json`: the
  worker's and the run's.  `Rows` is what the aggregator makes of the second, or
  of the result if there is none.
* `Execute` lets the jobs of the plan end in any way the dispatcher reports,
  with at most `MaxBad` of them not passing.

What a probe of the machine finds is arbitrary; suites have the items that a
specification gives them; artifacts, JUnit files and report layout are left out.

### Dispatcher and RetryPool: the jobs of a stage

`RetryPool.tla` is what the dispatcher promises: every job is tried at most
`MaxRetries + 1` times, at most `MaxWorkers` jobs run at once, a job runs once
at a time, gets one verdict, which is final, and passes only if it was tried.

`Dispatcher.tla` models `LocalDispatcher.run_jobs`.  The dispatching thread goes
through `pc` = fill, wait, decide, resubmit, deadline and finish; its steps are
cut where it reads what the other threads write.  `thread[j]` is both the future
of job `j` and the thread that runs it; a future leaves the table when its result
is collected.  `RunOne(j)` is the code of `run_one`: a start that comes too
late, a start that raises, and the ways a command ends.  `run_one` puts a job that
timed out or was aborted in `timed_out_job_ids` before it emits the event, both
inside its try block: if that event fails, the job stays there and its result is
an error (`Break`), and if the event of the error fails too, the future raises
(`BreakRaises`).  `DispatchRaises` is an event of the dispatching thread that
fails.  `DeadlinePasses` and `AbortRequested` happen at any moment.  A future that
raises ends the loop; the pool is waited for (`Unwind`) and `run_jobs` raises.

The refinement mapping (`Verdict`, `Tries`, `Busy`) calls a job decided once its
result is recorded, it has no future, and it is not the job in hand.

### LocalExecutor: a command on this machine

`LocalExecutor.tla` models `LocalExecutorAdapter.run`: the loop that asks whether
a stop was requested, the command ended, or its time is up; `_terminate_process`
(`Terminate`, `Reap`, `Kill`); the two pump threads; and the joins and closes at
the end.  The command is a process group of a leader and a child it may leave in
the background; a process may ignore SIGTERM.  Output is counted in lines and a
pipe holds `PipeSize` of them.  A pump in `read` holds the lock of the stream's
buffer, which `Close` needs.  A callback goes on, returns False, or raises.

### DockerRun: a command in a container

`DockerRun.tla` models `docker_run`: create, start, wait, hand the output on,
decide, and the finally block, with the timer's thread beside it.  Any call to
the daemon may fail; `refusing` lets it also refuse to stop or to remove.  A
container without a limit may run for ever.  What is copied to and from a remote
container is left out.  Names that LocalExecutor has too begin with `docker`, since
one module of proofs extends both.

### ExpectSession: an interactive command

`ExpectSession.tla` composes a command that asks prompts, the pumps, and
`ExpectRuntime.feed_output`, cut where another thread may run.  Prompt k is the
text that step k matches; `Listen` says which stream a step accepts and `Prints`
to which streams a prompt goes.  `EndsLine` is whether prompts are whole lines:
the pump reads lines, so another prompt is not delivered before the command ends.
The log of a line may fail before `feed_output` is called (`LogFails`), and the
event of an answer after the step was counted (`SendFails`): either ends the pump,
and nobody reads its stream from then on.  The attempts of the job share one
`ExpectRuntime`, as in `orchestrator/stage/executor.py`: `Retry` renews the command, not
`index`.

### Watch: what a stage watches

`Watch.tla` models `WatchRuntime` from a text that a thread feeds to the verdict of
the stage.  A feeder is an output pump or the poller of a source; its actions
follow `_match_watchers`, `_match_sequence` and `_execute_action`, and other
feeders run between them, since none holds a lock.  A statement is taken as
atomic, but for the step from a match to the next pattern, which is two: the match
is found in `Search`, and cursor and index are moved on in `Advance`.

* An event may raise, after the match was remembered, and so may a script.  The
  exception ends the text for all watchers behind, and the pump, if it is one
  (`Raises`).
* A source may be a file that something else appends to and truncates.  A poll
  asks for the size (`AskSize`), reads the file to its end (`ReadFile`), and keeps
  the size as the offset of the next poll.  What happens to the file between two
  looks at it is part of the second one (`FileChanges`).  A poll of a URL or of a
  command is a text.
* `Stop` waits for nobody: a poller is joined for one second and a pump for five,
  and a poll, or a script, may take longer.  The threads that go on are `late`;
  pollers finish the poll they are at, pumps hand on more.  `Judge` is `finalize`,
  one sequence at a time, whose event may raise: the dispatcher passes over that,
  and the sequences behind it (`left`) are not judged.  `Tell` is the dispatcher
  that reads the reason (`told`).  `Act` sets the abort flag, and `Blame` gives the
  reason in a step of its own.

`fed`, what each sequence was fed, and `log` are history, and so are the two that
tell races apart: `crossed` are the sequences that two threads were in at once,
and `raced` the watchers that two threads found new at once.  A text is a sequence
of symbols and a pattern is a symbol; a sequence's buffer is never cut, which the
code does behind the cursor only.  Status codes, numeric conditions, and two
sources of one file are left out.

### EventLog: the events of a run and their followers

`EventLog.tla` composes `LiveLogger.event`, called by any thread of the run, with
`get_run_events` and `testfabric events`.  A line reaches the file in two halves
(`WriteHalf`, `WriteRest`): a reader may see the first alone, and a write that
fails between them leaves it there (`EmitFails`), so that the next event is appended to it
and shares its line.  Such a line is not JSON, and is passed over (`Items`).  The API
reads the file, then the state, and holds a request that has nothing to say
(`Reply`, `Tick`); the client drains what a limit cut off, pauses, polls again or
gives up.  `Late` are threads that may go on when the run has ended, such as a
poller that was not waited for.  `Wait` and `Timeout` are the patience of the API
and of the client.

## Runs

| Run | Question | Instance |
|---|---|---|
| `store_races` | Which requests make the two stored states of a run part, and charge a worker for a lease that it does not hold? | 1 run, submitted 3 times at most, 1 worker with 2 places, 2 callers, every request, ids reused, claims without a worker |
| `store_overlap` | When requests overlap: is a submission leased twice, is the promise of `RunQueue` kept, does a run get the result of another outcome, is the status ahead of the queue? | 2 runs, 2 kinds of request, 1 worker, 2 callers |
| `store_capacity` | Does a worker stay within its capacity?  No. | 3 runs, 1 caller |
| `fleet_serve` | Is a run executed by one program at a time; what leaves a run running, a worker charged, an outcome hidden; does a submitted run settle? | 1 run, 2 workers of which 1 registers, 2 programs each, 1 fault of any kind |
| `orchestrate_run` | Are lifecycle groups separate, does cleanup run, do workers come back, is each item in the jobs as often as asked, is `summary.json` true and do its rows agree with the results? | 322 specifications: every lifecycle of 3 stages, layouts of up to 5 items, stages on 6 targets; 2 faults, 2 jobs that do not pass |
| `dispatch_jobs` | Is every job reported, with the result its last run had, after the retries it is due; whom does `timed_out_job_ids` name; is the promise of `RetryPool` kept; does `run_jobs` end? | 2 jobs, 1 worker or 2, 2 retries, any event may fail |
| `local_run` | Is the exit code true, the output complete; does run end? | 2 lines on one stream or on both, pipes of 1 line, a child |
| `docker_run` | Is a 0 a pass, has a 124 a reason, is a started container removed, does a limited run end? | 2 chunks of output |
| `expect_dialogue` | Are steps answered in order, once, with their own answers, and what leaves a prompt of the first attempt unanswered? | 3 steps, prompts on both streams, 1 retry, any log and any event may fail |
| `watch_stage` | Does a watcher fire once, a flow complete in order, is none overlooked, does one that was begun fail the stage, is a failure told with its reason; and if not, which race or failure is to blame? | 3 watchers, 2 pumps, 1 poller of a file, 3 texts or polls, a file of 2 symbols truncated once, any event or script may raise |
| `events_follow` | Are the lines in order, which events share one, does a follower print every event it could see once, does it end? | 2 threads of which 1 outlives the run, 3 events, answers of 1 event, any write may fail halfway |
| `events_quiet` | Does a follower poll until the run ends?  No. | the same, without faults |

Each property has a mutated definition under which its run is violated;
`PROJECT.json` lists them.

### Why the bounds are enough

* Store: two callers are enough for every pair of requests to overlap, and every
  conflict in the store is between two rows read and two commits; `MaxSubmits`
  bounds the only counter.  One run submitted three times meets its own past, a
  capacity of two is one that a claim may reach or not, and two runs of two kinds
  are enough to be taken in the wrong order or by the wrong worker.
* Fleet: two programs of one id and two ids cover a late request of a dead
  program against its successor and against another worker.  A fault of each kind
  may happen at any moment, one in a behaviour.  What more runs, lives and faults
  could do to the two properties about executing and orphaning is proved.
* Orchestrator: three stages are a stage, one before it and one between them; the
  two four-stage plans have a second group.  Two faults are one that is swallowed
  and one behind it.  The layouts have chunks that are full and not, groups of
  equal and of unequal size, more groups than items, repeats of each, and
  duplicates.
* Dispatcher: two jobs on one worker have one that waits while the other runs, is
  in hand or is tried again, and on two they race; two retries have a first, a
  middle and a last attempt.
* Executors: two lines in a pipe of one let a writer block behind a pump that
  died, and one line on each stream gives both pumps something to say; two chunks
  have a last and a not-last callback.
* Expect: three steps have a first, a middle and a last one, on different streams.
* Watch: a flow of three patterns comes in two texts, cut in either place, with a third
  before, between or behind them, or stops short of its last pattern, fed by one
  pump or by two; a failure is found by pumps and by the poller, in a text and in
  the file; a file of two symbols is one that a flow of two crosses between two polls.
* Events: three events and answers of one leave two to drain; a thread holds the
  lock while the other wants it; a line may be shared by two events and followed by
  one that is whole.

Symmetry (`StoreSymmetry`, `Streams`) is used for runs, workers and callers and for
the two pumps, which nothing in the models tells apart, in safety runs and for
`KeepsQueue`, `StatusHasCause` and `LeakHasCause`, whose formulas are symmetric as
well.

Deadlock is checked in the runs of RunStore and of Dispatcher.  In the others it
is normal that nothing is left to do: a run has returned, a command has ended, a
stage is over.  There, the liveness properties say what must not be left undone.

### Fairness

* Dispatcher: the dispatching thread is scheduled, and so is each thread of the
  pool.  For a running command this says that it ends, which the executor sees to
  when the job or the stage has a time limit, unless the command leaves a process
  behind; the run sets both limits.  Nothing is assumed of the deadline or of the
  watch.
* LocalExecutor, DockerRun: the threads are scheduled and time passes; nothing is
  assumed of the command or the container, which may run for ever.
* ExpectSession: the pumps are scheduled, and a command reads an answer that is
  there.  Logs and events may fail, fairly or not.
* Fleet: programs and threads are scheduled, an execution ends, and the server
  gets to every request; a program need not be started, and may stop whenever it
  polls.  Faults are not fair.
* EventLog: threads finish what they write, the API serves, the command runs and
  time passes.  A run need not emit, nor end.

## Where the code differs from what is said of it

Two runs show a property violated:

* `LeasesWithinCapacity` (`store_capacity`): a run that failed can be canceled;
  its lease is released a second time (`api/store.py` 839-842 and 871-875), and
  the worker is given more than `--capacity`, its "maximum active leases".
* `FollowsToTheEnd` (`events_quiet`): the API holds a follower's request for as
  long as the client waits for an answer; a run that is quiet for 30 seconds ends
  `events --follow`, which is to "keep polling until the run finishes"
  (`cli/transport.py` 298, `cli/main.py` 1470).

Others were met while translating.  They can be read off the models, or off the
lines named, and have no run.  Where a property makes an exception, it is for one of
them:

* Store.  A cancellation uses the `claimed_by` that it read before it had the
  lock; when a claim commits in between, the lease is never released
  (`CommitCancel`; `overtaken` in Fleet).  A run heartbeat that overlaps a
  cancellation writes the running status back (`api/store.py` 791-812).  A claim
  sets `active_leases` to one more than it read before it had the lock (752):
  overlapping claims of one worker id, or a claim and a completion, lose an update
  in either direction.  A submission under the id of a running run resets its row
  (605): the lease is not released, and the old worker's completion is taken for
  the new submission.
* Worker.  A worker that does not register is refused at its next claim if it has
  executed for longer than the heartbeat timeout, and its program ends.  A worker
  whose program died with a lease and is started again under its id is refused for
  good when its capacity is used up.
* Dispatcher.  A retry that is announced but finds the stage out of time leaves
  the job an ordinary failure (`GiveUp`), though "pending work is marked as timed
  out once the stage budget is gone".  A job whose final event fails stays in
  `timed_out_job_ids` with a result that is an ordinary error, and may pass at its
  next attempt (`threaded.py` 343-416; `Break`).  What raises outside the try block
  of `run_one` ends `run_jobs`, and the results of all other jobs are lost.
* Executors.  A command whose own child keeps stdout open makes `run` wait in
  `p.stdout.close()`, time limit or not (`local.py` 126-130; `Ends` assumes that
  the child ends).  `docker_run` waits for the container before it asks for its
  output (`Wait`), so that a watch of it cannot stop it.  A remote container that was
  created and cannot be filled is left behind (`dockerops.py` 487).  124 stands for a
  time-out, an objecting callback, and a container that exits with 124.
* Docker images.  The mode `auto` has become template or custom before the
  builder asks for it (`stage/builder.py` 28, `stage/coordinator.py` 100), so a
  repository's Dockerfile is built only on `build: true` (`NeedsBuild`).
* Expect.  The second attempt of an interactive job whose first step was answered
  is not answered, because the position in the dialogue is that of the first attempt
  (`stage/executor.py` 152; `LostForGood`).
  Prompts that do not end their line are not answered (`EndsLine`), and two pumps
  may answer a step that listens to both streams.  If the event of an answer cannot
  be emitted, the step counts and the answer is lost (`expect/runtime.py` 118;
  `SendFails`).
* Watch.  Two threads may both find that a match is new and report it, `once` or not
  (`watch/runtime.py` 745; `raced`).  Two threads in one sequence may move it on twice
  for one pattern, overtake its cursor, or replace its state (803-812; `crossed`).
  Where none of this happens, what is promised holds.
* Watch, the end of a stage.  `stop` does not wait until its pollers end (413), nor the
  executor for its pumps: what they find later comes to nothing, the flag may be set
  without a reason that anybody reads (1049; `late`), and a sequence may be judged while
  its last text is being matched.  If the event of a missing sequence fails, neither it
  nor the sequences behind it fail the stage (861, `threaded.py` 474-477; `left`).
  Nothing polls after the jobs have ended, so the last lines of a file may not be seen.
  A sequence whose source prints nothing is not missed (`BegunIsMissed`).
* Watch, files.  The size of a file is taken before the file is read and kept: what is
  appended in between is read twice, and a sequence may complete though the file lacks
  its order (478-494).  A file that was truncated and has grown beyond the offset is read
  from there, and its beginning is missed.
* Watch, actions.  An action that raises, or an event that does, drops the text for the
  watchers behind it, and a match whose event failed is remembered as reported
  (987; `Emit`).
* Orchestrator.  A KeyboardInterrupt leaves `overall_ok` set and the summary says
  PASSED.  The totals of a run subtract timed-out jobs twice (`TotalsOf`).  A dry
  run counts its planned jobs as passed.  A skipped teardown does not close its
  group.  If the last event of a stage fails, its result is lost and the
  remaining stages, teardowns included, are not run (`EndStageFails`).  The
  branch that warns of skipped stages never decides (`VerdictIsTrue`), and the
  pool is never empty when a worker is acquired (`WorkerReturned`).
* Planner.  A host in two groups is planned twice.  `max_retries: 0` of a stage
  cannot override the run's.  Credentials are dumped with their defaults, which
  replace the lower layers', and give a TLS endpoint port 22 (`Dumped`).  A
  target without an address is refused, `base_url` or not.
* Events.  The file is read before the state: events written in between are not
  printed by a follower, nor are those that a canceled run's orchestrator goes on
  to emit (`NoneMissed`).  A write that fails halfway spoils the event behind it as
  well (`infra/live_logger.py` 126; `EmitFails`).

## Proofs

All are safety properties, for every value of the constants that the module's
ASSUME allows.  Each `*_proofs` module states an inductive invariant as a
conjunction of named parts, has a lemma per action or per part, and ends in the
theorems.  Type invariants are proved, not run.  Every invariant and every action
property that a passing run checks is a theorem.

**RunStore_proofs**, for any sets of runs, workers and callers:

* `TypeCorrect`: types; `active_leases` is never negative.
* `ExclusiveLeaseHolds`: if claims name their worker, a submission is leased once
  at most, whatever overlaps and even if ids are reused.  The argument
  (`GrantInv`): a queued run has no lease, and a claim reads the queue under the
  lock.
* `OnlyAdvanceHolds`, `ResultMatchesStateHolds`: a run never goes back, and its
  outcome stands beside its own result, if ids are not reused.  They need
  `CallInv`, what requests in flight know from what they read.
* `KeepsQueueHolds`: under the same conditions, and with claims that name their
  worker, the store implements `RunQueue`.  A commit writes one row at most
  (`CommitRow`), and moves it as the promise allows (`RowStep`, `RowQueues`).  That
  needs `ClaimInv`: a run without a lease names no worker, a submission in flight
  read such a row, and whoever means to end a run found it in the table.
  `NeverReassignedHolds` reads the promise in the rows: a run that a worker has is
  never given to another, and an outcome is never taken back.
* `StatusHasCauseHolds`, for requests that overlap, ids that are reused and claims
  without a worker: a commit over the row that it read leaves the two states as equal
  as they were (`CommitAgrees`, over `WrittenAlone`: unless somebody else wrote, what
  is written is what was meant).
* `StatusNotAheadHolds`: if claims name their worker and ids are not reused, the status
  is never ahead of the state.  The strengthening (`ReadBehind`) is that what a
  heartbeat or a cancellation in flight has read is not either, because runs only
  advance.
* `LeakHasCauseHolds`, under no condition but that there are finitely many runs.  One
  request commits at a time and touches one run (`HeldChanges`, a count over a finite
  set) and one charge (`Releases`); `EndLeaks` and `CommitLeaks` go through what each
  request may do to both.

**Fleet_proofs**, for any number of runs, workers, programs and faults:

* `OneExecutorHolds`, `OrphanHasCauseHolds`.  The invariant has what the server
  promises (`ServerOK`, over the theorems' invariants of RunStore), types, what a
  lease means (`Leased`: a run in a program's hands is claimed by its worker and
  was granted to nobody else), and where each thread is while its request is in
  flight (`InPlace`: above all, a request of a dead program is never taken for one
  of its successor).  Every action is one of a few kinds of move (`Moves`), each
  with a lemma.
* `OutcomeShowsHolds` (`OInv`).  Once a program is through with a run (`Sealed`),
  no other works on it (`Apart`) and no heartbeat of it is in flight or will be
  sent (`Quiet`), because a heartbeat is always in the hands of somebody who waits
  for it (`BeatPlaced`), and the program waited for its thread.  That is not
  enough: a cancellation that read the state as canceled would write the status alone.
  None is in flight together with a completion (`ReadFinal`, `StatusTold`).
* `ChargeHasCauseHolds` (`CInv`): a worker with one place is charged for a run that
  is running and names it, or for one whose cancellation a claim overtook (`Caused`).
  A completion gives back the lease of the worker that the row names, because nobody
  else writes the name while it is in flight (`Named`), and a claim finds the name
  empty (`Unclaimed`).
* `FleetImplementsStore`: each step of a program, a heartbeat thread, the user or a
  fault is a step of `RunStore` or leaves the server alone, so that the server of a
  fleet is one that the theorems of RunStore speak of (`StoreAssumption` of the
  instance follows from `FleetAssumption`).  It uses that a thread sends its requests
  as a caller of its own (`MainCalls`), about runs and workers that the tables have.

**Orchestrator_proofs**, for any specifications, number of stages and workers,
faults and verdicts:

* `GroupsAreSeparateHolds`.  The key part, `GroupKnows`, says that the flag of
  the lifecycle is what the results so far say of the open group (`Failing`).
* `WorkerReturnedHolds` (`PoolWhole`), and `CleanupRunsHolds` and
  `VerdictIsTrueHolds` (`Dealt`, `Judged`, `Files`, `Told`).
* `PlanIsList`, `JobsAreWellPlanned`: a compiled plan is a list of stages of the
  specification, and the jobs of a stage name each item as often as they should, in
  parts of the size that they should be.  The argument is a count of the places
  where an item stands in the jobs: it is carried from the list of items to the
  chunks, the dealt groups or the manifest, through the empty groups that are
  dropped, and times the rounds.
* `ItemsCoveredHolds`: the same of the jobs that a run has in hand, which are those
  of a plan that was not refused (`OnPlan`, `InHand`).
* `RowsAgreeHolds`: what a stage knows of its failure (`Known`) is what its file says,
  at each step from the judgement to the mirrored copy (`InFile`, `OnFile`), whichever
  of the steps fails; payloads count no more jobs than there are (`AllSound`); and the
  rows and totals made of them agree with the results (`Agreed`).

**Dispatcher_proofs**, for any plan, number of workers and of retries:

* `Inv` is inductive.  Besides types it says that no job is lost (`Placed`:
  waiting, in the pool, or with a result), that a waiting job was never touched
  (`Untouched`), that the loop is left only when nothing is left (`Drained`),
  that there is room for a retry (`Room`), and what is known of the job in hand
  and of results (`InHand`, `Counted`, `Returned`).
* `DispatchTyped` and `EveryJobReportedHolds` follow from it,
  `TimedOutHasCauseHolds` with `TimedOutInv` (whoever is named has a result that is
  a time-out, has one on its way, or had a run that failed), and
  `LastRunDecidesHolds` with `RanInv`, `PlainInv` and `CountInv`.
* `KeepsPromiseHolds`: the dispatcher implements `RetryPool`.  Each step is a
  step of the promise or a stutter (`Stutter`, `VerdictDecided`, `Decides`).
* `BoundedWorkHolds`, `VerdictStaysHolds` read off the promise what a stage may rely
  on: bounds on the jobs that run and on how often one runs, no pass without a run,
  and verdicts that stay.  They argue about `RetryPool` only (`PoolBounded`,
  `PoolDecidesOnce`).

**Executors_proofs**, of LocalExecutor, for any number of lines, size of the pipes,
and kind of command: `ExecutorTyped`, `LeaderGoneHolds`, `CodeIsTrueHolds`, and
`OutputCompleteHolds` for pumps that get on within the five seconds of their join
(`~Slow`).  The invariant says what each place of `run` knows: behind the
termination the leader is dead (`GoneAfter`), the code that was settled is true
and stays true (`CodeHasReason`), and a pump that has seen the end of its stream
has taken all that was due.

Of DockerRun, for any amount of output: `DockerTyped`,
`ZeroIsAPassHolds`, `TimeoutHasReasonHolds` and `StartedIsRemovedHolds`.  The
invariant needs three facts the properties do not show: `timed_out` is set
exactly when the timer fired or a callback objected (`TimedOutHasCause`), the
timer cannot fire once the result is decided (`NotArmed`), and until then the
code is the status of the ended container (`CodeIsStatus`).

**ExpectSession_proofs**, for any number of steps and attempts, if each step
listens to one stream (`OneListener`), and whichever logs and events fail:
`TypeOKHolds`, `EachStepOnceHolds` and `AnswersFitHolds`.  `SentSoFar` and `PumpFits`
say that the pump that found a step is the only one that can be at it; `Asked` and
`Dialogue` tie the answers on their way to the prompts of the command.  `RetryIsLostHolds` and `LostForGood` state
what the shared position means: a retry that starts after the first step was answered
is behind the dialogue, and neither it nor a later attempt reads an answer or passes.

**Watch_proofs**, for any number of threads, watchers and texts, any thread that goes on
behind `stop`, and any event or script that raises:

* `TypesHold`: types, and where a thread is in its turn (`InTurn`).
* `FiresOnceHolds` (`FireInv`).  What was reported was remembered (`Seen`).  A thread
  that is about to remember or to report what another one has found (`Adding`,
  `Emitting`) is known as a race, and no thread reports the same twice (`Own`), since
  it remembers a match before it comes to the next one.
* `CompletesInOrderHolds`.  `Story` tells, of a sequence that no two threads have been in
  at once, what its state has to do with all that it was fed, by whichever threads: as
  it is between two visits (`Outside`) and at each step of a visit (`Inside`).  The
  patterns before the index lie before the cursor and before no earlier place
  (`Grown`), which is what makes the greedy search find a flow wherever there is one.
* `NoFlowOverlookedHolds` reads it in the other direction, and, if one thread at most
  polls the file (`OneReader`), for the file as well: until the file is truncated, what
  counts as read was fed (`FileRead`).
* `BegunIsMissedHolds` (`Trial`): a thread that did not go on behind `stop` rests
  (`Rested`), so that nobody is in a sequence whose feeders are not late while it is
  judged, and its state then tells its story (`StoryTold`).
* `FailureIsToldHolds` (`Reasoned`, `Verdict`): a failure has a reason or a thread that
  owes it (`Owes`), and when the dispatcher reads it, only a late thread can still owe.

The exceptions that these properties make are history variables of the model, not
hypotheses: a run may meet the race, and the property says which stage pays for it.
`Supposed` of MCWatch has TLC check that the instance satisfies `OneReader`.

**EventLog_proofs**, for any number of threads, events and failures, and any limit:

* `LogIsOrderedHolds`.  One thread writes at a time, the line without an end holds
  events that failed and perhaps its own, and its number is above all those in the
  file (`OneWriter`, `FailedBefore`, `TailIsMine`, `Ordered`).
* `NoneMissedHolds` (`RInv`).  What is printed and what the API read are parts of
  the file, which only grows (`FromFile`); an answer goes on where the last one
  ended, and is empty only if no more had been read (`Answers`); and a follower
  stops at such an answer (`Stopped`).  That one more line adds
  its event to the items, or nothing, is proved on the way (`ItemsAppend`).

What stays with TLC is liveness (`RunsSettle`, `Termination`, `Ends`, `DockerEnds`,
`AnsweredFirst`, `FollowEnds`) and with it all that depends on fairness: the prover
knows neither ENABLED nor the induction that such an argument needs.  It cannot
apply a theorem to an operator either, so induction over numbers and over finite
sets is had from the least element of a set (`Least`, `Induct`: WFMin with a set in
place of the predicate), and `SelectSeq`, of which nothing can be proved in this
way, is written as a flattened list (`Kept` of Planner, `Items` of EventLog).

What is assumed is `StoreAssumption`, `QueueAssumption`, `FleetAssumption`,
`OrchestratorAssumption`, `CapacityAssumption`, `SpecAssumption`,
`DispatchAssumption`, `ConstantsAssumption`, `DockerAssumption`,
`SessionAssumption`, `WatchAssumption` and `EventLogAssumption`, which TLC evaluates
in every run, and the hypotheses that a theorem names.  `SpecAssumption` says of a
specification what `spec/schema.py` sees to: lists are lists, a split is at
least one, and a stage names a suite, unless the run names one that is not there.

## Not modelled

* **Inputs, specification, suites**: reading, merging and validating text, one
  field at a time; what decides anything later is in Planner.
* **Workspace, remote docker bootstrap**: fixed sequences of commands, which stop
  at the first that fails.
* **Run context, history, library API**: records handed on, and helpers that each
  write one file.
* **Artifacts, redaction, report layout**: paths, copies and text.  That the
  mirroring of a stage may fail is in Orchestrator.
* **Read-only commands and endpoints**, apart from the events of a run: they
  change nothing.
* **Image builds, remote endpoints, copies into and out of containers**: sequences
  of calls to a daemon, whose failure is a failed step in Orchestrator and
  DockerRun.

These keep no state that outlives a call, or only files that no other part of the
program reads back.

Of the parts that are modelled, these cases are left out:

* a KeyboardInterrupt while the coordinator writes, mirrors, releases or ends a stage
  (`coordinator.py` 304-358), and what a second one does;
* a run directory with the files of an earlier run under the same `run_id`: after a failed
  mirror, `summary.json` may be made from the older `stage-summary.json`;
* an explicit `base_url` of a target and the plain tcp mode (`compiler.py` 177-194);
* a half line of `events.jsonl` that lacks only its line break, which a reader takes for
  an event until the next one is appended to it;
* an interpreter that switches within a statement (`buffer +=`), which in a sequence
  that two threads are in adds to what `crossed` already says.

---------------------------- MODULE Orchestrator ----------------------------
(***************************************************************************)
(* A run on one machine: Orchestrator.run                                   *)
(* (testfabric/orchestrator/orchestrator.py) takes the stages of the plan   *)
(* one by one through the lifecycle (plan/lifecycle.py) and the coordinator *)
(* (stage/coordinator.py, stage/executor.py, stage/builder.py), which       *)
(* leases a worker of the pool (testfabric/workers/pool.py), has the jobs   *)
(* dispatched, and has the reporter (testfabric/reporting/                  *)
(* stage_reporter.py) write down what came of them.  In the end the         *)
(* aggregator (orchestrator/aggregate.py) makes the summary of the run.     *)
(*                                                                         *)
(* One thread does all this.  What makes it hard is that nearly every step  *)
(* may raise, an event that cannot be written included, and that some of    *)
(* the failures are swallowed.  What the dispatcher does with the jobs is   *)
(* the subject of Dispatcher; here it is its verdicts.                      *)
(***************************************************************************)
EXTENDS Planner

CONSTANTS
  Specs,      \* the specifications of which one is run
  NoSummary,  \* no stage-summary.json, no payload, no summary.json
  MaxFaults,  \* bound: how many steps fail
  MaxBad      \* bound: how many jobs of a stage do not pass

ASSUME OrchestratorAssumption == MaxFaults \in Nat /\ MaxBad \in Nat

\* schema.py: what limits the workers is a number.
ASSUME CapacityAssumption == \A s \in Specs : Capacity(s) \in Nat

\* schema.py: what is known of a stage, and of the suite of a stage that is not refused.
StageIsTyped(s, st) ==
  /\ IsList(st.manifest) /\ \A g \in DOMAIN st.manifest : IsList(st.manifest[g])
  /\ st.split \in Nat \ {0} /\ st.repeats \in Nat
  /\ st.chunk_size \in Int /\ s.parallelism.chunk_size \in Int
  /\ s.override \in DOMAIN s.suites \cup {""} => st.suite \in DOMAIN s.suites

ASSUME SpecAssumption ==
  \A s \in Specs :
    /\ IsList(s.inventory) /\ IsList(StagesOf(s))
    /\ \A k \in DOMAIN StagesOf(s) : StageIsTyped(s, StagesOf(s)[k])
    /\ \A n \in DOMAIN s.suites : IsList(s.suites[n].items) /\ IsList(s.suites[n].dry_items)

VARIABLES
  spec,         \* the specification
  plan,         \* plan.stages
  pc,           \* the step that is next
  i,            \* the stage that is in hand
  group,        \* lifecycle_state
  pool,         \* the workers that are free, in their order
  built,        \* builder._built_images, by endpoint
  here,         \* the locals of StageCoordinator.run
  jobs,         \* the jobs of the stage in hand
  written,      \* the stage-summary.json in the worker's directory
  mirrored,     \* the stage-summary.json of each stage in the run's directory
  results,      \* stage_results
  health,       \* the state of the health snapshot
  ok,           \* overall_ok
  error,        \* err is set
  summary,      \* summary.json
  faults,       \* how many steps failed
  interrupted,  \* history: a KeyboardInterrupt ended the run
  unsaved       \* history: the stages whose last word was not written down

vars == <<spec, plan, pc, i, group, pool, built, here, jobs, written, mirrored,
          results, health, ok, error, summary, faults, interrupted, unsaved>>
context == <<spec, plan, health>>
outcome == <<results, ok, error>>
files   == <<written, mirrored, summary>>

NoWorker == 0
Stage    == plan[i]
Suite    == spec.suites[Stage.suite]
InTry    == {"acquire", "prepare", "execute", "judge"}

Fresh == [ok |-> FALSE, failure |-> "none", worker |-> NoWorker, known |-> FALSE,
          payload |-> NoSummary, raising |-> "no"]

\* A step fails.
Breaks == faults < MaxFaults /\ faults' = faults + 1

-----------------------------------------------------------------------------
(* Lifecycle groups.                                                        *)

BeforeStage(state, stage) ==
  IF stage.mode = "setup" THEN [failed |-> FALSE, open |-> TRUE]
  ELSE [state EXCEPT !.open = TRUE]

ShouldExecute(state, stage) == state.failed => stage.when = "always"

\* Mutant: the failure of a group outlives its teardown.
AfterStageKeeps(state, stage, good) ==
  [failed |-> state.failed \/ ~good, open |-> stage.mode # "teardown"]

AfterStage(state, stage, good) ==
  IF stage.mode = "teardown" THEN [failed |-> FALSE, open |-> FALSE]
  ELSE [state EXCEPT !.failed = @ \/ ~good]

-----------------------------------------------------------------------------
(* Orchestrator.run, before the stages.                                     *)

\* The except clause: the rest of the run is given up.
GiveUp == pc' = "finish" /\ ok' = FALSE /\ error' = TRUE

Checkout ==
  /\ pc = "checkout"
  /\ \/ pc' = "compile" /\ UNCHANGED <<ok, error, faults>>
     \/ Breaks /\ GiveUp
  /\ UNCHANGED <<context, i, group, pool, built, here, jobs, files, results,
                 interrupted, unsaved>>

Compile ==
  /\ pc = "compile"
  /\ \/ /\ Compiles(spec)
        /\ plan' = CompileRunPlan(spec)
        /\ mirrored' = [k \in DOMAIN plan' |-> NoSummary]
        /\ pc' = "health" /\ UNCHANGED <<ok, error, faults>>
     \/ ~Compiles(spec) /\ GiveUp /\ UNCHANGED <<plan, mirrored, faults>>
     \/ Breaks /\ GiveUp /\ UNCHANGED <<plan, mirrored>>
  /\ UNCHANGED <<spec, health, i, group, pool, built, here, jobs, written, summary,
                 results, interrupted, unsaved>>

\* The paths that the run writes to, and the disk and the memory of this machine.
LocalProbes ==
  {<<probe, Local.endpoint>> : probe \in
     {"disk", "artifacts_root", "workers_tmp_root", "run_dir", "repo_path"}
     \cup (IF spec.min_mem THEN {"memory"} ELSE {})}

\* Each endpoint once; the local one if a stage needs it or the specification asks.
DockerProbes ==
  {<<"docker", plan[k].endpoint>> : k \in {n \in DOMAIN plan : plan[n].executor = "docker"}}
  \cup (IF spec.require_docker THEN {<<"docker", Local.endpoint>>} ELSE {})

EvaluateHealth(required, warnings) ==
  IF required # {} THEN "unhealthy" ELSE IF warnings # {} THEN "degraded" ELSE "healthy"

\* Memory that cannot be read is a warning, and the only one.  The probe of the disk
\* makes directories and may raise, and the event may (the snapshot is not looked at then).
Preflight ==
  /\ pc = "health"
  /\ \/ \E failed \in SUBSET (LocalProbes \cup DockerProbes), unread \in BOOLEAN :
          LET warnings == IF unread THEN {p \in failed : p[1] = "memory"} ELSE {}
          IN /\ health' = EvaluateHealth(failed \ warnings, warnings)
             /\ IF health' = "unhealthy" THEN GiveUp /\ UNCHANGED <<pool, i>>
                ELSE /\ pool' = [k \in 1..Capacity(spec) |-> k]
                     /\ i' = 1 /\ pc' = "loop" /\ UNCHANGED <<ok, error>>
             /\ UNCHANGED faults
     \/ Breaks /\ GiveUp /\ UNCHANGED <<health, pool, i>>
  /\ UNCHANGED <<spec, plan, group, built, here, jobs, files, results,
                 interrupted, unsaved>>

-----------------------------------------------------------------------------
(* The loop over the stages.                                                *)

Result(good, failure) ==
  [host |-> Stage.host, ok |-> good, skipped |-> failure = "skipped", failure |-> failure]

NextStage == pc' = "loop" /\ i' = i + 1

EnterStage ==
  /\ pc = "loop" /\ i <= Len(plan)
  /\ LET state == BeforeStage(group, Stage)
     IN /\ group' = state
        /\ ShouldExecute(state, Stage)
  /\ here' = Fresh /\ jobs' = <<>> /\ written' = NoSummary
  /\ pc' = "start"
  /\ UNCHANGED <<context, i, pool, built, mirrored, summary, outcome, faults,
                 interrupted, unsaved>>

\* The event may fail to be written, and the result is not recorded then.
SkipStage ==
  /\ pc = "loop" /\ i <= Len(plan)
  /\ LET state == BeforeStage(group, Stage)
     IN group' = state /\ ~ShouldExecute(state, Stage)
  /\ \/ /\ results' = Append(results, Result(FALSE, "skipped"))
        /\ NextStage /\ UNCHANGED <<ok, error, faults>>
     \/ Breaks /\ GiveUp /\ UNCHANGED <<results, i>>
  /\ UNCHANGED <<context, pool, built, here, jobs, files, interrupted, unsaved>>

\* Mutant: nothing more is tried once a stage has failed.
StagesDoneEarly ==
  /\ pc = "loop" /\ (i > Len(plan) \/ ~ok)
  /\ pc' = "finish"
  /\ UNCHANGED <<context, i, group, pool, built, here, jobs, files, outcome, faults,
                 interrupted, unsaved>>

StagesDone ==
  /\ pc = "loop" /\ i > Len(plan)
  /\ pc' = "finish"
  /\ UNCHANGED <<context, i, group, pool, built, here, jobs, files, outcome, faults,
                 interrupted, unsaved>>

-----------------------------------------------------------------------------
(* StageCoordinator.run.                                                    *)

\* Before the try block: what fails here fails the run.
StartStage ==
  /\ pc = "start"
  /\ \/ pc' = "acquire" /\ UNCHANGED <<ok, error, faults>>
     \/ Breaks /\ GiveUp
  /\ UNCHANGED <<context, i, group, pool, built, here, jobs, files, results,
                 interrupted, unsaved>>

\* In the try block: an exception is the failure of the stage.
StageFails(kind) ==
  /\ pc' = "report"
  /\ here' = [here EXCEPT !.ok = FALSE, !.failure = kind]

AcquireWorker ==
  /\ pc = "acquire"
  /\ IF pool = <<>>
     THEN StageFails("execution") /\ UNCHANGED pool
     ELSE /\ here' = [here EXCEPT !.worker = Head(pool), !.known = TRUE]
          /\ pool' = Tail(pool)
          /\ pc' = "prepare"
  /\ UNCHANGED <<context, i, group, built, jobs, files, outcome, faults, interrupted, unsaved>>

\* The mode is the resolved one: auto has become template or custom.
NeedsBuild(stage) ==
  /\ stage.executor = "docker"
  /\ stage.build \/ spec.docker_mode = "template" \/ (spec.docker_mode = "auto" /\ ~spec.dockerfile)

BuildIfNeeded ==
  built' = IF NeedsBuild(Stage) THEN built \cup {Stage.endpoint.url} ELSE built

\* The directories, the events and the image; an event fails after the build too.
Prepare ==
  /\ pc = "prepare"
  /\ \/ BuildIfNeeded /\ pc' = "execute" /\ UNCHANGED <<here, faults>>
     \/ Breaks /\ StageFails("execution") /\ (BuildIfNeeded \/ UNCHANGED built)
  /\ UNCHANGED <<context, i, group, pool, jobs, files, outcome, interrupted, unsaved>>

Items == IF spec.dry THEN Suite.dry_items ELSE Suite.items

\* A dialogue is one job of the local executor.
CanDialogue(planned) ==
  Suite.dialogue => Stage.executor = "local" /\ Len(planned) = 1

\* What makes of the results of a job its failure type.
ClassifyJob(end) ==
  CASE end = "timed_out" -> "timeout"
    [] end = "broken"    -> "infra"
    [] end = "nonzero"   -> IF Suite.kind = "pytest" THEN "runner" ELSE "execution"
    [] end = "zero"      -> "none"

JobVerdict(end) ==
  IF end = "timed_out" THEN "TIMED_OUT" ELSE IF end = "zero" THEN "PASSED" ELSE "FAILED"

Priority == <<"infra", "timeout", "runner", "execution", "none">>

\* The failure that ranks first among those of the jobs.
DeriveFailure(ends) ==
  Priority[Min({n \in DOMAIN Priority : Priority[n] = "none"
                  \/ \E j \in DOMAIN ends : Priority[n] = ClassifyJob(ends[j])})]

NotPassed(ends) == {j \in DOMAIN ends : ends[j] # "zero"}
TimedOut(ends)  == {j \in DOMAIN ends : ends[j] = "timed_out"}

Base == [verdict |-> "PASSED", failure |-> "none", jobs |-> <<>>,
         total |-> 0, failed |-> 0, timed_out |-> 0]

\* write_stage_summary: timed-out jobs are among the failed ones.
StagePayload(ends, watch) ==
  [verdict   |-> IF watch \/ NotPassed(ends) # {} THEN "FAILED" ELSE "PASSED",
   failure   |-> IF watch THEN "watch" ELSE DeriveFailure(ends),
   jobs      |-> [j \in DOMAIN ends |-> JobVerdict(ends[j])],
   total     |-> Len(ends),
   failed    |-> Cardinality(NotPassed(ends)),
   timed_out |-> Cardinality(TimedOut(ends))]

\* How the dispatcher says that the jobs ended.
Dispatched(planned) ==
  {ends \in [DOMAIN planned -> {"zero", "nonzero", "broken", "timed_out"}] :
     Cardinality(NotPassed(ends)) <= MaxBad}

Execute ==
  /\ pc = "execute" /\ ~spec.dry
  /\ CanPlan(Items, Stage)
  /\ jobs' = PlanJobs(Items, Stage)
  /\ CanDialogue(jobs')
  /\ \E ends \in Dispatched(jobs'), watch \in BOOLEAN :
       /\ written' = StagePayload(ends, watch)
       /\ here' = [here EXCEPT !.payload = written']
  /\ pc' = "judge"
  /\ UNCHANGED <<context, i, group, pool, built, mirrored, summary, outcome, faults,
                 interrupted, unsaved>>

\* Collection, the manifest, the dispatcher or the writing of the summary.
ExecuteFails ==
  /\ pc = "execute"
  /\ \/ ~CanPlan(Items, Stage) /\ UNCHANGED faults
     \/ ~spec.dry /\ CanPlan(Items, Stage) /\ ~CanDialogue(PlanJobs(Items, Stage))
        /\ UNCHANGED faults
     \/ Breaks
  /\ StageFails("execution")
  /\ UNCHANGED <<context, i, group, pool, built, jobs, files, outcome, interrupted, unsaved>>

\* The jobs are planned and counted, and that is all.
DryRun ==
  /\ pc = "execute" /\ spec.dry
  /\ CanPlan(Items, Stage)
  /\ jobs' = PlanJobs(Items, Stage)
  /\ here' = [here EXCEPT !.payload = [Base EXCEPT !.total = Len(jobs')], !.ok = TRUE]
  /\ pc' = "judge"
  /\ UNCHANGED <<context, i, group, pool, built, files, outcome, faults, interrupted, unsaved>>

JudgedAs(payload) ==
  IF payload.failure = "watch" THEN "watch"
  ELSE IF payload.timed_out > 0 THEN "timeout" ELSE payload.failure

\* The last event of a stage that passed may fail as well.
Judge ==
  /\ pc = "judge"
  /\ \/ /\ here.payload.verdict = "FAILED"
        /\ StageFails(JudgedAs(here.payload))
        /\ UNCHANGED faults
     \/ /\ here.payload.verdict = "PASSED"
        /\ here' = [here EXCEPT !.ok = TRUE]
        /\ pc' = "summarize"
        /\ UNCHANGED faults
     \/ /\ here.payload.verdict = "PASSED"
        /\ Breaks /\ StageFails("execution")
  /\ UNCHANGED <<context, i, group, pool, built, jobs, files, outcome, interrupted, unsaved>>

\* The except clause tells of the failure; if it cannot, the finally clause runs
\* and the exception goes on to the run.
ReportError ==
  /\ pc = "report"
  /\ pc' = "summarize"
  /\ \/ UNCHANGED <<here, faults>>
     \/ Breaks /\ here' = [here EXCEPT !.raising = "error"]
  /\ UNCHANGED <<context, i, group, pool, built, jobs, files, outcome, interrupted, unsaved>>

-----------------------------------------------------------------------------
(* The finally clause of StageCoordinator.run: three steps that are tried.  *)

\* ensure_stage_summary: what the coordinator knows goes over what was written.
FinalPayload ==
  LET payload == IF here.payload = NoSummary THEN Base ELSE here.payload
  IN [payload EXCEPT !.verdict = IF here.ok THEN "PASSED" ELSE "FAILED",
                     !.failure = IF here.ok /\ here.failure = "none" THEN "none"
                                 ELSE IF here.failure # "none" THEN here.failure ELSE @]

\* Mutant: the verdict is the one of the jobs.
EnsureStageSummaryKeeps ==
  /\ pc = "summarize"
  /\ IF ~here.known THEN UNCHANGED <<written, faults, unsaved>>
     ELSE \/ /\ written' = IF here.payload = NoSummary THEN Base ELSE here.payload
             /\ UNCHANGED <<faults, unsaved>>
          \/ Breaks /\ unsaved' = unsaved \cup {i} /\ UNCHANGED written
  /\ pc' = "mirror"
  /\ UNCHANGED <<context, i, group, pool, built, here, jobs, mirrored, summary, outcome,
                 interrupted>>

EnsureStageSummary ==
  /\ pc = "summarize"
  /\ IF ~here.known THEN UNCHANGED <<written, faults, unsaved>>
     ELSE \/ written' = FinalPayload /\ UNCHANGED <<faults, unsaved>>
          \/ Breaks /\ unsaved' = unsaved \cup {i} /\ UNCHANGED written
  /\ pc' = "mirror"
  /\ UNCHANGED <<context, i, group, pool, built, here, jobs, mirrored, summary, outcome,
                 interrupted>>

MirrorStage ==
  /\ pc = "mirror"
  /\ \/ mirrored' = [mirrored EXCEPT ![i] = written] /\ UNCHANGED faults
     \/ Breaks /\ UNCHANGED mirrored
  /\ pc' = "release"
  /\ UNCHANGED <<context, i, group, pool, built, here, jobs, written, summary, outcome,
                 interrupted, unsaved>>

\* Mutant: a worker is given back by a stage that passed.
ReleaseWorkerIfOk ==
  /\ pc = "release"
  /\ pool' = IF here.worker # NoWorker /\ here.ok THEN Append(pool, here.worker) ELSE pool
  /\ pc' = "end"
  /\ UNCHANGED <<context, i, group, built, here, jobs, files, outcome, faults, interrupted,
                 unsaved>>

ReleaseWorker ==
  /\ pc = "release"
  /\ pool' = IF here.worker # NoWorker /\ here.worker \notin Range(pool)
             THEN Append(pool, here.worker) ELSE pool
  /\ pc' = "end"
  /\ UNCHANGED <<context, i, group, built, here, jobs, files, outcome, faults, interrupted,
                 unsaved>>

\* Mutant: a stage that failed does not fail the run.
EndStageOnly ==
  /\ pc = "end" /\ here.raising = "no"
  /\ results' = Append(results, Result(here.ok, here.failure))
  /\ group' = AfterStage(group, Stage, here.ok)
  /\ NextStage
  /\ UNCHANGED <<context, pool, built, here, jobs, files, ok, error, faults, interrupted, unsaved>>

EndStage ==
  /\ pc = "end" /\ here.raising = "no"
  /\ results' = Append(results, Result(here.ok, here.failure))
  /\ ok' = (ok /\ here.ok)
  /\ group' = AfterStage(group, Stage, here.ok)
  /\ NextStage
  /\ UNCHANGED <<context, pool, built, here, jobs, files, error, faults, interrupted, unsaved>>

\* The last event cannot be written, or the report of the error could not: the
\* stage has no result, and the run is given up.
EndStageFails ==
  /\ pc = "end"
  /\ \/ here.raising = "no" /\ Breaks
     \/ here.raising = "error" /\ UNCHANGED faults
  /\ GiveUp
  /\ UNCHANGED <<context, i, group, pool, built, here, jobs, files, results, interrupted, unsaved>>

\* A KeyboardInterrupt is no Exception: no except clause holds it.
EndStageInterrupted ==
  /\ pc = "end" /\ here.raising = "interrupt"
  /\ pc' = "finish"
  /\ UNCHANGED <<context, i, group, pool, built, here, jobs, files, outcome, faults,
                 interrupted, unsaved>>

Interrupt ==
  /\ Breaks
  /\ interrupted' = TRUE
  /\ \/ /\ pc \in {"checkout", "compile", "health", "loop", "start"}
        /\ pc' = "finish" /\ UNCHANGED here
     \/ /\ pc \in InTry
        /\ pc' = "summarize" /\ here' = [here EXCEPT !.raising = "interrupt"]
  /\ UNCHANGED <<context, i, group, pool, built, jobs, files, outcome, unsaved>>

-----------------------------------------------------------------------------
(* The finally clause of Orchestrator.run, and the aggregator.              *)

\* The row of a stage without a summary is made from its result.
Fallback(result) ==
  [Base EXCEPT !.verdict = IF result.skipped THEN "SKIPPED"
                           ELSE IF result.ok THEN "PASSED" ELSE "FAILED",
               !.failure = result.failure]

Rows == [k \in DOMAIN results |->
           IF mirrored[k] = NoSummary THEN Fallback(results[k]) ELSE mirrored[k]]

\* One entry for each job that failed, or one for the stage (0) if none did.
FailuresOf(rows) ==
  UNION {LET bad == {j \in DOMAIN rows[k].jobs : rows[k].jobs[j] # "PASSED"}
         IN {<<k, j>> : j \in IF bad = {} /\ rows[k].verdict = "FAILED" THEN {0} ELSE bad} :
         k \in DOMAIN rows}

RowsWith(rows, verdict) == {k \in DOMAIN rows : rows[k].verdict = verdict}

Total(rows, count) == MapThenSumSet(LAMBDA k : rows[k][count], DOMAIN rows)

TotalsOf(rows) ==
  LET total     == Total(rows, "total")
      failed    == Total(rows, "failed")
      timed_out == Total(rows, "timed_out")
      left      == total - failed - timed_out
  IN [stages |-> [v \in {"PASSED", "FAILED", "SKIPPED"} |-> Cardinality(RowsWith(rows, v))],
      jobs_total |-> total, jobs_failed |-> failed, jobs_timed_out |-> timed_out,
      jobs_passed |-> IF left > 0 THEN left ELSE 0]

TargetsOf(rows) ==
  [h \in {results[k].host : k \in DOMAIN rows} |->
     LET own == {k \in DOMAIN rows : results[k].host = h}
     IN IF \E k \in own : rows[k].verdict = "FAILED" \/ rows[k].failed > 0 THEN "FAILED"
        ELSE IF own \cap RowsWith(rows, "SKIPPED") # {} THEN "WARNING" ELSE "PASSED"]

RunVerdict(rows) ==
  IF ~ok THEN "FAILED"
  ELSE IF health = "degraded" \/ RowsWith(rows, "SKIPPED") # {} THEN "WARNING" ELSE "PASSED"

\* The last event and the summary are tried; what fails is swallowed.
WriteRunSummary ==
  /\ pc = "finish"
  /\ \/ /\ summary' = [verdict  |-> RunVerdict(Rows), error |-> error, rows |-> Rows,
                       totals   |-> TotalsOf(Rows), targets |-> TargetsOf(Rows),
                       failures |-> FailuresOf(Rows)]
        /\ UNCHANGED faults
     \/ Breaks /\ UNCHANGED summary
  /\ pc' = "returned"
  /\ UNCHANGED <<context, i, group, pool, built, here, jobs, written, mirrored, outcome,
                 interrupted, unsaved>>

-----------------------------------------------------------------------------
Init ==
  /\ spec \in Specs
  /\ plan = <<>> /\ pc = "checkout" /\ i = 0
  /\ group = [failed |-> FALSE, open |-> FALSE]
  /\ pool = <<>> /\ built = {} /\ here = Fresh /\ jobs = <<>>
  /\ written = NoSummary /\ mirrored = <<>> /\ summary = NoSummary
  /\ results = <<>> /\ health = "unknown" /\ ok = TRUE /\ error = FALSE
  /\ faults = 0 /\ interrupted = FALSE /\ unsaved = {}

Next ==
  \/ Checkout \/ Compile \/ Preflight
  \/ EnterStage \/ SkipStage \/ StagesDone
  \/ StartStage \/ AcquireWorker \/ Prepare
  \/ Execute \/ ExecuteFails \/ DryRun \/ Judge \/ ReportError
  \/ EnsureStageSummary \/ MirrorStage \/ ReleaseWorker
  \/ EndStage \/ EndStageFails \/ EndStageInterrupted \/ Interrupt
  \/ WriteRunSummary

Spec == Init /\ [][Next]_vars
-----------------------------------------------------------------------------
(* Properties.                                                              *)

Executed(k) == ~results[k].skipped

\* A stage is skipped exactly when a stage before it, in its own lifecycle
\* group, was executed and failed; a setup opens a group, an executed teardown
\* closes one, and a teardown that is itself skipped does not.
GroupsAreSeparate ==
  \A k \in DOMAIN results :
    results[k].skipped <=>
      /\ plan[k].when # "always" /\ plan[k].mode # "setup"
      /\ \E j \in 1..(k - 1) :
           /\ Executed(j) /\ ~results[j].ok /\ plan[j].mode # "teardown"
           /\ \A n \in (j + 1)..(k - 1) :
                plan[n].mode # "setup" /\ (plan[n].mode = "teardown" => ~Executed(n))

\* Unless the run is given up or interrupted, every stage is dealt with, and
\* those that must run whatever happened before them have run.
CleanupRuns ==
  pc = "returned" /\ ~error /\ ~interrupted =>
    /\ Len(results) = Len(plan)
    /\ \A k \in DOMAIN plan : plan[k].when = "always" => Executed(k)

\* No worker is lost or doubled: those that are free and the one that the stage
\* in hand holds are all the workers there are, whatever the stage runs into.
WorkerReturned ==
  LET holds == pc \in {"prepare", "execute", "judge", "report", "summarize", "mirror", "release"}
      held  == IF holds THEN {here.worker} \ {NoWorker} ELSE {}
  IN i > 0 => /\ Range(pool) \cup held = 1..Capacity(spec)
              /\ Len(pool) + Cardinality(held) = Capacity(spec)

Named(job, item) == Cardinality({n \in DOMAIN job : job[n] = item})
Times(item) == MapThenSumSet(LAMBDA j : Named(jobs[j], item), DOMAIN jobs)
Sizes == {Len(jobs[j]) : j \in DOMAIN jobs}

\* The jobs of a stage name each collected item as often as the stage asks for:
\* none is lost or invented by chunks, repeats, splits or a manifest.  No job is
\* empty, chunks are full but for the last, and no group of a split is larger
\* than another by more than one.
ItemsCovered ==
  pc = "judge" =>
    /\ UNION {Range(jobs[j]) : j \in DOMAIN jobs} = Range(Items)
    /\ \A item \in Range(Items) :
         LET times == Rounds(Stage) * Named(Items, item)
         IN IF Stage.manifest = <<>> THEN Times(item) = times ELSE Times(item) >= times
    /\ 0 \notin Sizes
    /\ Stage.manifest = <<>> /\ Stage.split > 1 => \A m, n \in Sizes : m - n <= 1
    /\ ~SplitEnabled(Stage) /\ Stage.repeats = 0 =>
         \A j \in 1..(Len(jobs) - 1) : Len(jobs[j]) = Stage.chunk_size

\* summary.json says that a run passed only if every stage of its plan was
\* executed and passed, whatever was swallowed on the way; an interrupted run is
\* the exception.  It warns of the health of the machine and of nothing else: a
\* stage is never skipped in a run that passed.
VerdictIsTrue ==
  summary # NoSummary /\ ~interrupted =>
    /\ summary.verdict # "FAILED" <=>
         /\ ~error /\ Len(results) = Len(plan)
         /\ \A k \in DOMAIN results : results[k].ok
    /\ summary.verdict = "WARNING" => health = "degraded"

Passed(verdicts) == Cardinality({j \in DOMAIN verdicts : verdicts[j] = "PASSED"})

\* The row of a stage agrees with what the run made of it, although it is taken
\* from a file that an earlier step wrote, or from the result if there is none;
\* and a stage that failed is named among the failures, and its target is a
\* failed one (unless the last writing of the stage's file failed).  No more jobs
\* are said to have passed than did, except by a dry run, which runs none.
RowsAgree ==
  summary # NoSummary =>
    /\ spec.dry \/ summary.totals.jobs_passed <=
         MapThenSumSet(LAMBDA k : Passed(summary.rows[k].jobs), DOMAIN summary.rows)
    /\ \A k \in DOMAIN results \ unsaved :
         /\ summary.rows[k].failure = results[k].failure
         /\ summary.rows[k].verdict = IF results[k].skipped THEN "SKIPPED"
                                      ELSE IF results[k].ok THEN "PASSED" ELSE "FAILED"
         /\ Executed(k) /\ ~results[k].ok =>
              /\ \E f \in summary.failures : f[1] = k
              /\ summary.targets[results[k].host] = "FAILED"
=============================================================================

------------------------------ MODULE Planner ------------------------------
(***************************************************************************)
(* What a run is made of, as functions of its specification: the compiler   *)
(* that lays out the stages (testfabric/orchestrator/plan/compiler.py) on   *)
(* the targets they select (testfabric/workers/targets.py), and the planner *)
(* that deals the items of a stage out to jobs (job_planner.py,             *)
(* strategies.py, split.py and manifest.py beside it).                      *)
(*                                                                         *)
(* A specification is a record with the fields that decide anything here.   *)
(* A setting that is not given is 0, a name that is not given is "".        *)
(***************************************************************************)
EXTENDS Integers, Sequences, FiniteSets, SequencesExt

CONSTANT Null   \* what a transport holds for a key that is taken away: null

IsList(s) == s \in Seq(Range(s))

\* The elements that pass the test (SelectSeq, of which proofs can make nothing).
Kept(seq, Test(_)) == FlattenSeq([k \in DOMAIN seq |-> IF Test(seq[k]) THEN <<seq[k]>> ELSE <<>>])

-----------------------------------------------------------------------------
(* The stages and what they are compiled to.                                *)

\* A run of one suite has a stage of its own making.
StagesOf(spec) ==
  IF spec.override = "" THEN spec.stages ELSE <<[spec.plain EXCEPT !.suite = spec.override]>>

FirstGiven(names) == LET given == Kept(names, LAMBDA n : n # "")
                     IN IF given = <<>> THEN "" ELSE given[1]

ExecutorOf(spec, st) ==
  LET suite    == spec.suites[st.suite]
      inferred == IF suite.kind = "pytest" THEN "docker" ELSE "local"
  IN FirstGiven(<<st.executor, suite.executor, spec.default_executor, inferred>>)

RunnerOf(spec, st) == FirstGiven(<<st.runner, spec.suites[st.suite].runner, spec.suites[st.suite].kind>>)

\* `st.x or spec.parallelism.x`: a zero counts as not given.
Setting(spec, st, name) == IF st[name] # 0 THEN st[name] ELSE spec.parallelism[name]

Capacity(spec) ==
  IF spec.max_workers # 0 THEN spec.max_workers
  ELSE Max({spec.parallelism.max_workers} \cup {st.max_workers : st \in Range(spec.stages)})

-----------------------------------------------------------------------------
(* Targets.  A host is listed once for every group that names it.           *)

\* A bare name selects a group.
Selects(selector, target) ==
  \/ selector.by = "all"
  \/ selector.by = "host" /\ selector.of \in {target.host, target.name}
  \/ selector.by = "group" /\ selector.of = target.group

Selected(spec, st) == Kept(spec.inventory, LAMBDA t : Selects(st.targets, t))

\* The keys that `above` sets replace those below; a null takes one away.
Layered(below, above) ==
  LET removed == {k \in DOMAIN above : above[k] = Null}
  IN [k \in (DOMAIN below \cup DOMAIN above) \ removed |->
        IF k \in DOMAIN above THEN above[k] ELSE below[k]]

\* A transport of the run, or a credential, is dumped with its defaults.
Defaults == [user |-> "root", port |-> 22]
Dumped(transport) == Layered(Defaults, transport)

Transport(spec, target) ==
  LET named == IF target.credential = "" THEN <<>> ELSE Dumped(spec.credentials[target.credential])
  IN Layered(Layered(IF spec.transport = <<>> THEN <<>> ELSE Dumped(spec.transport), named),
             target.transport)

\* A password, or a target without an address, is refused, base_url or not.
Reachable(spec, target) ==
  /\ target.credential \in DOMAIN spec.credentials \cup {""}
  /\ "password" \notin DOMAIN Transport(spec, target)
  /\ target.address # ""

Endpoint(spec, target) ==
  LET given  == Transport(spec, target)
      Or(k, otherwise) == IF k \in DOMAIN given THEN given[k] ELSE otherwise
      secure == "tls" \in DOMAIN given
  IN [url |-> [mode |-> IF secure THEN "https" ELSE "ssh",
               user |-> IF secure THEN "" ELSE Or("user", "root"),
               host |-> target.address,
               port |-> Or("port", IF secure THEN 2376 ELSE 22)],
      via |-> Or("via", "")]

Local == [host     |-> "local",
          endpoint |-> [url |-> [mode |-> "local", user |-> "", host |-> "", port |-> 0], via |-> ""]]

OnTargets(spec, st) == ExecutorOf(spec, st) = "docker" /\ st.targets.by # ""

ResolveTargets(spec, st) ==
  LET selected == Selected(spec, st)
  IN IF OnTargets(spec, st)
     THEN [k \in DOMAIN selected |-> [host     |-> selected[k].host,
                                      endpoint |-> Endpoint(spec, selected[k])]]
     ELSE <<Local>>

-----------------------------------------------------------------------------
(* The plan.                                                                *)

StageIsValid(spec, st) ==
  /\ RunnerOf(spec, st) = spec.suites[st.suite].kind
  /\ Setting(spec, st, "max_workers") \in 1..Capacity(spec)
  /\ Setting(spec, st, "chunk_size") >= 1 /\ Setting(spec, st, "max_retries") >= 0
  /\ OnTargets(spec, st) =>
       /\ Selected(spec, st) # <<>>
       /\ \A k \in DOMAIN Selected(spec, st) : Reachable(spec, Selected(spec, st)[k])

Compiles(spec) ==
  /\ spec.override = "" \/ spec.override \in DOMAIN spec.suites
  /\ StagesOf(spec) # <<>>
  /\ \A k \in DOMAIN StagesOf(spec) : StageIsValid(spec, StagesOf(spec)[k])

\* A stage becomes one planned stage for each of its targets, in their order.
PlanStage(spec, st) ==
  LET targets == ResolveTargets(spec, st)
  IN [k \in DOMAIN targets |->
       [suite       |-> st.suite,
        executor    |-> ExecutorOf(spec, st),
        host        |-> targets[k].host,
        endpoint    |-> targets[k].endpoint,
        build       |-> st.build \/ spec.build,
        repeats     |-> st.repeats,
        split       |-> st.split,
        manifest    |-> st.manifest,
        chunk_size  |-> Setting(spec, st, "chunk_size"),
        max_retries |-> Setting(spec, st, "max_retries"),
        mode        |-> st.mode,
        when        |-> st.when]]

CompileRunPlan(spec) ==
  FlattenSeq([k \in DOMAIN StagesOf(spec) |-> PlanStage(spec, StagesOf(spec)[k])])

-----------------------------------------------------------------------------
(* The jobs of a stage: sequences of items.  repeats is 0 in mode "once".   *)

Rounds(stage) == IF stage.repeats = 0 THEN 1 ELSE stage.repeats

SplitEnabled(stage) == stage.manifest # <<>> \/ stage.split > 1

\* Mutant: a step too far apart.
CountSplitWide(items, count) ==
  [g \in 1..count |->
     [k \in 1..Cardinality({n \in 1..Len(items) : (n - 1) * (count + 1) + g <= Len(items)}) |->
        items[(k - 1) * (count + 1) + g]]]

\* The items are dealt out like cards.
CountSplit(items, count) ==
  [g \in 1..count |->
     [k \in 1..Cardinality({n \in 1..Len(items) : (n - 1) * count + g <= Len(items)}) |->
        items[(k - 1) * count + g]]]

\* Every item is named, none twice in a group; another group may name it again.
ManifestFits(items, groups) ==
  /\ IsInjective(items)
  /\ \A g \in DOMAIN groups : IsInjective(groups[g])
  /\ UNION {Range(groups[g]) : g \in DOMAIN groups} = Range(items)

SplitItems(items, stage) ==
  IF stage.manifest # <<>> THEN stage.manifest ELSE CountSplit(items, stage.split)

\* A manifest whose groups are all empty is refused as it is loaded.
ManifestLoads(groups) == \E g \in DOMAIN groups : groups[g] # <<>>

CanPlan(items, stage) ==
  stage.manifest # <<>> => ManifestLoads(stage.manifest) /\ ManifestFits(items, stage.manifest)

Chunks(items, size) ==
  [c \in 1..((Len(items) + size - 1) \div size) |->
     SubSeq(items, (c - 1) * size + 1, IF c * size < Len(items) THEN c * size ELSE Len(items))]

Repeated(jobs, rounds) == FlattenSeq([r \in 1..rounds |-> jobs])

PlanJobs(items, stage) ==
  IF SplitEnabled(stage)
    THEN Repeated(Kept(SplitItems(items, stage), LAMBDA g : g # <<>>), Rounds(stage))
  ELSE IF stage.repeats > 0
    THEN Repeated([k \in DOMAIN items |-> <<items[k]>>], stage.repeats)
  ELSE Chunks(items, stage.chunk_size)
=============================================================================

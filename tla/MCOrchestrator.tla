--------------------------- MODULE MCOrchestrator ---------------------------
(* Specifications of runs, for TLC. *)
EXTENDS Orchestrator

CONSTANTS a, b, c, d, e   \* items

AStage ==
  [suite |-> "none", executor |-> "", runner |-> "", targets |-> [by |-> "", of |-> ""],
   build |-> FALSE, repeats |-> 0, split |-> 1, manifest |-> <<>>, max_workers |-> 0,
   chunk_size |-> 0, max_retries |-> 0, mode |-> "run", when |-> "on_success"]

ASuite(kind, items) ==
  [kind |-> kind, executor |-> "", runner |-> "", items |-> items, dry_items |-> items,
   dialogue |-> kind = "expect"]

Suites ==
  [none  |-> ASuite("command", <<>>),
   one   |-> ASuite("command", <<a>>),
   same  |-> [ASuite("command", <<a, a, b>>) EXCEPT !.dry_items = <<b>>],
   three |-> [ASuite("pytest", <<a, b, c>>) EXCEPT !.executor = "local"],
   five  |-> [ASuite("pytest", <<a, b, c, d, e>>) EXCEPT !.executor = "local"],
   tests |-> ASuite("pytest", <<a>>),
   talk  |-> ASuite("expect", <<a>>)]

ASpec ==
  [stages |-> <<AStage>>, override |-> "", plain |-> AStage, suites |-> Suites,
   default_executor |-> "", max_workers |-> 0,
   parallelism |-> [max_workers |-> 1, chunk_size |-> 2, max_retries |-> 0],
   inventory |-> <<>>, credentials |-> <<>>, transport |-> <<>>, build |-> FALSE,
   dry |-> FALSE, docker_mode |-> "custom", dockerfile |-> TRUE, require_docker |-> FALSE, min_mem |-> FALSE]

-----------------------------------------------------------------------------
\* One stage: how its items become jobs.
Layouts ==
  {[AStage EXCEPT !.suite = suite, !.repeats = repeats, !.split = split, !.chunk_size = chunk] :
     suite \in {"same", "three", "five"}, repeats \in {0, 2}, split \in {1, 2, 3}, chunk \in {0, 3}}
  \cup {[AStage EXCEPT !.suite = "three", !.manifest = groups, !.repeats = repeats] :
          groups \in {<< <<b, a>>, <<c>> >>, << <<a, b>>, <<>>, <<b, c>> >>, << <<a>>, <<b>> >>},
          repeats \in {0, 2}}
  \cup {[AStage EXCEPT !.suite = "same", !.manifest = << <<a, b>> >>],
        [AStage EXCEPT !.manifest = << <<>> >>],
        [AStage EXCEPT !.suite = "talk"],
        [AStage EXCEPT !.suite = "talk", !.repeats = 2],
        [AStage EXCEPT !.suite = "talk", !.executor = "docker"]}

PlanningSpecs ==
  {[ASpec EXCEPT !.stages = <<st>>] : st \in Layouts}
  \cup {[ASpec EXCEPT !.stages = <<[AStage EXCEPT !.suite = "same"]>>, !.dry = TRUE],
        [ASpec EXCEPT !.stages = <<[AStage EXCEPT !.suite = "talk", !.repeats = 2]>>, !.dry = TRUE]}

\* Several stages: the lifecycle, and what becomes of the results.
Lives(mode) == {[AStage EXCEPT !.mode = mode, !.when = when] : when \in {"on_success", "always"}}
Life == Lives("setup") \cup Lives("run") \cup Lives("teardown")
Run == AStage
Setup == [AStage EXCEPT !.mode = "setup"]
Clean == [AStage EXCEPT !.mode = "teardown", !.when = "always"]
Tidy  == [AStage EXCEPT !.mode = "teardown"]

LifecycleSpecs ==
  {[ASpec EXCEPT !.stages = <<first, second, third>>] :
     first, second, third \in Life}
  \cup {[ASpec EXCEPT !.stages = stages] :
          stages \in {<<Setup, Run, Clean, Run>>, <<Setup, Tidy, Run, Clean>>}}
  \cup {[ASpec EXCEPT !.stages = <<[Run EXCEPT !.suite = "one"], [Clean EXCEPT !.suite = "talk"]>>]}

-----------------------------------------------------------------------------
\* Stages on docker hosts: one is in two groups.
Host(host, in, credential, transport) ==
  [host |-> host, name |-> host, group |-> in, address |-> host,
   credential |-> credential, transport |-> transport]

Inventory ==
  <<Host("h1", "db", "", [user |-> "ci"]), Host("h2", "db", "secure", <<>>),
    Host("h1", "web", "secure", [tls |-> Null]), Host("h3", "bad", "login", <<>>),
    Host("h4", "lost", "gone", <<>>), Host("h5", "ok", "login", [password |-> Null])>>

Credentials == [secure |-> [tls |-> TRUE], login |-> [password |-> "p"]]

On(by, of) == [AStage EXCEPT !.suite = "tests", !.targets = [by |-> by, of |-> of]]
Built(st)  == [st EXCEPT !.build = TRUE]

DockerStages ==
  {<<On("group", "db")>>, <<Built(On("group", "db")), Built(On("host", "h1"))>>,
   <<On("host", "h5"), On("host", "h1")>>, <<On("all", "")>>, <<On("group", "lost")>>,
   <<On("group", "nobody")>>, <<On("", "")>>}

DockerSpecs ==
  {[ASpec EXCEPT !.stages = stages, !.inventory = Inventory, !.credentials = Credentials,
                 !.transport = [via |-> "hop"], !.docker_mode = mode, !.dockerfile = file] :
     stages \in DockerStages, mode \in {"custom", "template", "auto"}, file \in BOOLEAN}
  \cup {[ASpec EXCEPT !.stages = <<On("group", "db")>>, !.inventory = Inventory,
                      !.credentials = Credentials, !.build = TRUE],
        [ASpec EXCEPT !.stages = <<On("host", "h1")>>,
                      !.inventory = <<[Host("h1", "db", "", <<>>) EXCEPT !.address = ""]>>]}

\* Settings that are refused, and some that are not.
OtherSpecs ==
  {[ASpec EXCEPT !.stages = <<>>],
   [ASpec EXCEPT !.override = "one"], [ASpec EXCEPT !.override = "unheard"],
   [ASpec EXCEPT !.stages = <<[AStage EXCEPT !.runner = "pytest"]>>],
   [ASpec EXCEPT !.stages = <<[AStage EXCEPT !.max_workers = 2]>>, !.max_workers = 1],
   [ASpec EXCEPT !.stages = <<[AStage EXCEPT !.max_workers = 2], AStage>>],
   [ASpec EXCEPT !.stages = <<[AStage EXCEPT !.chunk_size = -1]>>],
   [ASpec EXCEPT !.default_executor = "docker", !.docker_mode = "template"],
   [ASpec EXCEPT !.min_mem = TRUE], [ASpec EXCEPT !.require_docker = TRUE]}

AllSpecs == PlanningSpecs \cup LifecycleSpecs \cup DockerSpecs \cup OtherSpecs
=============================================================================

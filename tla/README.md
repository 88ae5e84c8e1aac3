# A verification project for Anodyne

Anodyne is a multi-tenant service that generates, perturbs, evaluates, reviews
and exports synthetic datasets. A FastAPI gateway accepts requests and starts
durable Temporal workflows; workers execute the workflows' activities; all of
them share PostgreSQL rows, objects in an S3 store and Redis channels. The hard
part is not any single handler but their overlap: the gateway goes on writing
after it started a workflow, activities are retried while earlier attempts may
still run, rows are read, changed and saved whole, and people decide on reviews
concurrently.

This directory holds TLA+ modules for that core, TLC configurations, and TLAPS
proofs. `PROJECT.json` is the machine-readable index (components, runs, mutants,
the map from definitions to source lines, findings, hazards, theorems).

## Inventory

| Part | State | Operations | Interacts with | Hard because | Correct when |
|---|---|---|---|---|---|
| Generation request (`app.py` `start_generation`, `workflow.py`, `activities.py`) | `generation_jobs`, `dataset_versions` rows, shard and artifact objects, Redis channel, `_approved` | start, save job, create review task; plan, generate, assemble, register, set status | Temporal, storage, review | gateway saves after starting; retries; abandoned attempts; a human gate | nothing before approval, versions complete, success means a version |
| Shard planning (`plan_shards`) | local loop | split `target_rows` | generation | boundaries | rows partitioned |
| Human review (`hitl_routes.py`, `anodyne-hitl`) | `review_tasks` rows, annotations, feedback | create, list, decide; signal, cancel | Temporal, generation | check, act and save are three awaits | decisions are delivered, unapproved jobs wait |
| Perturbation request (`perturbation_*.py`) | `perturbation_jobs`, derived versions and artifact | launch, apply, register and stamp, set status | Temporal, storage | as generation, and a stamp inside a read-modify-write | references resolve, stamps survive |
| Evaluation request (`evaluation_*.py`, `anodyne-evaluation/registry.py`) | `evaluation_runs`, expert results, two report objects | start, run, set status, replace results | Temporal, storage, judges | several awaits per attempt, an except branch | reports resolve, failures are recorded |
| Mixture of experts (`evaluator.py`, `aggregator.py`, `ray_evaluation.py`) | scores of a run | select judges, run them, aggregate | evaluation | missing judges, zero weights, overrides | overall is a mean |
| Judges and task metrics (`judges/`, `graph_judges/`, `task.py`) | none | decide whether they apply, score, ask the model | mixture | conditions on columns of two tables, ratings of a model | no call that was not asked for, scores in range |
| Modality handlers (`handlers.py`, `image_activities.py`) and generators | shard, clip and manifest objects | generate, store, assemble | generation, providers | overlapping attempts under shared keys, provider failures, bounded retries, polling | datasets complete, loops end |
| Tabular synthesis (`anodyne-tabular`) | sample object, profile, fields | profile, propose fields, edit, generate, enforce | gateway, handlers | the profile, the fields and the sample change apart | constraints hold, personal columns are not copied |
| Perturbation families (`anodyne-perturbation`) | in-memory table | noise, drift, outliers, edge cases, bias, text | perturbation | nulls, row alignment, intensity at its limits | rows and untouched columns kept |
| Graph engines (`anodyne-graph`, `GraphHandler`) | shard graphs, the assembled graph | topology, hybrid fill, LLM build, constraint check and injection, merge | handlers | ids over several shards, undirected and repeated relations, range boundaries | the engines emit what the validator accepts, no node is lost |
| Graph perturbation (`perturb.py`) | a graph | rewire, swap, drop, violate | perturbation, judges | overlapping swaps, graphs that are already broken | degrees kept, selected elements flagged |
| Graph question sets (`graphrag/`, `task_metrics/graph_qa.py`) | paths, items | sample paths, build items, score a fixture | judges | two indices of one graph, edges looked up by id | gold paths real, answers grounded and consistent |
| Gateway routes (`app.py`, `*_routes.py`) | `datasets`, profiles, provider configs, annotations, feedback, exports | create, update, upload sample, register, delete, annotate, export, download | storage | whole-row saves across awaits, objects written before rows | edits survive, references resolve, exports match |
| Progress stream (`app.py`, `use-job-progress.ts`) | subscription, socket, timer | subscribe, forward, show, poll | Redis, generation | messages before the subscription, answers out of order, two tasks per handler | the terminal status is shown, subscriptions are released |
| Tenancy and authorisation (`anodyne-tenancy`, `deps.py`), storage (`anodyne-storage`) | roles, tenant setting of a transaction, tables, object prefixes | check, scope, filter | every route | isolation rests on filters written query by query | tenants do not interfere, roles bound changes |
| Ontology alignment (`mapping/`), from-sample graph engine, graph serialisation, model access, web pages, infrastructure | | | | | not modelled, see below |

The hazards this leads to are listed, each at its line, in `PROJECT.json`.

## Modules

| Module | Models | EXTENDS / INSTANCE |
|---|---|---|
| `Temporal` | the workflow engine as the three workflows use it (external) | |
| `Publication` | abstract promise of a request that publishes versions | |
| `Generation` | `start_generation`, `GenerationWorkflow`, its activities, the rows and objects they write | `Temporal`, refines `Publication` |
| `GenerationReview` | concurrent `decide_review` / `apply_review_decision` requests in front of a generation | `Generation` |
| `Perturbation` | `launch_perturbation`, `PerturbationWorkflow`, its activities | `Temporal`, refines `Publication` |
| `Evaluation` | `start_evaluation`, `EvaluationWorkflow`, its activities, the results table | `Temporal` |
| `ShardPlan` | the loop of `plan_shards` | |
| `Media` | the tabular, text, image, audio and video handlers and their generators, over the plans of `ShardPlan`, with overlapping attempts | `ShardPlan` |
| `Mixture` | task detection, judges, metric providers, runners, `WeightedAggregator` | |
| `Tables` | sample, profile, fields, synthesis, tabular and text perturbation, evaluation of a table | `Mixture` |
| `TenantStore` | tables with tenant column, row-level policies, repositories' filters, object prefixes, roles | |
| `Gateway` | the routes over datasets, samples, providers, versions, annotations, feedback, evaluations, exports | `TenantStore` |
| `Stream` | `set_status`' publishing, Redis, `job_progress_stream`, `useJobProgress` | |
| `PropertyGraph` | the graph and ontology records, `OntologyConstraintValidator`, `OntologyConsistencyGraphJudge` (constant operators) | |
| `GraphGeneration` | the topology, hybrid and LLM engines, the constraint layer, `GraphHandler` | `PropertyGraph` |
| `GraphPerturbation` | `perturb_graph` on an assembled graph | `GraphGeneration` |
| `GraphQA` | `sample_paths`, `GraphRAGGenerator`, the graph-QA metrics; the whole graph pipeline's `Next` and `Spec` | `GraphPerturbation` |
| `MCGenerationReview`, `MCMedia`, `MCTables`, `MCGraph`, `MCGateway` | TLC instances | |
| `Media_proofs`, `Generation_proofs` (with `GenerationReview`), `Perturbation_proofs`, `Evaluation_proofs`, `Tables_proofs`, `GraphQA_proofs`, `Gateway_proofs`, `Stream_proofs` | theorems about the module named | the module, `TLAPS` |

### Temporal

`wf` is the execution as the server's history has it: its state, its position
`pc` in the `run` method, the number `n` of the attempt it waits for and whether
a cancellation was requested. `at[<<position, attempt>>]` says how far the code
of each attempt has come. The server may count the current attempt as lost at any
time (a start-to-close timeout, a worker crash, a lost completion): `Retry`
dispatches the next one, and the lost one **keeps running**, since no activity
of the repository heartbeats. It may also stop for ever: nothing obliges an abandoned
attempt to move. `Raise` is a dependency failing inside the current attempt. Both
are counted in `faults`, which `MaxFaults` bounds. A cancellation closes the
workflow at any later moment; the real engine delivers it at the next await,
which this over-approximates.

### Generation

Positions 1 to 9 are the awaits of `GenerationWorkflow.run`; 2 is the review
gate. Each action is the code between two awaits: `set_status` is `ReadJob`
(`get_job`), `SaveJob` (a full-column upsert of the copy, or of a new record
without `workflow_id` when there was no row) and `Publish`; `generate_shards`
is one `PutShard` per shard; assemble is `ReadShards` and `PutArtifact`;
`RegisterVersion` inserts a row with a new id. The gateway's handler is
`StartGeneration` (with the approval signal unless a review is required),
`GatewaySaveJob`, `CreateReviewTask`, with `GatewayCrash` between any two.
Abstractions: an object's content is the number of the attempt that wrote it; the
artifact is the tuple of shard contents it was made from; the row keeps status,
progress (in tenths) and whether `workflow_id` is set; reading all shards is one step
(each is replaced only by another attempt's shard of the same index, so a mixed
read yields a content of the same kind). Actions `SignalApprove`,
`CancelWorkflow` and `SaveReview` stand for any holder of a review task;
`GenerationReview` replaces them by the actual requests.

### GenerationReview

Each reviewer's request is `DecideReview` (404 and 409 checks), then `Signal`,
`Cancel` or `NoAction`, then `SaveDecision` (an UPDATE by id). A workflow that
has closed makes `signal` raise; `cancel` of a closed workflow raises or is
ignored depending on the server, so both outcomes are allowed. `contested` is a
history variable: two requests overlapped, or one died after it told the
workflow and before it saved. Without either, `RowTellsDecision` says that the
workflow and the row never part: what the pending check is for.

### Perturbation and Evaluation

The same engine and gateway pattern. `set_perturbation_status` saves only a row it
found; `register_perturbed_version` inserts, reads, stamps. `run_evaluation`
uploads two objects, reads the row, saves it and replaces the expert results; the
DELETE and the INSERT are one transaction, in which the DELETE hits what was
committed when it ran (`doomed`). The workflow's except branch is position 4.

### ShardPlan and Media

`ShardPlan` is the while loop of `plan_shards`, one action per iteration. `Media`
takes the plan and runs up to two attempts of `generate_shards` over it, the second
after the first was given up on (`GiveUp`), while the first may go on. Each action
is what happens up to a put or a provider's answer: `GenerateTabular` and
`GenerateImages` make and store one shard; text is `StartText`, then a
`TextBatch` or `TextUnparseable` per reply, then `EndText` or `NoText`; audio is
`Synthesize` and a `PutClip` per clip; video is `StartPrediction`, `Poll`,
`Download` per item, then the clips. `Raise` is any error of a provider, of Ray or
of the store. `assemble` reads shard after shard, and for images unpacks and
stores every image. An object is the sequence of items written to it; an item is its
index, content, seed, the configuration that made it and its format. A model's
reply is a sequence of rows whose keys tell blank, overlong, malformed and equal
rows apart. The tenant may change its provider configuration once. The salt of
a worker process's `hash()` is a choice per shard and attempt.

### Mixture and Tables

`Tables` follows one dataset. A cell is a number that stands for its class (numbers,
strings of the sample, booleans, moments, a null, NaN, an INT64_MIN, what Faker
or a perturbation makes up); a column is a sequence of cells with the type Arrow
infers. `UploadSample` profiles, an edit action is `PATCH /datasets/{id}`,
`Generate` draws every field and enforces the constraints, `PerturbCells` and
`PerturbRows` are the families, `Evaluate` hands the child and its parent to
`Mixture`. Fitted models are external: they return any value of their column,
and NaN where the column has missing values. Contexts of other modalities enter
through `EvaluateOther`. In `Mixture` a judge is the condition under which it
scores, is skipped, raises, or asks the model; a statistic is any of three values of
0..1, a rating any of a few integers, valid or not. `asked` and `wild` are
history: the task judge called the model, a rating outside 1..5 was taken. The
overall score is a numerator over a denominator, so that no rounding is needed.

### TenantStore and Gateway

`rows` is the set of all rows of all tables, each with its tenant; `View(c)` is
everything a caller's repositories and object store return, by the filters the
repositories write and by the policies if the database enforces them (`rls`, both
values are explored). `Gateway` runs callers of two tenants with every role. A
route that awaits between reading and writing is several actions on a slot of
its own (edit: read, save; upload: put, profile, save profile, save spec;
export: read, put, record), and `RequestDies` may end it anywhere; a route that
awaits once is one action. What workflows write for the gateway's readers (jobs,
versions, reports) is written by a worker actor of the tenant, in the order
`Generation` and `Evaluation` establish. `raced` and the revisions are history: which
datasets saw overlapping requests.

### Stream

A status is its position in the job's life. `late`, `snap` and `overtaken` are
history, for the two exceptions of `Settles`. The handler's two tasks are
`Loop` and `ReceiveDisconnect`; the page's events are one action each, and every
GET is sent, answered and applied in three steps, so that answers may overtake
each other. A page may be left at any time. `Quiet` says that nothing is on its way that could
still bring the end of the job; `QuietIsSettled`, the safety half of `Settles`, that the
page shows it by then.

### PropertyGraph, GraphGeneration, GraphPerturbation, GraphQA

One behaviour is one dataset's life: its shards are generated in the order of
the plan, assembled, perturbed, and a question set is made of the result. The
four modules stack, so that every operator works on graphs the earlier ones can
really produce, broken ones included.

An id `f"{type}:{n}"` is the pair of type and number; a value is its kind with a
number in halves, which is what the checkers tell apart (`2 * n` is the integer
`n`, an odd number a float), a bound likewise; a numeral is a string that `float()` reads.
Constraints are sets, empty when not declared. A bound that `int()` refuses, such as
the string "1.5", makes the topology engine raise and is not modelled. Which
of the properties of one kind `_violate_node` breaks is left open: the code takes the first by
name, which no property here depends on. The random generators are choices: networkx may return any set of
node pairs, and LFR any community map; an integer is drawn at the ends of its
range. A node type's properties are drawn once per shard, not per node, and one
row of the hybrid engine's reply carries one value, since no property relates
two nodes' values. Intensity is in quarters, which reaches the half-to-even rounding of
`round`. The LLM engine takes the reply item by item (`TakeNode`, `TakeEdge`);
items the code skips are no step. What `apply_constraints` reports is kept for
every shard, whether or not the directives ask for it. SBM splits into its default of three blocks unless
the blocks are given.
`parent` and `job` are history: what the last perturbation read and selected;
they are forgotten when sampling starts. How many walks `sample_paths` tries
(200 or more) is left open.

## Runs

| Run | Bounds | Shows |
|---|---|---|
| `generation` | 2 attempts, 2 faults, 2 shards | gate, completeness, success, duplicates, regressions only by races, refinement of `Publication`; an approved or cancelled workflow closes, a parked job gets its review task unless the gateway crashed |
| `review` | 2 attempts, 1 fault, 1 shard, 2 reviewers (symmetric) | decisions are delivered before they are saved; a workflow that was told something has a row that says so, or a request about to save it, unless requests overlapped or one died in between |
| `perturbation` | 3 attempts, 3 faults | references, stamps, termination, refinement of `Publication` (success means a version) |
| `evaluation` | 2 attempts, 2 faults | report references and scores, recorded failure, termination |
| `media` | targets from below zero past a full last shard, two shard sizes, up to 3 items, 2 attempts at generation, 2 configurations, 2 batches of a text shard, 2 polls | the plan covers every row once; datasets complete under overlapping attempts; text shards sound; every request ends |
| `tables` | samples of two columns over every inferred type, one edit, 2 generated rows, every family and kind, several evaluations, contexts of all modalities, weight overrides with a zero and a negative one | synthetic columns conform, perturbations keep what they should, the model is called only where advertised, the overall score is a mean |
| `graph` | ontologies with directed, undirected and repeated relations, one with a node type declared twice and bounds that are fractions or numerals; 3 nodes in one or two shards, or the empty plan, of which the topology engines make one node; 1 perturbation at intensity 1/2; paths of 2 or 3 hops; 2 questions | engines against validator and judge, merge, perturbations, paths, answers |
| `gateway` | 2 tenants, callers who are viewer, member and owner, a token of unknown roles and one without a tenant, row-level security on and off, three requests that change something, two at a time, any of the longer ones lost | non-interference, references, roles, lost updates only by overlap, samples and exports in step |
| `stream` | 2 statuses, one repeated publish, 2 losses, a snapshot and two polls under way | no step loses the end of the job, the page settles, the subscription is released |
| `generation_workflow_id` | | finding: a stale `set_status` wipes `workflow_id` |
| `review_decided_once` | | finding: a second decision overwrites the first |
| `directives_reproducible` | as `media`, tabular | finding: directives depend on the worker process |

The bounds are small but reach what matters: two attempts are enough for a retry
that overlaps its predecessor, two faults for the exhaustion of an activity and
for two activities that each have an abandoned attempt, two shards for an
incomplete set, two reviewers for a decision between another's check and save.
The code allows three attempts (two for evaluation), and the proofs cover every number.
Three items in shards of two or three give a full, a short and an only shard. Two
generated rows tell a column apart from its constant. Three nodes are the
fewest with a path of two hops, an overlap of two swaps and two shards of
different size; half of three edges is the half that rounds to even. Two
requests in flight are what a lost update takes, two polls what an overtaking
takes. Deadlock is not checked where a request ends, a workflow waits for its
approval, or a bound on requests is reached.

Each passing property has a mutant in `PROJECT.json`: a plausible bug (operators
commented `Mutant:` in the modules) under which TLC finds it violated.

### Findings beyond the violation runs

The same read-modify-write and start-before-save order have further
consequences that the models show as excluded cases of passing properties: a
worker can find no job row at all (against the comment at `activities.py:239`);
a crash between `start_workflow` and the task's creation parks a job with nobody
to ask (`gw = "crashed"` in `ParkedJobGetsTask`, against the wiki's review
page); a late gateway save wipes `result_version_id` (`StampLostOnlyByRace`).
`GenerationWorkflow` and `PerturbationWorkflow` never write `JobStatus.FAILED`: a
failed workflow leaves its row at the last status written.

The models also have these behaviours, which the properties exclude by name or
which no run singles out:

- An abandoned `assemble_and_upload` overwrites the object of a registered version,
  since the key depends on the job alone (`handlers.py:51`); the architecture
  document calls a version an "immutable artifact reference".
- Two overlapping attempts of `run_evaluation` leave both sets of expert results
  (`registry.py:133`), although the comment there calls the replacement idempotent.
- A page that subscribes after the last publish, with a snapshot read before the last
  save, waits at an open and silent socket; polling stops at the first terminal
  answer, and an older answer may still replace it (`Settles`).
- If `send_text` fails before the watcher has seen the disconnect, awaiting the
  cancelled watcher raises `CancelledError`, and the Redis subscription is not released
  (`app.py:753`).
- A text shard asks for at most `batch_size * max_attempts` rows (100 by default)
  whatever its size; the version's row count is the target all the same.
- A prediction the video service reports as canceled is treated as a success whose output
  is then missing (`external_api.py:77`).
- A field the user retypes to a name or an email is still filled from the sample if the
  profile typed it as modelled, against the module's own docstring
  (`copula_generator.py:6`); an INTEGER over a column with missing numbers holds
  INT64_MIN; a nullable boolean column collapses to one string; a DATETIME field without
  a modelled column is filled with letters.
- Concept drift ignores intensity; outliers overwrite missing numbers; the text families turn
  nulls into empty strings.
- `DEFAULT_WEIGHTS` merges three tables and the last one wins, so a tabular run weighs
  `task_quality` and `qualitative` as a media run does, although `models.py:50` says the
  tables never mix.
- The qualitative, semantic and generic rubrics do not check the range of a rating
  (`wild` in `OverallIsAMean`), and a reply the first two cannot parse fails the whole
  evaluation. `duplicate_rate` counts as a merit; with `prompt_diversity` its complement, the
  task score of an `image_generation` run is always one half.
- The topology engine indexes an undirected edge type both ways and checks a repeated
  relation name against its first declaration: it emits edges its validator rejects
  (`PlainOntology` in `GraphConforms`), although `topology.py:4` says it respects domain and range.
- Explicit SBM blocks give every shard the same number of nodes whatever its count, so
  ids of two shards collide and `assemble` drops nodes (excluded in `NoNodeLost`;
  the comment at `topology.py:289` says this never happens).
- Every shard numbers its edges and its injected violations from 0, so edge ids
  collide after assembly and `edges_by_id` finds one of them
  (`EdgeIdsUnique` in `FixtureIsReal`).
- `assemble` recomputes the metrics of the merged graph and drops the constraint report
  and the count of injected violations that `engines.py:13` says are recorded.
- The answer "No" names no node and counts as ungrounded in `_answer_groundedness`.
- `synthesize` ignores bounds on floats, and an integer whose maximum is below its
  (default) minimum leaves its range, as does one whose minimum is a fraction: 1.5 is cut to
  1, and 1 is emitted (`Satisfiable`).
- Of a node type declared twice the topology engine reads the last declaration
  (`topology.py:287`), the validator and the judge the first (`EngineReads`): a property of the
  first alone is missing from every node.
- A bound that is a numeric string is read by the validator (`constraints.py:258`) and by the
  engine, but not by the judge (`ontology.py:49`), which passes what the validator rejects
  (`NumericBounds` in `JudgeCatchesViolations`).
- The judge rejects every value under `choices: []`, the validator ignores the list.

### Fairness

Weak fairness on the server's steps (completions, failures, cancellations, the
gate) and on the attempt the workflow waits for: Temporal is durable, and a worker
that does not move is timed out and replaced. The gateway's handler is weakly fair
once it has started a workflow, and may still crash. Timeouts, abandoned attempts,
crashes, requests and reviewers have none. In `Media` the planning, the attempts
and the assembly are code that runs on; giving up, errors and a change of the
configuration need not happen. In `Stream` the job runs to its end, the event loops
of the gateway and of the page make progress and every request is answered or
fails; losing a connection or leaving the page need not happen.

## Proofs

Every theorem below is for all values of the module's constants under the named
assumptions, which TLC evaluates on every run. In each module the properties
themselves are not inductive; the invariant that is, what it says and why it is
needed, comes first.

**`Media_proofs`**, about `ShardPlan` and `Media`. `PlanCorrect`: for all sets of targets
and sizes, types, the partition of the rows, the cut sizes and the non-empty plan. The
promises speak of the returned plan, so they need the loop invariant:
`start + remaining = target`, the chunks tile the rows below `start`, and all are full
while rows remain. `RowsOnce` carries the partition over to `MediaSpec`, and
`DatasetsComplete` and `TextShardsSound` hold for any number of attempts,
configurations, replies, formats, polls, batch sizes and attempt counts. Their invariant
`MediaInv` adds what one attempt knows (`TryWell`: its items are those of its
shard so far, its `todo` the rest of them), what an object's key says of its contents
whoever wrote it (`StoreWell`), what an attempt has written (`Written`), the order of the
attempts (`Ordered`: earlier ones raised or were given up), and for video that all the
latest attempt wrote is still of its configuration unless the tenant changed it while an
abandoned attempt may write (`Coherent`). The assembly then has the first rows in order
(`Gathered`), the sort of the manifest changes nothing (`SortedIs`), and every clip
an entry names is stored. Text adds `TryText`: kept rows are clean and distinct
(`KeepStays`, over the fold of a reply), and rows and shortfall together make up for the
calls so far (`MadeUp`). Every step of an attempt is first reduced to one of three kinds
(`AttemptKinds`): no write, a shard written, a clip written. Assumptions:
`TargetsAssumption`, `SizesAssumption` (positive sizes), `ModalitiesAssumption`,
`TriesAssumption`, `FieldsAssumption` and `RepliesAssumption` (field lists and replies
are sequences), `DirectivesAssumption` (integers; a number of attempts below zero
makes none, as zero does).

**`Generation_proofs`**, for every `MaxAttempts`, `MaxFaults` and `NShards`: types
(`TypeCorrect`; no run repeats it), the human gate (`GateHolds`), complete versions
(`VersionsComplete`), success (`SuccessHasVersion`), duplicates
(`DuplicatesBounded`), the action property `RegressionsAreRaces` and the
refinement `PublicationImplemented`. That a version's
artifact is complete depends on the order of the workflow's history, which `GenInv`
states: attempts exist only for positions reached, in order of their
numbers (`Started`); every attempt beyond the first was paid for with a fault
(`Paid`); beyond the gate the workflow is approved; the loop index bounds what
is stored; artifacts, once full, stay full; rows exist per returned attempt; the
row is never ahead of the workflow (`Reported`). The central lemma, `Passing`,
says that the workflow moves past a position only when an attempt of it returned.
Engine steps are first reduced to nine shapes (`ServerShapes`), so that each part of
the invariant is proved against the shapes and the workers' steps. `NeverStranded` is the
safety half of `GateReleased` and `ParkedJobGetsTask`: an open workflow waits for an attempt
that has ended or whose next step has its guard (`MayProceed`), or at the gate has an
approval, a task, or a handler that has yet to create the task or crashed. It adds to
`GenInv` which phases the code of an attempt has (`Phased`), that past `generate_shards` no
shard is missing, without which `assemble_and_upload` would raise for ever (`ShardsThere`), and
that a started workflow was approved or promised a task (`Asked`). Assumptions:
`AttemptsAssumption`, `FaultsAssumption`, `ShardsAssumption` (positive attempts and
shards, natural faults).

The same module, about `GenerationReview`, for every set of reviewers. The lemma `GenerationImplemented`: the
request of a reviewer maps to `Generation`'s approval, cancellation and save of a
task (`RequestEffect`), everything else to the step it is; this needs only that a
request in flight has seen a task (`Queued`). It brings `GenInv` with it, hence
`GateHoldsUnderReview`. `DecisionsDelivered` follows a decision from the request that
took it (`Acted`: who has acted has delivered) to the row. It is what the order
of signal and save in `decide_review` is for; with the two swapped it fails.
`RowsTellDecisions` is the converse. While nothing is contested at most one
request is in flight and the task it has seen stays pending until it saves (`Serial`), so
what the workflow has been told comes from that request or from the one that decided the row;
an approval that a workflow without review starts with is outside the property.

**`Perturbation_proofs`.** `ResultsResolve`, `StampsLostByRaces` and the refinement
`PublicationImplemented`. The job row is read, changed and written back whole by
gateway and attempts, so `PertInv` speaks of the copies the attempts hold as well
(`Carried`), besides positions, artifact and versions: a version that a row or a copy
names is inserted. `NeverStranded` as above: here no step waits for the gateway's row.

**`Evaluation_proofs`.** `ReportsResolve` and `FailuresRecorded`. `EvalInv` orders the
except branch: it is taken instead of the last step (`Branches`); attempts of a step
begin one after the other (`Contiguous`); while no attempt was superseded, at most
one is under way and the earlier ones raised (`Orderly`, `OneReturned`), which is why
one attempt's scores stand alone; the failed status is the last write (`Recorded`).
`NeverStranded` as above, through the except branch.

**`Tables_proofs`.** Two invariants. `EvalInv` (a score of every judge that ran is a
number within 0..1 unless ratings ran wild, contexts are those the route builds)
gives `OracleIsAdvertised`, by comparing what each of the thirteen providers may ask
for with its catalog, and `OverallStaysAMean`. The latter needs sums over sets of
dimensions: finite-set recursion `SumOver` is characterised by induction on subsets
(`SubsetSteps`, `SumUnfolds`), then bounded above and below (`SumBounds`), then compared with
the extreme scores (`MeanBound`). `TableInv` (the sample is a rectangle, fields and
profile agree on it up to the edits, the published version keeps what it was made with) gives
`SyntheticVersionConforms`: clipping after the draw puts every number within bounds
(`ClipsIntoBounds`), columns that are not modelled are filled without the sample
(`FieldConforms`). The statement leaves out the two cases in which the code fails: the
INT64_MIN that stands for a null in an integer column, and a column that was
profiled as modelled and retyped afterwards. Further, `PerturbedVersionKeepsRows`: cell by cell for the families
(`CellKept`), row by row for bias (`RowsKeep`). Assumptions on the inputs: samples and versions are
tables (`SamplesAssumption`, `VersionsAssumption`), edits and specs are what the request
models admit (`EditsAssumption`, `SpecsAssumption`), a shard has a row
(`RowsAssumption`), statistics lie within 0..1, ratings and overrides are integers,
tasks are those of `TaskType`.

**`GraphQA_proofs`**, for every ontology, plan of consecutive shards, community map,
random graph, reply, intensity and choice of elements. `GraphInv` has a part for each
of the six properties of the `graph` run.

- `EnginesConform`: what the engine has built fits the ontology before the constraint layer
  adds its violations (`ShardWell`), an uploaded shard fits it but for the edges that were
  injected, which are its last ones (`StoreWell`), and merging two graphs whose nodes of
  one id have one type keeps it so (`DatasetWell`). Each engine has its lemma
  (`TopologyWell`, `AssembledFits`, `FilledWell`, `InjectedParts`). `Conforming` names the requests
  the code keeps the promise for: declarations without repeated or undirected
  relations for topology, any for the LLM engine. Node types and properties may repeat: a node is
  built from the last declaration and judged by the first, and an integer is promised its range
  where the two agree (`EngineReads`) and the minimum, cut to a whole number, is within it.
- `NoNodeIsLost`: the ids of a shard lie within its share of the plan (`InShare`), shares
  follow each other (`SharesFollow`), so the merged graph has the sum of the nodes (`NodesAddUp`). The block
  sizes of the default SBM add up to the share (`BlocksAddUp`), those of explicit blocks need
  not, which is the exclusion named in `NoNodeLost`.
- `RewiringPreservesDegrees`: a swap exchanges the targets of two positions, so a bijection of
  positions carries the edges into a node to those after the swap; the number of swaps
  is a fold over sets of edge lists.
- `JudgeSeesViolations`: a comparison of two functions of the source. Whatever
  `OntologyConstraintValidator` rejects, `OntologyConsistencyGraphJudge` fails
  (`RejectedFails`, `RejectedFlagged`), on nodes where every bound is a number; and every way `_violate_node` and `_violate_edge` break
  an element is one the judge sees (`ViolatedFlagged`, `RepointedFlagged`).
- `FixturesAreReal`: a walk in progress is a simple path of the graph (`WalkWell`, `LongerPath`),
  and so are the sampled paths and the path of every item (`PathsWell`, `ItemsWell`). The metric that
  follows a gold path edge by edge is a fold; its partial results are the single
  nodes of the path (`RetraceRuns`, `PathsRetraverse`). An edge looked up by id is the edge of the
  path only when ids are unique (`FoundById`).
- `FixturesDoNotContradict`: an item that denies a relation names a node without it in the
  index (`Denials`), and an edge of a path puts its node into the index (`CarriedNeighbor`).

The folds of the model (`SeqSum`, merging, adding edges, swapping, re-traversing) are recursions over
the positions of a sequence, the last one first. `FoldExists` shows that the recursion has a
solution and `FoldStays` that it stays within a set every step keeps; each fold then gets its lemma,
since no lemma can take the step as a parameter. Assumptions: `PlansAssumption`
(consecutive shards, none empty unless it is the only one: `PlanCorrect`), `OntologiesAssumption` (at most one
bound of a kind, a number or a whole number's numeral; no type has the name the model gives to what is not there),
`ViolationsAssumption` (no type or choice has the name a violation writes),
`HopsAssumption`.

**`Gateway_proofs`**, for every set of tenants, tokens, ids and slots, and any number
of requests. `GwInv`: ids are unique across tenants (`Unique`); what a slot works on
belongs to its tenant (`Held`); which copies are in step with which row (`Copies`,
`Exclusive`, `Staged`, `InStep`); what an artifact and an export object hold
(`Artifacts`, `Exports`). It gives `ReferencesHold`, `SamplesInStep` and
`ExportsMatch`. Each route is first reduced to what it does to rows, objects and slots
(`RowsStep`, `ObjectsStep`, `SlotsStep`), so that a part of the invariant is proved against
those. Action properties: `UnaskedChanges` (a column changes unasked only by an
overlap), `RolesLimit` (from the permission table alone, `WriteNeedsMember`,
`DeleteNeedsAdmin`), and `TenantsDoNotInterfere`: a step of one tenant adds, removes
and changes only rows and objects of its own (`OthersUntouched`), and the queries of
another caller therefore answer the same (`QueriesKept`, `AnswersKept`), with the row-level
policies and without. Assumptions: `IdsAssumption`, `TokensAssumption`,
`InitialIds`.

**`Stream_proofs`**, for every number of statuses, repeats and losses and every set of
requests. `EndIsNotLost`: once nothing is on its way, an open page shows the end of its job, with the
two exceptions of `Settles`. A quiet state says nothing of how it came about, so `StreamInv`
follows the end from `set_status` to the page: a page subscribed in time has it in the
queue or on the wire as long as its socket is open, one subscribed too late sees no older frame
(`Coming`); a snapshot that read the end is shown or about to be, for no frame that may
still come would replace it (`Seeded`); a closed socket means polling, an end shown, or one
overtaken (`Polled`); the handler ends only once the page is gone (`Handled`); and nobody knows
of a status that was not saved (`Behind`). Assumption: `LastAssumption`.

Model-checked only:

- liveness (`GateReleased`, `ParkedJobGetsTask`, `RunCloses`, `Completes`, `Settles`,
  `SubscriptionReleased`), which is out of the prover's reach. What is proved is the half of it
  that needs no fairness: `NeverStranded` for the three workflows and `EndIsNotLost` for the
  page say that no reachable state is stuck, so that fairness is all that is missing.

## Not modelled

- The statistics inside judges, fitted synthesizers and the from-sample graph engine (degree
  and distribution fitting): numerics over data frames, out of TLC's reach. When they
  apply, fail and what they may return is modelled.
- Language, image, audio and video providers and token verification: external services and
  libraries behind thin, stateless clients; their answers are inputs of the models.
- LFR's retries over seeds (`topology.py:153`): which seed wins depends on the wall
  clock; the model takes any community map.
- The ontology aligner's scores, SHACL and graph file formats, prompt wording, report layout:
  stateless conversions that no property here is about.
- Web pages other than the progress hook; infrastructure, migrations and settings.

## Plan

1. The composition of `Stream` with `Generation`, so that the statuses of the stream are those
   of abandoned attempts too.
2. The routing of the ontology aligner and the retries over LFR seeds as small modules.

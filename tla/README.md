# Formal models of python_dpo

`python_dpo` turns a set of Python problems into a preference-tuned model: it
samples candidate solutions, runs them in a sandbox, ranks them, builds
preference pairs, trains with DPO, evaluates the result against the base model,
analyses the errors and packages the adapter. An orchestrator (`pipeline/`)
drives these stages as one *experiment*; each stage also has commands of its own.
Everything lives on disk: run directories that hold JSON manifests (replaced
atomically) and JSONL record files (appended to). Nothing is locked, and signals,
kills and resumes may fall between any two writes. That is what this project is
about.

Source paths below are relative to `src/src/python_dpo/`.

## Inventory

| component | state | operations | what is hard | correct means |
|---|---|---|---|---|
| orchestrator: `pipeline/orchestrator.py`, `repository.py`, `manifest.py`, `state.py`, `cache.py` | experiment manifest, resolved config, nine stage manifests | `experiment run`, `resume`, `retry`, `--force` | signals, kills, a second driver, reuse across experiments, version changes between invocations | a completed experiment is one coherent build; a stage manifest never claims work it does not stand for; a stopped experiment shows where it stopped and can be resumed |
| stage graph: `pipeline/stages/__init__.py`, `cache.invalidate` | the declared edges | `validate_graph`, `topological_order`, `dependents_of` | loops over sets that change while they run | a legal order for any graph, cycles reported, `--force` reaches all dependents and nothing else |
| stage adapters: `pipeline/stages/*.py` | the run directory of a stage | `run(context)` | failure, signals handled inside, inputs the cache key leaves out | output depends on the key only |
| candidate generation: `generation/`, `candidates/`, `runs/`, `atomic_io.py`, `cli.py` | run manifest, `candidates.jsonl`, `failures.jsonl`, `prompts.jsonl`, `statistics.json` | `generate`, `generate --resume`, `runs validate`, `--repair` | torn appends, retries, resumes, status races | no pair is generated twice, lost or mislinked; a completed run owes nothing; a stopped run can be resumed |
| candidate evaluation: `evaluation/`, `cli.py` | run manifest, `evaluations.jsonl`, `test_results.jsonl`, `failures.jsonl`, `statistics.json` | `evaluate run`: create or take up the latest run, have every candidate judged, settle | an exception that no handler expects, kills between a result and its details, torn appends | every candidate gets one outcome; passed is only said of what passed every declared test |
| sandbox: `sandbox/` | a container, the two threads that read its output, the executor's view of both | `execute_job`: start, poll, kill, inspect, classify, remove | the deadline, the output limit, the program's end and Docker's failures race each other | every job ends with one classification and leaves no container behind |
| ranking: `ranking/`, `cli.py` | run manifest, `assessments.jsonl`, `rankings.jsonl`, `comparisons.jsonl` | `rank run`, `--resume`, `rankings validate` | two notions of better (integer counts and scores), interruption between the files, evidence the models refuse | ranks and comparisons agree; no candidate is ranked twice |
| preferences: `preferences/`, `cli.py` | run manifest, `metadata.jsonl`, `rejections.jsonl`, `split_manifest.json`, four dataset files | `preferences generate`, `--resume`, `preferences validate` | interruption between appends and between file replacements, resuming with another policy, caps and duplicates together | chosen beats rejected; every combination is recorded once; a text trains once; a problem is in one split |
| training: `training/`, `cli.py` | training runs (manifest, configuration, preflight, adapter, final report), one process per GPU | `train dpo`, `--resume`, `--force`, the `dpo_training` stage | the adapter is on disk before it is proven, a machine that fails late, signals, another configuration on resume | a completed run has a whole adapter, reloaded from disk, and an honest report; every run ends |
| packaging: `packaging/` | package directories, `models/registry.json` and its temporary file | `model package`, `model promote`, the `packaging` stage | read, change and write back without a lock; a package replaced before it is verified | what is registered was verified, what is RECOMMENDED has a report that passed |
| model evaluation: `model_evaluation/`, `cli.py` | benchmark manifest, evaluation runs (order, generations, judgements, report) | `evaluate-model benchmark build`, `run`, `report`, `compare`, the `model_evaluation` stage | a training run that is still being written, a dataset that drifts, samples that could not be measured | both variants answer the same problems with the same seeds; the numbers of one report agree |
| analysis: `analysis/` | an analysis run's directory | `analyze run`: classify, compare, cover, recommend, decide, refine | a second set of rules over the records of another stage; leakage of the benchmark | it agrees with the report it analyses; the refined dataset holds no benchmark problem |
| problems, models, prompts, configuration, CLI printing, logging | the problem dataset | load, validate, print | | |

`PROJECT.json` lists each component with its status and each hazard at its line.

How they interact: only through files. A stage names the run directory of the
stage before it and reads its JSONL files, most of the time without looking at
that run's status; the orchestrator passes the directories on as outputs of
stages, and reuses those of other experiments under a cache key. The one shared
file that several commands write is the registry.

## Modules

| module | what it is |
|---|---|
| `Orchestrator` | an experiment and the processes that drive it |
| `OrchestratorInvariants` | the inductive invariants of `Orchestrator` |
| `OrchestratorProofs` | types and provenance, for any number of overlapping drivers; with one driver per experiment also coherence, the shape of a stop, inputs, forcing and that completed experiments stay, proved |
| `StageGraph`, `StageGraphProofs` | `topological_order`, `validate_graph`, `dependents_of`, `invalidate` as a step-by-step algorithm, and three properties of it proved for every graph |
| `RunDirectory` | the abstract specification of a resumable run: opened once, outcomes recorded one at a time and never taken back, settled only when all are there |
| `Generation`, `RunValidation` | a generation run, the process that fills it, repair; what `runs validate` says of it in any state |
| `GenerationProofs` | one candidate per pair, links to the earliest, that completed runs are valid, and that `Generation` implements `RunDirectory`, proved |
| `Sandbox`, `Evaluation` | one job in a container; the evaluation run that sends its candidates there (extends `Sandbox`) |
| `EvaluationProofs` | one outcome each, what becomes of details, containers and verdicts, and that `Evaluation` implements `RunDirectory`, proved |
| `Ranking` | classification, comparison, ranks and tie groups as operators |
| `Preferences` | policies, pairs and rejections, the cap, duplicates, the split as operators (extends `Ranking`) |
| `Judging`, `JudgingProperties`, `JudgingProofs` | a ranking run and a preference run over it, the commands that fill and resume them; what their files must say; that ranks follow comparisons and the files say what they must, proved |
| `Validation` | `rankings validate` and `preferences validate` in any state of `Judging`; `JudgingProofs` extends it |
| `Training` | training runs and the processes that train |
| `Packaging` | packages, the registry, and the commands that package and promote (extends `Training`) |
| `Metrics` | pass@k, McNemar's test, per-problem comparison and the verdict as operators |
| `ModelEvaluation` | benchmarks, evaluation runs and the process that fills them, composed with training and packaging (extends `Packaging`, `Metrics`) |
| `PackagingProofs` | that a recommendation is earned, a completed training run proven and a completed evaluation paired, proved of `ModelEvaluation` |
| `Analysis` | what `analyze run` computes, in any state of `ModelEvaluation` |
| `AnalysisProofs` | that the numbers of a report are what they are called, and that an analysis agrees with the report, proved of any records on disk |
| `CommonLemmas` | lemmas on sequences, least members and finite sets that the proof modules share |
| `MC*` | small instances for TLC |

`Generation`, `Evaluation`, `Judging` and `ModelEvaluation` are the compositions:
each has the disk, the process or processes that write it, and what can happen to
them. They meet at the files: the evidence of `Judging` (`given`) is what a run of
`Evaluation` records, and the datasets of `Training` (`DataSets`) are what
`Judging` leaves, whole or not.

Operators whose comment says *Mutant* are plausible bugs in the definition that
follows them. No specification uses them; substituting one for the definition it
precedes must break a property.

### Orchestrator

The disk is `expStatus` (the status in the experiment's `manifest.json`),
`resolved` (`resolved_config.yaml`) and `manifest` (one `stage_manifest.json` per
stage; a missing file is PENDING). A driving process is a record `proc[p]`: where
it is in `run()`, the loop variable `cur`, the `upstream` dictionary `up`, the
`force_targets`. `made` is a history of adapter executions; an output is the index
of the execution that made it, so that two outputs are equal only if one execution
made them, or if a stage is in `Deterministic` and did the same work again.

Every action is one durable write or one decision between two writes:

| action | code |
|---|---|
| `Create`, `WriteResolvedConfig`, `Resume`, `StartRun`, `PolicyRefuses`, `SaveGit` | `_start`, `_resume` and the head of `run()` |
| `SkipDisabled`, `MissDependency`, `ReuseOwn`, `ReuseOther`, `BeginStage`, `AdapterSucceeds`, `AdapterFails`, `Advance` | `_run_one_stage` and the loop around it |
| `Interrupt`, `InterruptSwallowed`, `MarkCancelled`, `InterruptRun` | signals |
| `MarkFailed`, `BlockStage`, `FailRun` | failure, one blocked manifest at a time |
| `FinalizeRead`, `RecordStageRuns`, `CompleteRun` | `_finalize` |
| `Die` | a kill, or an exception that `run()` does not handle |

Abstractions: `update_status` reads, validates and writes in one step;
`find_reusable_stage` scans all experiments in one step; an atomic file
replacement is one step; a stage's configuration is one setting, and code version
and model version are one value; artifacts, lineage and reports are not modelled.
A cache key is the tuple the code hashes, so hash collisions do not happen. An
adapter's output depends on its key's inputs and setting. `MayOverlap` says
whether two processes may drive one experiment.

### StageGraph

The graph, the target of `--force` and the loop variables of the code are the
state. `NewRound`/`AppendReady` are one round of `topological_order`, which
runs twice: for `validate_graph` over all stages and for `invalidate` over the
target and its dependents. `Spread` is one pass of `dependents_of`.
`Orchestrator` numbers the stages by the resulting order and takes the cascade
as the least closed set, which `ForceIsCascade` says the algorithm computes.

### RunDirectory

Three actions over `phase` and `recorded`: `Open`, `Record(w)`, `SettleRun`.
`Generation` maps a pair to recorded when it has a candidate or a failure,
`Evaluation` a candidate when it has a result or a failure; both map the status to
`phase`. So that a step of either is one `Record` or a stutter, and never takes an
outcome back, repairs, torn files, resumes and faults included.

### Generation, RunValidation

The run directory, and the memory of one `generate` process. Candidates are a
sequence of lines, because order decides duplicate links; of the failure and
prompt logs only the slots they mention matter. An append is one step, and it may
also be cut short (`CutShort`): a fragment stays, and the next append is glued to
it. `_execute_run` settles the status in the order of its handlers (`StopRun`,
`AbortRun`, `WriteStatistics`, `WriteStatisticsLate`, `Settle`). `RunValidation`
adds no state: `ValidateRun` is the set of issues `validate_run` would raise now.

One process at a time fills a run. `resume_run` does not enforce that (it checks
the status and then writes it), and two racing resumes do generate pairs twice;
this is listed as a hazard. `Kill` also stands for an exception or a signal
outside of the `try` of `_execute_run`.

### Sandbox, Evaluation

`job[p]` is what the executor of process `p` knows, `box[p]` the container and
what the reader threads kept of its output. The container moves by itself.

| action | code |
|---|---|
| `StartContainer`, `DockerRefuses`, `CannotStart` | `docker run`, its own exit code 125, no docker at all |
| `Exited`, `Expire`, `Flooded` | the poll loop: the program ended, the deadline passed, the output limit was met |
| `DockerHangs` | a `docker kill` or `inspect` that does not answer |
| `Conclude` | inspect and `classify` |
| `Remove`, `RemoveFails` | the `finally` clause |
| `Signalled`, `Abandoned` | Ctrl-C while a job runs; the process is killed |
| `Say`, `CollectFails`, `Fill`, `OutOfMemory`, `Finish` | the container: a test reports, collection fails, output floods or is cut, the kernel kills it, it exits as it likes |
| `Create`, `TakeUp`, `StartRun`, `LoadKeys` | `_cmd_evaluate_run` finds the latest run of the generation run or makes one |
| `Skip`, `BeginJob`, `RecordFailure`, `Judge`, `SaveResult`, `SaveTest` | `evaluate_many` and `evaluate` for one candidate, one append at a time |
| `WriteStatistics`, `Settle`, `InterruptRun`, `Interrupt`, `Die` | the end of a run, and what may end it early |

`Derail` is an exception that nothing catches: the command ends, the status stays.
Time is not counted, so a deadline may pass at any moment. What a program prints
is told apart as far as `parse` tells it apart: what the tests reported in order,
a collection error, a tagged line that is not whole. One process at a time; two
that overlap would record a candidate twice (a hazard, and the named assumption of
the theorems). The `candidate_execution` stage is an invocation that never takes
up a run.

### Ranking, Preferences, Judging, Validation

`Ranking` and `Preferences` translate stages 7 and 8 as pure operators on the
evidence of a problem's candidates. `Judging` has the disk (`files`: the five
append-only files, as sequences of lines; the two run manifests; `split`;
`dataset`), and one command at a time (`proc`) that appends the lines of one
problem after the other, in the code's order (`IsNext`).

| action | code |
|---|---|
| `StartRanking`, `BeginRanking`, `ResumeRanking` | `create_run`, `start_run`, `resume_run` and the index of ranked problems |
| `ScoreProblem`, `RankProblem`, `AppendLine`, `EndRanking` | `_rank_problem_group` for one problem: assessments first, then rankings and comparisons; the end of `_cmd_rank_run` |
| `StartPairing`, `BeginPairing`, `ResumePairing` | the same of `_cmd_preferences_generate`; the policy, its margin and the cap are those of the invocation |
| `BuildProblem`, `RefuseProblem` | `build_problem`; a problem the dataset no longer has, or a candidate that was assessed twice |
| `Finalize`, `WriteSplit`, `WritePreferences`, `WriteSplitFile`, `EndPairing` | `_finalize_preference_run`, one file at a time, and the final status |
| `Interrupt` | the handlers of `KeyboardInterrupt` |
| `Die` | a kill, or a signal where nothing handles it |

`given` is what does not change meanwhile: evidence and code of every candidate,
the candidates the evaluation run was asked for (more than it has evidence of, if it
was cut short), and the problems the dataset has. A value of `source` is a code, `Gone` (no
record, or a record without hashes) or `Stale` (its prompt cannot be verified).
`torn` is a ghost: the problems that some command left half written. `Validation`
adds the checks of both validate commands as operators on this state; a line keeps
of an assessment or pair what it is about, and its numbers are those of the
evidence.

A policy is a name and the `minimum_score_margin` it is asked with, both of the
invocation that uses it; what a line of `metadata.jsonl` says of its policy includes
the margin, which the code leaves out of the line (a ghost that `PairsAreSound`
needs).

Abstractions: scores and margins are compared as exact fractions, shares and margins
are whole percents from 0, the code uses floats; the order of result and failure files is
that of candidate ids; the shuffle is a constant permutation for each number of
problems; `statistics.json` and `quality_report.json` are not modelled; one
ranking run and one preference run, since a run without `--resume` (or with
`--force`) writes a directory of its own; commands do not overlap. A torn last
line, which `Generation` models, is left out here: `_load` raises on it and these
stages have no repair, so a run with one is at its end. Starting a preference run
over a ranking run that is not completed is possible in the code and in the model.
The pipeline adapters `candidate_evaluation` and `preference_generation` run the
same steps without `--resume` and without the handlers.

### Training, Packaging

`Training` has the runs (`runs`, in the order of creation) with what their
directories hold, the preference dataset that may change between commands, and
the training processes; `Packaging` adds the package directories, the registry,
its temporary file, and the processes that package and promote while training
goes on.

| action | code |
|---|---|
| `Regenerate` | stage 8 writes its dataset again |
| `TrainDpo`, `CheckResume`, `RecordInputs`, `StartTraining` | the command up to `create_run`, `check_resume_compatibility`, the records of what is consumed, `start_run` |
| `RunPreflight`, `Train`, `BeginSave`, `SaveAdapter`, `VerifyAdapter`, `Raise` | `DpoTrainingJob.run`: every check before the first gradient, training, the adapter's directory in two steps, its reload from disk; each may raise |
| `FailRun`, `WriteFinalReport`, `CompleteTraining` | the end of a run, after `job.run` |
| `InterruptTraining`, `KillTraining` | Ctrl-C (the command handles it, the stage does not), SIGKILL |
| `Package`, `ClearPackage`, `CopyAdapter`, `DescribePackage`, `VerifyPackage`, `Register` | `package_and_verify`: the old adapter removed, the new one copied, the manifest, an answer that must pass in the sandbox, the entry |
| `Promote`, `ReadReport`, `Recommend` | `model promote`; for RECOMMENDED it reads the report of an evaluation run first |
| `OpenTemporary`, `WriteTemporary`, `Replace` | the three steps of `atomic_write_json` on the registry: truncate the temporary file, which has one name for all writers, fill it, move it |
| `KillPackager` | a kill, in the middle of a copy too |

Abstractions: a text is its number of tokens; what torch, peft and trl do is a
choice (`Machines`, `Raise`); whether a packaged whole adapter answers well is a
choice; no checkpoint is modelled, since `train --resume` never hands one over.
Quantization is a number of bits: whether it is `enabled` decides nothing, since
`check_hardware` requires it. The ids of a split are sets, as the splitter lists no
problem twice. A text is written in one step once the file is open. `torn` are the
files that hold a part of a text, or two texts mixed, which no reader can parse;
a file that was moved while a writer had it open is still written by that writer. A loss of
power, against which the code syncs, is not modelled.

### Metrics, ModelEvaluation

`Metrics` translates the numbers of a report as operators on sets of judged
samples, with exact fractions: rates, pass@k, McNemar's test, the comparison per
problem, the breakdowns, the verdict. `ModelEvaluation` has the benchmark, the
problem dataset it came from (`catalog`), the evaluation runs and the process that
fills one.

| action | code |
|---|---|
| `ChangeCatalog` | the problem dataset changes between commands |
| `BenchmarkBuild`, `OpenBenchmark` | `evaluate-model benchmark build`; load, drift and leakage checks of a run |
| `CreateEvaluation`, `RecordExperiment`, `StartEvaluation` | `create_run`, the manifest of what is compared, `start_run` |
| `LoadModel`, `Generate`, `Judge`, `NextVariant` | for each variant: load, then an answer per problem and sample, then a judgement of each answer with code; one record at a time |
| `RaiseInEvaluation`, `FailEvaluation`, `CompleteEvaluation`, `ReportRun` | the ends of a run |
| `ReportAgain` | `report`, `stats`, `compare` on any run there is |
| `InterruptEvaluation`, `KillEvaluation` | Ctrl-C, kill |

Abstractions: answers and sandbox results are choices; the bootstrap's resampling
is a choice of its outcome (`PairedBootstrap`, `Verdicts`); wording, timings and
memory are not modelled. There always is a split manifest, without which nothing
could have been trained. A run that was cut short before it recorded its configuration
is reported by the default criteria (`CriteriaOf`).

### Analysis

An analysis changes nothing it reads, so it is a set of operators on a state of
`ModelEvaluation`: categories of errors, outcomes per problem, coverage gaps,
recommendations, the decision, the refined dataset. What records leave open is
quantified over: which samples ran out of memory, whether answers collapsed, how
wide the confidence interval is, the training curve.

## Runs

| run | instance | shows |
|---|---|---|
| `two` | 2 drivers on 2 experiments, 3 invocations, 1 fault, forcing, two configurations and one whose parent is disabled; drivers symmetric | `TypeOK`, `Provenance`, `CompletedIsCoherent`, `StoppedShape`, `InputsAreOnDisk`, `ForceIsHonoured`, `CompletedIsFrozen`: while two experiments reuse each other's stages |
| `recovery` | 1 driver, 2 experiments, 4 invocations, 2 faults, 2 versions, a disabled leaf, a stage that swallows signals, the dirty-worktree policy, fairness | `ResumingCompletes`; and the result is one build (`CompletedIsCoherent`) |
| `graphs` | all 4096 loopless graphs of 4 stages, every target | `RequiredFirst`, `CycleIffCyclic`, `ForceIsCascade`, `Terminates` |
| `gen_run` | 3 slots of 2 problems, 2 codes, 2 attempts, 3 invocations, 2 faults | `NeverTwice`, `LinksToEarliest`, `CompletedIsValid`, `ResumingCompletes`, `IsDirectory` |
| `gen_restart` | the same | **violated**, `Restartable`: a killed run stays `running` for ever |
| `judging` | all evidence of 3 candidates of one problem; 2 and 3 problems with up to 2 faults; a lone candidate, a lost problem, refused evidence; an evaluation that was not finished; 3 policies, one with two margins and one capped at 2, changed at will on resume | `RanksAgree`, `RecordedOnce`, `PairsAreSound`, `NothingDropped`, `CapKeepsTheWidest`, `CompletedIsSplit`, `ValidatorsAgree`, `ResumingSettles` |
| `judging_leak` | 2 problems, 2 faults | **violated**, `TestIsHeldOut`: `train.jsonl` holds a problem of the test split |
| `evaluation` | 3 candidates, one of which cannot be built into a test, 2 tests, 2 invocations, 1 fault | `OneOutcomeEach`, `PassedIsEarned`, `DetailsFollow`, `NoOrphans`, `JobsEnd`, `ResumingCompletes`, `IsDirectory` |
| `evaluation_derail` | the same | **violated**, `CrashesAreResults`: a candidate stops the whole run |
| `models` | 2 training runs, 2 packagers, 1 model, 1 evaluation run, 2 commands, 1 fault, from three starting points | `TrainedIsProven`, `RecommendedOnEvidence`, `CompletedIsPaired`, `NumbersAgree`, `AnalysisAgrees`, `TrainingSettles`, `EvaluationsAreReported` |
| `repackaged` | from the second starting point | **violated**, `RegisteredIsThePackage` |
| `infrastructure` | from the third | **violated**, `InfrastructureIsNeutral` |

### Bounds

*Orchestrator.* Two siblings and a parent are the smallest graph where a stage can
be reused while its sibling is not and where a failure has both a dependent and an
independent stage behind it; two faults allow a fault during the recovery from a
fault. `recovery` needs one invocation more than faults per experiment, or the
bound would stop the operator. Four stages contain every diamond, two separate
cycles and a cycle with a tail; the proofs cover every size.

*Generation, evaluation.* Two slots share a problem, so that duplicate links
exist, and one does not; two faults are a torn append and a kill, or either during
the repair of the other. Of three candidates one cannot be built and stands
between the others; two tests make partial reports possible; one fault and two
invocations give a resume after each kind of stop. Docker's failures and what
the container does are not counted as faults and may happen in every job.

*Judging.* Three candidates are the fewest with two pairs of unequal margin, with a
tie beside a pair, and with duplicates of a training record; three problems are
the fewest that fill three splits, for which the ratios are 40/40/20 there
(80/10/10, the default, in the violated run, where two problems give one to train
and one to test). Two tests and a margin of 60 percent make the margin policy
differ from both others, and one of 40 percent from itself. Two faults allow one in a ranking run and one in the
preference run over it, or two in one of them. `Strictly` keeps the violated run
to the default policy.

*Models.* The whole life of a model is too long for one exploration, so there are
three starting points, each a state the program reaches: an empty project in which
runs are trained, with nobody to package or evaluate them; a run that was trained
and evaluated, with either verdict, registered or not, while a second run saves
its adapter, so that packaging meets a partial one; and one before its evaluation,
with no benchmark, a good one, or one that has drifted from the dataset. Two
packagers with two commands are the fewest that lose an update. One benchmark
problem leaks into training, one is edited later. Thresholds are scaled down with
the instance: pass@2 is the verdict's second number instead of pass@5 (`BroadK`), and
one problem instead of 30 is enough evidence for a decision.

Deadlock is not checked: all these systems stop when their bounds are used up or
nothing is left to do.

### Fairness

What a process does by itself is collected in one action (`Step` in `Orchestrator`
and `Generation`, `Work` in `Judging`, `Evaluate` in `Evaluation` and
`ModelEvaluation`, `Job` in `Training`), and weak fairness of it says that a
scheduled process goes on and that an adapter, a model call or `docker kill`
returns. Weak fairness of `Resume`, `CheckResume` and `TakeUp` is an operator who
resumes what can be resumed; in `Judging` it is strong fairness of
`ResumeRanking` and `ResumePairing`, since another command may run in between.
Nothing is assumed of containers (a program may run for ever: the deadline ends
it), of packagers, of new commands, or of faults except their number.

### What the violated runs say

* `gen_restart`: `resume_run` refuses status `running`, and a killed process
  leaves exactly that. `04_CANDIDATE_PERSISTENCE.md` promises that a run is
  restartable after a crash.
* `judging_leak`: Ctrl-C also writes the dataset files. When the resumed run is
  killed between `split_manifest.json` and `train.jsonl`, the two disagree, and
  `load_training_dataset` accepts them: it checks the manifest against itself and
  does not look at the status. `CompletedIsSplit` says that completed runs agree.
* `evaluation_derail`: a candidate that raises an exception without a message, or
  whose report is cut, or that meets two limits at once, raises an error of a type
  `evaluate_many` does not catch. The command ends with a traceback, the status
  stays `running`, and every resume meets the same candidate again. `evaluate`
  promises to raise for nothing the candidate did.
* `repackaged`: `model package` with the id of a registered model replaces the
  package before it is verified and before `register` refuses the id, so the entry
  speaks of a package that is gone.
* `infrastructure`: a variant whose samples of a problem all met an infrastructure
  error loses that problem in `compare` and in the solve rate, though
  `comparison.py` says such samples count neither way; McNemar's test and the
  bootstrap do leave them out.

### Worth knowing

Seen while modelling, stated nowhere as a promise of the code:

* A completed `rank run --limit` fails `rankings validate`, and a preference run
  that was resumed under another policy or margin may fail `preferences validate`;
  `ValidatorsAgree` says exactly when the validators are content.
* Nothing repairs a torn last line of `prompts.jsonl`; `CompletedIsValid` has it as
  its exception.
* A sample that passed every test and then ran out of time is solved for the
  analysis and not for `base_vs_dpo.json` (the exception of `AnalysisAgrees`); a
  side whose samples all met infrastructure errors scores 0 in the analysis.
* The taxonomy's `code_extraction_failure` cannot occur in an evaluation run's
  records.
* Leakage into the benchmark is checked by the stage, not by the command.
* Seeds of different problems collide beyond 1000 samples per problem (`SeedsFit`).
* A small `max_recommendations` can cut the one recommendation that carries the
  decision; with the default it cannot (`AnalysisAgrees`).
* A configured `compute_dtype` of `auto` is accepted and then fails every load.
* Two `model package` or `model promote` commands at once can leave
  `models/registry.json` half written, for a moment or, if one of them is killed, for
  good, though `atomic_io.py:29` says that a reader never sees a partial file. A command
  whose temporary file was moved by the other raises, although its text got in.

## Proofs

TLAPS checks the following for every value of the constants.

* `TypeCorrect`: `Spec => []TypeOK` of `Orchestrator`. The inductive invariant is
  `Typed`: `TypeOK` and that a process past the head of `run()` has an experiment,
  a plan and a stage to work on.
* `ProvenanceHolds`: `Spec => []Provenance`, also when drivers overlap.
  `Provenance` alone is not inductive: what a process carries in `up` and `result`
  becomes the inputs of the next execution. `ProvenanceInv` adds that
  (`Holds`). `MemoryStep` shows that the memory stays sound, `CompletedStep` that
  no other step writes a COMPLETED manifest, `ProvenanceAdapter` treats the
  adapter, where a deterministic stage may return an old output.
* `CompletedExperimentsAreCoherent`, `StoppedExperimentsShowWhere`,
  `AdaptersSeeTheDisk`, `ForcedStagesAreExecuted`, `CompletedExperimentsStay`: the
  other five properties of run `two`, under the premise `~MayOverlap` (one driver per
  experiment; with two they are false). None of them is inductive: what a stage may
  show depends on how far the loop of its driver is. `DriverInv` says so, per
  program point: `Behind` (the stages that were passed are done, with the outputs in
  `up`), `Driving` (what the disk shows of the stage at hand and of what `--force`
  invalidated) and `Shape` (what an experiment shows that nobody drives any more).
  `DriverWrite` and `DriverGoesOn` prove once that a step concerns one experiment,
  so that each action is left with its own; `WritesStayHome` gives the last theorem.
  `DriverInv` needs `ProvenanceInv`: a reused output is one that was made.
* `OrderRespectsRequirements`, `CyclesAreFound`, `ForceInvalidatesTheCascade`:
  for every graph, from one invariant `GraphInv` that relates the loop variables:
  what is ordered and what remains partition the universe, a stage waits exactly
  for its remaining requirements, and the frontier is where the dependents found
  so far are not closed yet.
* `PairsAreGeneratedOnce`, `LinksNeverChain`: `Spec => []NeverTwice` and
  `[]LinksToEarliest` of `Generation`. Both rest on what the process read when it
  began (`existing`, `index`), so `IInv` says that this stays the truth about the
  file while the loop runs (`Aware`), that the file has one line per slot
  (`Single`) and that links go to the earliest line (`Linked`); a fragment at the
  end of the file ends the process that left it. That a least line exists is
  well-foundedness of `<` on the naturals.
* `OutcomesStaySingle`: `Spec => []OneOutcomeEach` of `Evaluation`, for processes
  that come one at a time (`OneAtATime`). What is recorded is what existed at load
  or is behind the loop variable (`Behind`).
* `GenerationIsDirectory`, `EvaluationIsDirectory`: both implement `RunDirectory`,
  every step a `Record`, an `Open`, a `SettleRun` or a stutter. Completeness of a
  settled run is an equality of cardinalities in `Generation`, and the end of the
  loop in `Evaluation`.
* `CompletedRunsAreValid`: `Spec => []CompletedIsValid` of `RunValidation`.
  `ValidInv` follows `statistics.json` from the handler that writes it to the last
  status change (`Counted`: it is what the records add up to), and says of
  `prompts.jsonl` that it covers what was recorded unless it was torn (`Prompted`).
  `Recorded = Slots` at completion comes from the proof of `IsDirectory`.
* `ContainersAreRemoved`, `PassesAreEarned`: `NoOrphans` and `PassedIsEarned` of
  `Evaluation`, for any number of processes at once. `SandboxInv` is types and
  `NoOrphans`: a container exists only while its job is in flight, and each one left
  behind is paid for by a fault. `EarnedInv` says of a result that waits in a
  process what `PassedIsEarned` says of a recorded one.
* `DetailsAreKept`: `DetailsFollow` of `Evaluation`, under `OneAtATime`.
  `DetailsInv` counts what the process still has to append together with what is in
  the file (`Expected`), so that only a fault or a line glued to a fragment makes
  a candidate one of the `Lost`.
* `RankFollowsComparison`: for any finite set of candidates with equal totals and
  assessable evidence, the rank says of two candidates what the comparator says,
  tie groups included. The lemmas show that the integer key of the sort and the
  score agree (`KeyIsScore`), that the candidates above a better one are fewer
  (`BetterRanksFirst`), and that ties have the same candidates above them.
* `RunsStayTyped`, `PairsStaySound`, `RanksStayInAgreement`: `Spec => []RunsTyped`,
  `[]PairsAreSound` and `[]RanksAgree` of `Judging`. None is inductive alone, since
  lines wait in the process before they are appended. `IInv` says of every line,
  in a file or waiting, that it is `Good`: what it says follows from the evidence,
  which never changes. That a comparison is only ever written of a problem whose
  evidence was accepted (`ScoredIsAssessable`) is what connects `RanksAgree` to
  `RankFollowsComparison`.
* `NothingIsRecordedTwice`, `CapAlwaysKeepsTheWidest`, `NothingIsDropped`:
  `RecordedOnce`, `CapKeepsTheWidest` and `NothingDropped` of `Judging`. A problem
  is judged in memory and its lines are appended one by one, in any number of
  interrupted attempts, so `LogInv` speaks of the lines on disk and the pending ones
  together: the pending ones are of the problem at hand (`AtWork`), none of them is
  on disk (`TodoIsNew`), the keys of both together are single (`KeysAreNew`), the cap
  was applied to both (`CapIsKept`), and a problem that was begun has all it needs
  in one of the two unless an invocation was cut short in it (`WholeUnlessTorn`).
  An append changes none of this; only beginning a problem and stopping do.
* `CompletedStaysSplit`: `[]CompletedIsSplit`. `SplitInv` says which of the dataset
  files agree with the split at each point of the end of `preferences generate`
  (`FilesUpTo`). The shuffle is any permutation.
* `ValidatorsAlwaysAgree`: `[]ValidatorsAgree`. `JudgedInv` connects the manifest of
  the ranking run to its lines (`ManifestFollows`), rankings to assessments
  (`RankedIsAssessed`, `AssessedOnce`), and pairs to assessed candidates, with no
  text in two training records (`PairsAreNew`). `RankingChecks` and `PreferenceChecks` first turn each
  validator, a union of issues, into the conjunction of what it asks for.
* `CompletedTrainingIsProven`: `ModelsSpec => []TrainedIsProven`, for any number of
  trainers, also while runs are evaluated and packaged. `TrainingInv` says what the
  directory of a run shows at each point of the process that trains it (`Stage`),
  that a run without a process is `Sound`, and that no two processes train one run.
* `CompletedEvaluationsArePaired`: `SeedsFit` gives `ModelsSpec => []CompletedIsPaired`.
  `PairedInv` has the schedule of a run as a function of what was fixed when it was
  created: the answers so far are an initial part of it, the judgements an initial part of
  the answers with code. The problem set may change at any moment and does not
  matter. `SeedsFit` is needed: a problem's seeds are an arithmetic progression
  of stride 1000, and 1001 samples of a problem would share one with the next.
* `RecommendationsAreEarned`: `ModelsSpec => []RecommendedOnEvidence`, for any
  number of commands at once. The registry is read, carried in a process, written
  to a temporary file and moved over the registry, possibly by another process
  and much later. `Seen` holds of all three copies, and it cannot be spoiled while
  they wait, because the runs with a whole adapter and the reports that once
  passed only grow. A file that two writers spoilt is in `torn`, and nothing is
  decided on it; what a writer still puts into the file it has open is as evident as
  what it carries.

* `NumbersAlwaysAgree`: `ModelsSpec => []NumbersAgree`. It has `PairedInv`, too, for
  what is on disk: finitely many records, one per problem and sample, each judgement
  of an answer (`RecordsMatch`). The rest is about numbers, and each part shows that
  two ways of counting agree:
  * pass@k is a closed formula in the code and the share of k-subsets that hold a
    correct sample in the property. Among the sets whose k-subsets were not
    `n! / (k! (n - k)!)` many there would be a smallest; its k-subsets with and
    without one of its members are those of smaller sets (`SubsetsSplit`), and
    `PascalsTriangle` contradicts that (`SubsetsOfSize`).
  * A mean over a set is a fold in an order that nothing fixes. `SumExists` shows
    that the fold has a value and `SumsAgree` that folds of equal fractions are equal,
    by a least counterexample among the subsets.
  * `TailIsTosses` and `FewHeadsFewTails` turn the tail of the binomial into sets of
    tosses, and `TwoTails` says where doubling the tail counts the even split
    twice, which is where the code caps p at 1 (`McNemarsTest`).
  * `CountsAddUp`: what is counted by class is counted once.
* `AnalysesAgree`: with a `max_recommendations` of at least 6, or 5 with the default
  weights (`RoomForCarrier`), `ModelsSpec => []AnalysisAgrees`. `ProfilesMatch` and `OutcomesMatch` relate the two
  stages' different rules for one run (the best rate is reached by some sample:
  `BestRate`), `RefinedAvoidsBenchmark` the dataset to the benchmark, and
  `DecisionsAreCarriedOut` the decision to the list of recommendations. The premise is
  needed for that one. There are seven recommendations, and mode collapse and
  regressions share a decision, so five others at most can be ahead of both
  (`FiveAreFew`); two others never go with `refine_data` or `expand_benchmark`. With
  the default weights one fewer is ahead (`FewAreAhead`, `FourAreFew`). The default
  is 10 places.

The assumptions are the ones named in the modules:

* `Orchestrator`, `StageGraph`: the edges of the graph respect the numbering of
  stages, every plan covers every stage.
* `Generation`, `Sandbox`, `Evaluation`: slots, candidates and tests are finitely
  many, numbered without gaps; a fragment is no candidate.
* `Judging`: candidates are finitely many pairs of numbers, their evidence passes at
  most the declared tests (`ScenariosAssumption`); a shuffle is a permutation
  (`ShuffleAssumption`); the value for a missing file is not a set of pairs
  (`NoFileAssumption`); nothing was evaluated that was not asked for; percentages add up to at most 100.
* `Training`, `Packaging`, `ModelEvaluation`: settings are integers
  (`ConfigsAssumption`, `ExperimentsAssumption`, `EvaluationsAssumption`); a dataset
  holds sequences of records (`DataSetsAssumption`), a catalog finitely many problems
  (`CatalogsAssumption`); a sandbox result counts each test once
  (`ResultsAssumption`); the absent value names no evaluation run.

`OneAtATime`, `SeedsFit`, `RoomForCarrier` and, where it is named, `~MayOverlap` are premises of the
theorems themselves. TLC evaluates the assumptions in each run.

Every invariant, action property and refinement of the passing runs is
stated by a theorem. Only model-checked is liveness under fairness (`Terminates`,
`ResumingCompletes`, `ResumingSettles`, `JobsEnd`, `TrainingSettles`,
`EvaluationsAreReported`), which TLAPS does not handle. Induction over data is
avoided throughout: where a sum, a factorial or a fold is a recursion, its value
is named by a witness function, and what holds of all sizes has no least
counterexample (`LeastOf`).

## Plan

What is left, in this order:

1. An abstract `Experiments` (create, complete, stop, resume) implemented by
   `Orchestrator`.
2. `StageInputs`: what each adapter reads against what its cache key covers.
3. Two resumes of one generation, evaluation or ranking run at once.

## Not modelled

* Text: prompts, strategies, extraction of code, generated tests, wording of
  reports. Their results are model values or choices.
* Language models, torch, peft, trl, Docker and the sandboxed program: external;
  they answer, raise, or do as they like.
* Configuration parsing, printing, logging, listing commands, the container image:
  no state of their own.
* The problem dataset's loader: one command writes it; it is a constant, or
  changes between commands (`ChangeCatalog`).
* Report files of an experiment after `complete_run`, `experiment cancel`,
  `delete`, `export` and `--dry-run`.
* What an adapter reads beyond its cache key, and overlapping processes on one
  generation, evaluation or ranking run: both are hazards in `PROJECT.json`, with
  what goes wrong.
* `statistics.json`, `quality_report.json`, metric lines of the trainer, merged
  models and the cache of `model_evaluation/cache.py`, which nothing consults.

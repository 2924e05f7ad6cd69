------------------------------ MODULE MCModels ------------------------------
(* A small instance of ModelEvaluation, with Training, Packaging and Analysis: what is trained, *)
(* on what, on which machine, how it is evaluated, and what an analysis knows besides.          *)
EXTENDS Analysis

Config ==
  [bits |-> 4, dtype |-> "bfloat16", r |-> 16, targets |-> {"q_proj", "v_proj"},
   maxLength |-> 8, maxPrompt |-> 4, epochs |-> 2, batch |-> 2, maxSteps |-> 5,
   maxTruncation |-> 50, evalStrategy |-> "steps", distributed |-> FALSE]

SomeConfigs ==
  [usual   |-> Config,
   small   |-> [Config EXCEPT !.r = 8, !.dtype = "auto"],
   refused |-> [Config EXCEPT !.maxPrompt = 8]]

Ask(cli, mode, config, resume) ==
  [cli |-> cli, mode |-> mode, config |-> config, allowSmall |-> ~cli, override |-> FALSE,
   resume |-> resume, force |-> ~cli]

\* A dry run that resumes, a smoke test, a configuration that is refused, and a stage.
SomeCommands ==
  [resume |-> Ask(TRUE, "dry_run", "small", TRUE),
   smoke  |-> Ask(TRUE, "smoke_test", "usual", FALSE),
   typo   |-> Ask(TRUE, "train", "refused", FALSE),
   stage  |-> Ask(FALSE, "train", "usual", FALSE)]

Pair(p, c, r) == [prompt |-> p, chosen |-> c, rejected |-> r]
Problems      == [train |-> {1, 3}, validation |-> {2}, test |-> {4}]
Good          == [records |-> [train |-> <<Pair(2, 3, 4), Pair(2, 7, 3)>>,
                               validation |-> <<Pair(1, 2, 3)>>, test |-> <<Pair(1, 1, 2)>>],
                  problems |-> Problems, provenance |-> TRUE]

\* One that is fine, one whose pairs are longer, with no validation pair, and two that are
\* refused.
SomeDataSets ==
  [good  |-> Good,
   long  |-> [Good EXCEPT !.records.validation = <<>>, !.records.train = <<Pair(4, 6, 7)>>],
   twin  |-> [Good EXCEPT !.records.train = <<Pair(2, 3, 3)>>],
   leaky |-> [Good EXCEPT !.problems.test = {1}]]

Machine == [cuda |-> TRUE, vram |-> TRUE, bitsandbytes |-> TRUE, bf16 |-> TRUE, pad |-> FALSE,
            eos |-> TRUE,
            causal |-> TRUE, positions |-> 8, modules |-> {"q_proj"}, trainable |-> "some"]

SomeMachines == {Machine, [Machine EXCEPT !.bf16 = FALSE], [Machine EXCEPT !.trainable = "all"]}

\* Two problems with one sample each, and one problem with two; a configuration whose pass@k
\* wants more samples than it takes, and one with a dtype that no runner can load.
Experiment ==
  [samples |-> 1, temperature |-> 1, sampling |-> TRUE, bits |-> 4, dtype |-> "bfloat16",
   ks |-> {1}, seed |-> 1000, criteria |-> [minimumImprovement |-> 2, maximumAllowedRegression |-> 2]]

SomeExperiments ==
  [wide |-> Experiment,
   deep |-> [Experiment EXCEPT !.samples = 2, !.ks = {1, 2}, !.criteria.minimumImprovement = 10],
   bad  |-> [Experiment EXCEPT !.ks = {1, 2}],
   auto |-> [Experiment EXCEPT !.dtype = "auto"]]

Want(cli, experiment, model, smoke, limit, build) ==
  [cli |-> cli, experiment |-> experiment, model |-> model, smoke |-> smoke, limit |-> limit,
   build |-> build]

SomeEvaluations ==
  [wide  |-> Want(TRUE, "wide", "both", FALSE, 0, FALSE),
   deep  |-> Want(FALSE, "deep", "both", FALSE, 1, FALSE),
   build |-> Want(FALSE, "wide", "both", FALSE, 1, TRUE),
   smoke |-> Want(TRUE, "deep", "dpo", TRUE, 0, FALSE),
   bad   |-> Want(TRUE, "bad", "both", FALSE, 0, FALSE),
   auto  |-> Want(TRUE, "auto", "base", FALSE, 1, FALSE)]

\* The third problem is a training problem; the second state of the dataset edits the fifth.
SomeCatalogs == <<[p \in {3, 4, 5} |-> "text"], [p \in {3, 4, 5} |-> IF p = 5 THEN "edited" ELSE "text"]>>

Result(status, passed, failed, skipped) ==
  [status |-> status, passed |-> passed, failed |-> failed, errors |-> 0, skipped |-> skipped,
   total |-> passed + failed + skipped, import |-> FALSE]

\* A candidate may skip its own tests, which fails it.
SomeResults == {Result("passed", 2, 0, 0), Result("failed", 1, 0, 1), Result("timeout", 2, 0, 0),
                Result("infrastructure_error", 0, 0, 0)}

\* Pairs of a training problem that is still known, of one that is not, and of a held-out one.
Preferred(p, margin) == [problem |-> p, margin |-> margin, twins |-> FALSE, indeterminate |-> FALSE]
SomePreferences ==
  [good |-> {Preferred(1, 50), Preferred(3, 100), Preferred(3, 10), Preferred(4, 50)},
   long |-> {Preferred(3, 100)}, twin |-> {}, leaky |-> {Preferred(1, 50)}]

SomeAttributions ==
  {[category   |-> [p \in 3..5 |-> CASE p = 3 -> c [] p = 4 -> "strings" [] OTHER -> "arrays"],
    difficulty |-> [p \in 3..5 |-> IF p = 4 THEN "medium" ELSE "easy"]] : c \in {"arrays", "graphs"}}
  \cup {[category |-> [p \in 3..5 |-> "graphs"], difficulty |-> [p \in 3..5 |-> "easy"]]}

\* Losses by step: one step logged twice, as training that is resumed may, and two steps.
Point(step, loss) == [step |-> step, loss |-> loss]
SomeCurves == {[train |-> <<Point(1, 2), Point(1, 3)>>, eval |-> <<>>],
               [train |-> <<Point(1, 2), Point(2, 1)>>, eval |-> <<Point(1, 1), Point(2, 2)>>]}

UsualSettings ==
  [regression |-> 20, under |-> 50, over |-> 200, minimumProblems |-> 1, maxRecommendations |-> 10,
   weights |-> DefaultWeights, minimumMargin |-> 20, dropDuplicates |-> TRUE, dropInfrastructure |-> TRUE]

-----------------------------------------------------------------------------
(* Three starting points: an empty project whose models nobody packages or evaluates yet; one *)
(* where a run has been trained and evaluated, with either verdict, and a second run is just    *)
(* saving its adapter, the model being unknown to the registry or validated there; and one      *)
(* before the evaluation, where the second run failed as it saved its adapter.                  *)

Trained ==
  [NewRun(SomeCommands.stage) EXCEPT
     !.data = "good", !.status = "completed", !.recorded = TRUE, !.adapter = "whole",
     !.report = [steps |-> 5, evaluated |-> TRUE, dtype |-> "bfloat16", reload |-> TRUE]]

Saving == [NewRun(SomeCommands.stage) EXCEPT
             !.data = "good", !.status = "running", !.recorded = TRUE, !.adapter = "partial"]

\* Evaluated on one problem, which DPO solved or both did not.
Answer(v) == [problem |-> 4, sample |-> 0, seed |-> 1000, prompt |-> "text", status |-> "generated",
              syntax |-> TRUE]
Verdict(status) ==
  [problem |-> 4, sample |-> 0, status |-> status, passed |-> IF status = "passed" THEN 2 ELSE 1,
   failed |-> IF status = "passed" THEN 0 ELSE 1, errors |-> 0, skipped |-> 0, total |-> 2,
   type |-> IF status = "passed" THEN "none" ELSE "assertion_failure"]
Evaluated(status) ==
  [status |-> "completed", run |-> 1, cmd |-> "wide", order |-> <<4>>, catalog |-> 1, benchmark |-> {4, 5}, samples |-> 1,
   ks |-> {1}, seed |-> 1000, criteria |-> Experiment.criteria, models |-> <<"base", "dpo">>,
   recorded |-> TRUE, error |-> FALSE, generations |-> [v \in ModelVariants |-> <<Answer(v)>>],
   judgements |-> [base |-> <<Verdict("failed")>>, dpo |-> <<Verdict(status)>>],
   reported |-> TRUE]

Untrained ==
  TrainingInit /\ PackagingInit /\ EvaluationInit /\ catalog = 1 /\ commands = MaxCommands

AfterEvaluation ==
  /\ dataset = "good" /\ faults = 0 /\ commands = 0
  /\ runs = <<Trained, Saving>>
  /\ trainer = [t \in Trainers |-> [pc |-> "saving", run |-> 2, cmd |-> "stage", data |-> "good",
                                   dtype |-> "bfloat16"]]
  /\ temporary = None /\ torn = {}
  /\ packager = [p \in Packagers |-> IdlePackager]
  /\ catalog = 1 /\ benchmark = None /\ evaluator = IdleEvaluator
  /\ \E s \in {"passed", "failed"}, registered \in BOOLEAN :
       LET whole == [run |-> 1, state |-> "whole"] IN
       /\ s = "failed" => registered
       /\ packages = [m \in Models |-> IF registered THEN [adapter |-> whole, manifest |-> 1] ELSE NoPackage]
       /\ registry = [m \in Models |->
            IF registered THEN [RegistryEntry(1, whole) EXCEPT !.status = "VALIDATED"] ELSE None]
       /\ evaluations = [e \in EvaluationRuns |-> Evaluated(s)]
       /\ reports = [e \in EvaluationRuns |->
                       [now |-> IF s = "passed" THEN "success" ELSE "failure", ever |-> s = "passed"]]

\* There is no benchmark, there is one, or there is one that the dataset has drifted from.
BeforeEvaluation ==
  /\ PackagingInit /\ dataset = "good" /\ faults = 0 /\ commands = MaxCommands - 1
  /\ runs = <<Trained, [Saving EXCEPT !.status = "failed", !.error = TRUE]>>
  /\ trainer = [t \in Trainers |-> IdleTrainer]
  /\ catalog = 1 /\ evaluator = IdleEvaluator
  /\ benchmark \in {None} \cup {BuildBenchmark(c, {4, 5}) : c \in {SomeCatalogs[1], SomeCatalogs[2]}}
  /\ evaluations = [e \in EvaluationRuns |-> None]

MCSpec ==
  /\ Untrained \/ AfterEvaluation \/ BeforeEvaluation
  /\ [][ModelsNext]_mvars
  /\ Progress /\ EvaluationProgress

\* From the second starting point only, and from the third.
AfterSpec  == AfterEvaluation /\ [][ModelsNext]_mvars
BeforeSpec == BeforeEvaluation /\ [][ModelsNext]_mvars
=============================================================================

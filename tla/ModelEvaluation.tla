--------------------------- MODULE ModelEvaluation ---------------------------
(***************************************************************************)
(* Base against DPO: `evaluate-model run` and the model_evaluation stage   *)
(* resolve a benchmark, have each requested variant answer every problem   *)
(* of it on one schedule of seeds, judge the answers in the sandbox, and   *)
(* write a report, on whose verdict `model promote` relies.  The adapter   *)
(* is the one in the training run's directory, which may still be written. *)
(*                                                                         *)
(* What a model answers, and how an answer fares in the sandbox, is a      *)
(* choice.  The base runner and the DPO runner never are in memory at once.*)
(***************************************************************************)
EXTENDS Packaging, Metrics

CONSTANTS
  Experiments,    \* name of an evaluation configuration -> what it says
  Evaluations,    \* name of an evaluation command -> its configuration and flags
  Catalogs,       \* a state of problems.jsonl -> the text of each problem, by id
  Answers,        \* what an answer may be: "none", "broken" or "code"
  Results,        \* what the sandbox may say of code that compiles
  SeedStride      \* 1000 in the code

ASSUME EvaluationAssumption ==
  /\ SeedStride \in Nat \ {0}
  /\ \A x \in DOMAIN Evaluations : Evaluations[x].experiment \in DOMAIN Experiments

VARIABLES
  catalog,     \* problems.jsonl, now
  benchmark,   \* benchmarks/<name>/manifest.json
  evaluations, \* data/model_evaluations/runs
  evaluator    \* the one process that evaluates

evars == <<catalog, benchmark, evaluations, evaluator>>
mvars == <<vars, evars>>

ModelVariants == {"base", "dpo"}

ASSUME ExperimentsAssumption ==
  \A x \in DOMAIN Experiments :
    /\ {"samples", "seed", "ks", "criteria"} \subseteq DOMAIN Experiments[x]
    /\ Experiments[x].samples \in Int /\ Experiments[x].seed \in Int /\ Experiments[x].ks \subseteq Int
    /\ Experiments[x].criteria.minimumImprovement \in Int
ASSUME EvaluationsAssumption ==
  \A x \in DOMAIN Evaluations : /\ Evaluations[x].model \in ModelVariants \cup {"both"}
                                /\ Evaluations[x].limit \in Int
                                /\ Evaluations[x].smoke \in BOOLEAN
ASSUME CatalogsAssumption ==
  \A c \in DOMAIN Catalogs : IsFiniteSet(DOMAIN Catalogs[c]) /\ DOMAIN Catalogs[c] \subseteq Nat
ASSUME ResultsAssumption ==
  \A r \in Results :
    /\ r.status \in {"passed", "failed", "timeout", "syntax_error", "infrastructure_error"}
    /\ {r.passed, r.failed, r.errors, r.skipped} \subseteq Nat
    /\ r.passed + r.failed + r.errors + r.skipped = r.total
    /\ r.import \in BOOLEAN

RUN_STATUS_TRANSITIONS(s) ==
  CASE s = "created"     -> {"running", "cancelled"}
    [] s = "running"     -> {"running", "completed", "failed", "interrupted", "cancelled"}
    [] s = "interrupted" -> {"running", "cancelled"}
    [] s = "failed"      -> {"running"}
    [] OTHER             -> {}

-----------------------------------------------------------------------------
(* The configuration. *)

GenerationSettings(x) ==
  x.samples > 0 /\ x.seed >= 0 /\ x.temperature >= 0 /\ (x.sampling => x.temperature > 0)

ModelQuantization(x) == x.bits \in {4, 8} /\ x.dtype \in COMPUTE_DTYPES

StatisticsSettings(x) == x.ks # {} /\ \A k \in x.ks : k > 0

NonNegativeCriteria(x) ==
  x.criteria.minimumImprovement >= 0 /\ x.criteria.maximumAllowedRegression >= 0

\* pass@k cannot be told from fewer than k samples.
EvaluationExperimentConfig(x) ==
  /\ GenerationSettings(x) /\ ModelQuantization(x) /\ StatisticsSettings(x)
  /\ NonNegativeCriteria(x)
  /\ \A k \in x.ks : k <= x.samples

\* A smoke test takes one sample, and what one sample can tell.
Resolved(cmd) ==
  LET x == Experiments[cmd.experiment] IN
  IF ~cmd.smoke THEN x
  ELSE [x EXCEPT !.samples = 1,
                 !.ks = IF @ \cap {1} # {} THEN @ \cap {1} ELSE {1}]

ModelsRequested(cmd) == IF cmd.model = "both" THEN <<"base", "dpo">> ELSE <<cmd.model>>

-----------------------------------------------------------------------------
(* The benchmark. *)

\* Its hash is the content of the problems it names.
BuildBenchmark(content, ids) == [p \in ids |-> content[p]]

LoadBenchmark(b, content) ==
  /\ b # None
  /\ DOMAIN b \subseteq DOMAIN content
  /\ \A p \in DOMAIN b : b[p] = content[p]

CheckLeakage(b, d) ==
  DOMAIN b \cap (d.problems.train \cup d.problems.validation) = {}

\* A finite set of numbers in ascending order.
Ascending(S) == [i \in 1..Cardinality(S) |-> CHOOSE x \in S : Cardinality({y \in S : y <= x}) = i]

\* Sorted by id, and cut by --limit or the smoke test's three.
OrderedProblems(b, cmd) ==
  LET ordered == Ascending(DOMAIN b)
  IN  IF cmd.smoke THEN AtMost(3, ordered)
      ELSE IF cmd.limit > 0 THEN AtMost(cmd.limit, ordered) ELSE ordered

\* compute_seed: the variant has no part in it.
ComputeSeed(base, problemIndex, sample) == base + problemIndex * SeedStride + sample

-----------------------------------------------------------------------------
(* The run's directory. *)

NewEvaluation(w) ==
  LET x == Resolved(Evaluations[w.cmd]) IN
  [status |-> "created", run |-> w.run, cmd |-> w.cmd,
   order |-> OrderedProblems(w.benchmark, Evaluations[w.cmd]), catalog |-> w.catalog,
   benchmark |-> DOMAIN w.benchmark,
   samples |-> x.samples, ks |-> x.ks, seed |-> x.seed, criteria |-> x.criteria,
   models |-> ModelsRequested(Evaluations[w.cmd]), recorded |-> FALSE, error |-> FALSE,
   generations |-> [v \in ModelVariants |-> <<>>],
   judgements |-> [v \in ModelVariants |-> <<>>], reported |-> FALSE]

IdleEvaluator == [pc |-> "idle", cmd |-> None, run |-> 0, catalog |-> None, benchmark |-> None,
                  evaluation |-> None, variant |-> 0]

EAt(pc)   == evaluator.pc = pc
EGoTo(pc) == evaluator' = [evaluator EXCEPT !.pc = pc]
ELeave    == evaluator' = IdleEvaluator
This      == evaluations[evaluator.evaluation]
Variant   == This.models[evaluator.variant]

\* ModelEvaluationManifest.with_status and update_status.
UpdateEvaluation(s) ==
  /\ s = This.status \/ s \in RUN_STATUS_TRANSITIONS(This.status)
  /\ evaluations' = [evaluations EXCEPT ![evaluator.evaluation].status = s]

Elsewhere == UNCHANGED <<tvars, packages, registry, temporary, torn, packager>>
Alone     == Elsewhere /\ UNCHANGED <<reports, commands>>

EvaluationInit ==
  /\ catalog \in DOMAIN Catalogs
  /\ benchmark = None
  /\ evaluations = [e \in EvaluationRuns |-> None]
  /\ evaluator = IdleEvaluator

Spend == commands < MaxCommands /\ commands' = commands + 1

\* Bound: what leads to an evaluation run happens while one can be created.
Vacant == \E e \in EvaluationRuns : evaluations[e] = None

\* The problem dataset is written again.
ChangeCatalog ==
  /\ Vacant /\ Spend
  /\ catalog' \in DOMAIN Catalogs \ {catalog}
  /\ Elsewhere /\ UNCHANGED <<reports, benchmark, evaluations, evaluator>>

\* benchmark build, with --exclude-preference-run-id or over all problems.
BenchmarkBuild ==
  LET content  == Catalogs[catalog]
      excluded == DataSets[dataset].problems.train \cup DataSets[dataset].problems.validation
  IN  /\ Vacant /\ Spend
      /\ \E ids \in {DOMAIN content, DOMAIN content \ excluded} \ {{}} :
           benchmark' = BuildBenchmark(content, ids)
      /\ Elsewhere /\ UNCHANGED <<reports, catalog, evaluations, evaluator>>

\* The command up to the benchmark.  When it does not load the stage may build it anew, over
\* every problem; otherwise the command is refused.
OpenBenchmark(k, r) ==
  LET cmd     == Evaluations[k]
      content == Catalogs[catalog]
      found   == IF LoadBenchmark(benchmark, content) THEN benchmark
                 ELSE BuildBenchmark(content, DOMAIN content)
  IN  /\ EAt("idle")
      /\ Vacant /\ Spend
      /\ EvaluationExperimentConfig(Resolved(cmd))
      /\ LoadBenchmark(benchmark, content) \/ (~cmd.cli /\ cmd.build)
      /\ DOMAIN found # {}
      /\ benchmark' = found
      /\ evaluator' = [IdleEvaluator EXCEPT !.pc = "opened", !.cmd = k, !.run = r,
                                            !.catalog = catalog, !.benchmark = found]
      /\ Elsewhere /\ UNCHANGED <<reports, catalog, evaluations>>

\* The training run is not asked for its status.  The stage checks for leakage, against the
\* split manifest of now, without which nothing could have been trained; the command does not.
CreateEvaluation(e) ==
  /\ EAt("opened")
  /\ evaluations[e] = None
  /\ IF ~Evaluations[evaluator.cmd].cli /\ ~CheckLeakage(evaluator.benchmark, DataSets[dataset])
     THEN ELeave /\ UNCHANGED evaluations
     ELSE /\ evaluations' = [evaluations EXCEPT ![e] = NewEvaluation(evaluator)]
          /\ evaluator' = [evaluator EXCEPT !.pc = "recording", !.evaluation = e, !.variant = 1]
  /\ Alone /\ UNCHANGED <<catalog, benchmark>>

\* write_config, write_benchmark_manifest.
RecordExperiment ==
  /\ EAt("recording")
  /\ evaluations' = [evaluations EXCEPT ![evaluator.evaluation].recorded = TRUE]
  /\ EGoTo("starting")
  /\ Alone /\ UNCHANGED <<catalog, benchmark>>

StartEvaluation ==
  /\ EAt("starting")
  /\ UpdateEvaluation("running")
  /\ EGoTo("loading")
  /\ Alone /\ UNCHANGED <<catalog, benchmark>>

\* verify_adapter_integrity, and PeftModel.from_pretrained after it.
VerifyAdapterIntegrity == runs[This.run].adapter = "whole"

\* Mutant: an adapter that does not load leaves the base model to answer.
LoadModelFallingBack ==
  /\ EAt("loading")
  /\ EGoTo("generating")
  /\ Alone /\ UNCHANGED <<catalog, benchmark, evaluations>>

\* resolve_torch_dtype: no runner knows the "auto" that a configuration may ask for.
ResolvesDtype == Resolved(Evaluations[evaluator.cmd]).dtype # "auto"

\* ensure_loaded: the DPO runner never falls back to the base model.
LoadModel ==
  /\ EAt("loading")
  /\ EGoTo(IF ResolvesDtype /\ (Variant = "base" \/ VerifyAdapterIntegrity)
           THEN "generating" ELSE "failing")
  /\ Alone /\ UNCHANGED <<catalog, benchmark, evaluations>>

GenerationRecord(j, answer) ==
  LET p == This.order[j \div This.samples + 1] IN
  [problem |-> p, sample |-> j % This.samples,
   seed |-> ComputeSeed(This.seed, j \div This.samples, j % This.samples),
   prompt |-> Catalogs[evaluator.catalog][p],
   status |-> IF answer = "none" THEN "generation_error" ELSE "generated",
   syntax |-> answer = "code"]

\* One problem and sample after the other; each record is appended at once, and after the
\* last the model is unloaded.
Generate(answer) ==
  LET j == Len(This.generations[Variant]) IN
  /\ EAt("generating")
  /\ evaluations' = [evaluations EXCEPT ![evaluator.evaluation].generations[Variant] =
                       Append(@, GenerationRecord(j, answer))]
  /\ EGoTo(IF j + 1 = Len(This.order) * This.samples THEN "judging" ELSE "generating")
  /\ Alone /\ UNCHANGED <<catalog, benchmark>>

\* The answers there are, in the order in which they were given.
Answered(G) ==
  LET places == Ascending({i \in DOMAIN G : G[i].status = "generated"})
  IN  [k \in DOMAIN places |-> G[places[k]]]
ToJudge     == Answered(This.generations[Variant])

\* Code that does not compile is not run; the prompt must still be the one that was answered.
Judge(result) ==
  LET i == Len(This.judgements[Variant]) + 1
      g == ToJudge[i]
      r == IF g.syntax THEN result
           ELSE [status |-> "syntax_error", passed |-> 0, failed |-> 0, errors |-> 0, skipped |-> 0,
                 total |-> 0, import |-> FALSE]
  IN  /\ EAt("judging")
      /\ i <= Len(ToJudge)
      /\ IF g.prompt # Catalogs[evaluator.catalog][g.problem]
         THEN EGoTo("failing") /\ UNCHANGED evaluations
         ELSE /\ evaluations' = [evaluations EXCEPT
                   ![evaluator.evaluation].judgements[Variant] = Append(@,
                      [problem |-> g.problem, sample |-> g.sample, status |-> r.status,
                       passed |-> r.passed, failed |-> r.failed, errors |-> r.errors,
                       skipped |-> r.skipped, total |-> r.total, type |-> ClassifyErrorType(r)])]
              /\ UNCHANGED evaluator
      /\ Alone /\ UNCHANGED <<catalog, benchmark>>

NextVariant ==
  /\ EAt("judging")
  /\ Len(This.judgements[Variant]) = Len(ToJudge)
  /\ evaluator' = IF evaluator.variant < Len(This.models)
                  THEN [evaluator EXCEPT !.pc = "loading", !.variant = @ + 1]
                  ELSE [evaluator EXCEPT !.pc = "completing"]
  /\ Alone /\ UNCHANGED <<catalog, benchmark, evaluations>>

\* Out of memory, a sandbox that does not start, a result that cannot be read.
RaiseInEvaluation ==
  /\ evaluator.pc \in {"loading", "generating", "judging"}
  /\ EGoTo("failing")
  /\ Alone /\ UNCHANGED <<catalog, benchmark, evaluations>>

\* Mutant: the error is logged, and the run left as it is.
FailEvaluationLogged ==
  /\ EAt("failing")
  /\ ELeave
  /\ Alone /\ UNCHANGED <<catalog, benchmark, evaluations>>

\* fail_run.
FailEvaluation ==
  /\ EAt("failing")
  /\ "failed" \in RUN_STATUS_TRANSITIONS(This.status)
  /\ evaluations' = [evaluations EXCEPT ![evaluator.evaluation].status = "failed",
                                        ![evaluator.evaluation].error = TRUE]
  /\ ELeave
  /\ Alone /\ UNCHANGED <<catalog, benchmark>>

CompleteEvaluation ==
  /\ EAt("completing")
  /\ UpdateEvaluation("completed")
  /\ EGoTo("reporting")
  /\ Alone /\ UNCHANGED <<catalog, benchmark>>

-----------------------------------------------------------------------------
(* The report: a function of what is on disk, but for the bootstrap. *)

Gen(e, v)       == {evaluations[e].generations[v][i] : i \in DOMAIN evaluations[e].generations[v]}
Judged(e, v)    == {evaluations[e].judgements[v][i] : i \in DOMAIN evaluations[e].judgements[v]}
Summary(e, v)   == MetricsSummary(Gen(e, v), Judged(e, v), evaluations[e].ks)
Requested(e, v) == \E i \in DOMAIN evaluations[e].models : evaluations[e].models[i] = v

\* SuccessCriteria(), where config.json was not written.
DefaultCriteria == [minimumImprovement |-> 2, maximumAllowedRegression |-> 2]
CriteriaOf(e)   == IF evaluations[e].recorded THEN evaluations[e].criteria ELSE DefaultCriteria

\* What the report may say of the run: more than one thing where the bootstrap decides.
Verdicts(e) ==
  {SuccessCriteria(summaries.base, summaries.dpo, reaches, CriteriaOf(e)) :
     summaries \in {[v \in ModelVariants |-> Summary(e, v)]},
     reaches \in PairedBootstrap(Judged(e, "base"), Judged(e, "dpo"))}

\* _write_evaluation_report: base_vs_dpo.json only where both variants were asked for.
WriteEvaluationReport(e) ==
  /\ IF Requested(e, "base") /\ Requested(e, "dpo")
     THEN \E success \in Verdicts(e) :
            reports' = [reports EXCEPT ![e] = [now  |-> IF success THEN "success" ELSE "failure",
                                               ever |-> @.ever \/ success]]
     ELSE UNCHANGED reports
  /\ evaluations' = [evaluations EXCEPT ![e].reported = TRUE]

\* After complete_run, and outside of the try block.
ReportRun ==
  /\ EAt("reporting")
  /\ WriteEvaluationReport(evaluator.evaluation)
  /\ ELeave
  /\ Elsewhere /\ UNCHANGED <<commands, catalog, benchmark>>

\* evaluate-model report, stats or compare, of a run in any state.
ReportAgain(e) ==
  /\ evaluations[e] # None
  /\ Spend
  /\ WriteEvaluationReport(e)
  /\ Elsewhere /\ UNCHANGED <<catalog, benchmark, evaluator>>

\* Ctrl-C while a variant generates or is judged: the command interrupts the run, the stage
\* does not catch it.
InterruptEvaluation ==
  /\ evaluator.pc \in {"loading", "generating", "judging"}
  /\ Fault
  /\ IF Evaluations[evaluator.cmd].cli THEN UpdateEvaluation("interrupted")
     ELSE UNCHANGED evaluations
  /\ ELeave
  /\ UNCHANGED <<dataset, runs, trainer, pvars, catalog, benchmark>>

KillEvaluation ==
  /\ ~EAt("idle")
  /\ Fault
  /\ ELeave
  /\ UNCHANGED <<dataset, runs, trainer, pvars, catalog, benchmark, evaluations>>

Evaluate ==
  \/ \E e \in EvaluationRuns : CreateEvaluation(e)
  \/ RecordExperiment \/ StartEvaluation \/ LoadModel \/ NextVariant
  \/ \E a \in Answers : Generate(a)
  \/ \E r \in Results : Judge(r)
  \/ RaiseInEvaluation \/ FailEvaluation \/ CompleteEvaluation \/ ReportRun

EvaluationNext ==
  \/ \E k \in DOMAIN Evaluations, r \in DOMAIN runs : OpenBenchmark(k, r)
  \/ Evaluate
  \/ \E e \in EvaluationRuns : ReportAgain(e)
  \/ ChangeCatalog \/ BenchmarkBuild \/ InterruptEvaluation \/ KillEvaluation

\* Training and packaging go on meanwhile; their reports are the ones written here.
ModelsNext ==
  \/ (TrainingNext /\ UNCHANGED pvars) /\ UNCHANGED evars
  \/ PackagersNext /\ UNCHANGED evars
  \/ EvaluationNext

ModelsInit == TrainingInit /\ PackagingInit /\ EvaluationInit /\ commands = 0

\* A command that was started goes on; nobody has to start one.
EvaluationProgress == WF_evars(Evaluate)

ModelsSpec == ModelsInit /\ [][ModelsNext]_mvars /\ Progress /\ EvaluationProgress

-----------------------------------------------------------------------------
(* Properties. *)

Schedule(e, v) ==
  LET G == evaluations[e].generations[v] IN
  [i \in DOMAIN G |-> <<G[i].problem, G[i].sample, G[i].seed, G[i].prompt>>]

\* What `evaluate-model validate` asks of a run, and more.  In a completed run every variant
\* answered every problem and sample once, each with a seed of its own, all variants with the
\* same seeds and prompts; each answer with code was judged once, in order; and whatever the
\* state of the run, DPO answers come from an adapter that loaded.
CompletedIsPaired ==
  \A e \in EvaluationRuns : evaluations[e] # None =>
    LET r == evaluations[e] IN
    /\ r.status = "failed" <=> r.error
    /\ r.generations["dpo"] # <<>> => runs[r.run].adapter = "whole" /\ r.recorded
    /\ \A v \in ModelVariants : \A j \in Judged(e, v) : EvaluationRecord(j)
    /\ r.status = "completed" =>
         \A v \in ModelVariants : Requested(e, v) =>
           /\ {<<g.problem, g.sample>> : g \in Gen(e, v)} =
                {r.order[i] : i \in DOMAIN r.order} \X (0..r.samples - 1)
           /\ Cardinality({g.seed : g \in Gen(e, v)}) = Len(r.generations[v])
           /\ \A w \in ModelVariants : Requested(e, w) => Schedule(e, v) = Schedule(e, w)
           /\ LET answered == Answered(r.generations[v])
              IN  /\ Len(answered) = Len(r.judgements[v])
                  /\ \A i \in DOMAIN r.judgements[v] :
                       /\ r.judgements[v][i].problem = answered[i].problem
                       /\ r.judgements[v][i].sample = answered[i].sample

\* pass@k, said otherwise: the share of the k-subsets of a problem's samples with a correct one.
ShareOfSubsets(E, p, k) ==
  LET subsets == kSubset(k, Valid(OfProblem(E, p)))
  IN  Share({S \in subsets : \E r \in S : Correct(r)}, subsets)

\* McNemar's p, said otherwise: the share of all coin tosses as lopsided as the one seen.
ShareOfTosses(m) ==
  LET n == m.baseOnly + m.dpoOnly
      lopsided(heads) == Max({heads, n - heads}) >= Max({m.baseOnly, m.dpoOnly})
  IN  Share({H \in SUBSET (1..n) : lopsided(Cardinality(H))}, SUBSET (1..n))

\* What is counted under all headings.
Total(counts) == MapThenSumSet(LAMBDA c : counts[c], DOMAIN counts)

\* model_evaluation/metrics.py, comparison.py, statistics.py, report.py: over whatever records
\* are on disk, pass@k and McNemar's p are what their definitions say, wins less losses is the
\* gain in solved problems, no record is counted twice or lost in the breakdowns, and a
\* success solves more samples than the base did.
NumbersAgree ==
  \A e \in EvaluationRuns : evaluations[e] # None =>
    LET r == evaluations[e]
        B == Judged(e, "base")
        D == Judged(e, "dpo")
        c == Compare(B, D)
    IN  /\ \A v \in ModelVariants :
             LET E == Judged(e, v)
                 f == FailureAnalysis(Gen(e, v), E)
             IN  /\ \A k \in r.ks :
                      Same(MeanPassAtK(E, k),
                           MeanOf([p \in Eligible(E, k) |-> ShareOfSubsets(E, p, k)]))
                 /\ Total(TestFailureDistribution(E)) = Cardinality(Valid(E))
                 /\ Total(f) =
                      Cardinality(Gen(e, v) \ Generated(Gen(e, v)))
                        + Cardinality({j \in E : j.status # "passed"})
        /\ Cardinality(c[1]) - Cardinality(c[-1]) =
             Cardinality({p \in Paired(B, D) : Solved(D, p)})
               - Cardinality({p \in Paired(B, D) : Solved(B, p)})
        /\ Same(McNemar(B, D).p, ShareOfTosses(McNemar(B, D)))
        /\ SuccessCriteria(Summary(e, "base"), Summary(e, "dpo"), TRUE, CriteriaOf(e)) =>
             AtLeast(MeanPassAtK(D, 1), MeanPassAtK(B, 1))

\* cli.py and the stage: every run that is created ends, a completed one with its report,
\* unless a fault struck.
EvaluationsAreReported ==
  \A e \in EvaluationRuns :
    evaluations[e] # None ~>
      \/ faults > 0
      \/ /\ evaluations[e] # None
         /\ \/ evaluations[e].status = "failed"
            \/ evaluations[e].status = "completed" /\ evaluations[e].reported

\* model_evaluation/comparison.py: infrastructure failures "must never count as either a pass
\* or a fail".  Only a problem with a valid sample on both sides is won or lost.
InfrastructureIsNeutral ==
  \A e \in EvaluationRuns : evaluations[e] # None =>
    LET B == Judged(e, "base")
        D == Judged(e, "dpo")
    IN  Compare(B, D)[1] \cup Compare(B, D)[-1] \subseteq Common(B, D)
=============================================================================

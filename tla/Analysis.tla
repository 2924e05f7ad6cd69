------------------------------ MODULE Analysis ------------------------------
(***************************************************************************)
(* `analyze run`: the failures of an evaluation run classified, base and   *)
(* DPO compared problem by problem once more, the coverage of the training *)
(* data, recommendations, the iteration decision, and a refined dataset.   *)
(*                                                                         *)
(* An analysis reads the run's records, whatever its status, together with *)
(* the preference run and the problem dataset as they are now, and writes  *)
(* a directory of its own: it is an operator on the state of               *)
(* ModelEvaluation.  What the records leave open is a parameter: which     *)
(* samples ran out of memory, whether the answers collapsed, how wide the  *)
(* confidence interval is, and what the training curve was.                *)
(***************************************************************************)
EXTENDS ModelEvaluation

CONSTANTS
  PreferencePairs,  \* state of a preference run -> its pairs
  Attributions,     \* what the dataset may say of a problem: [category, difficulty]
  Curves,           \* what metrics.jsonl may hold: [train, eval], each a list of [step, loss]
  Settings          \* analysis.yaml; shares, ratios, margins and weights in percent

AnalysisConfig(s) ==
  /\ {s.regression, s.minimumMargin} \subseteq 0..100
  /\ {s.weights.impact, s.weights.evidence, s.weights.cost} \subseteq 0..100
  /\ s.under > 0 /\ s.under < s.over
  /\ s.minimumProblems > 0 /\ s.maxRecommendations > 0

ASSUME SettingsAssumption == AnalysisConfig(Settings) /\ Settings.maxRecommendations \in Nat

-----------------------------------------------------------------------------
(* The inputs. *)

Records(e, v) == IF Requested(e, v) THEN Judged(e, v) ELSE {}
Samplings(e, v) == IF Requested(e, v) THEN Gen(e, v) ELSE {}

\* Without a benchmark manifest there are no benchmark problems.
BenchmarkProblems(e) == IF evaluations[e].recorded THEN evaluations[e].benchmark ELSE {}

Pairs         == PreferencePairs[dataset]
KnownProblems == DOMAIN Catalogs[catalog]

\* The train split of now, or every problem with a pair where it is empty.
TrainingProblems ==
  LET train == DataSets[dataset].problems.train
  IN  IF train # {} THEN train ELSE {p.problem : p \in Pairs}

-----------------------------------------------------------------------------
(* Failures, one category per sample. *)

ErrorCategories == ErrorTypes \cup {"generation_failure", "memory_error"}

\* memory: the samples most of whose failing tests ran out of memory.  Every answer is recorded
\* with its code or as an error, so no code_extraction_failure is found.
Classify(g, E, memory) ==
  IF g.status = "generation_error" THEN "generation_failure"
  ELSE LET r == CHOOSE x \in E : <<x.problem, x.sample>> = <<g.problem, g.sample>>
       IN  IF r.status = "passed" THEN "none"
           ELSE IF r.type = "runtime_error" /\ <<g.problem, g.sample>> \in memory THEN "memory_error"
           ELSE r.type

\* Code that was not judged is passed over.
Classified(G, E) ==
  {g \in G : \/ g.status = "generation_error"
             \/ \E r \in E : <<r.problem, r.sample>> = <<g.problem, g.sample>>}

ErrorProfile(G, E, memory) ==
  [c \in ErrorCategories \cup {"none"} |-> Cardinality({g \in Classified(G, E) : Classify(g, E, memory) = c})]

-----------------------------------------------------------------------------
(* Outcomes, by the best share of tests that a sample passes. *)

Evaluable(E, p) == {r \in OfProblem(E, p) : r.type # "infrastructure_error"}

Score(E, p) ==
  IF Evaluable(E, p) = {} THEN Zero
  ELSE LET rates == {PassRate(r) : r \in Evaluable(E, p)}
       IN  CHOOSE x \in rates : \A y \in rates : AtLeast(x, y)

\* Every test passed, whatever became of the process that ran them.
SolvedByTests(E, p) == \E r \in Evaluable(E, p) : r.total > 0 /\ r.passed = r.total

ClassifyOutcome(b, d) ==
  IF Same(b, d) THEN "unchanged"
  ELSE IF AtLeast(d, b)
       THEN IF Same(b, Zero) /\ Same(d, <<1, 1>>) THEN "complete_improvement" ELSE "partial_improvement"
       ELSE IF Same(d, Zero) /\ Same(b, <<1, 1>>) THEN "complete_regression" ELSE "partial_regression"

ProblemOutcome(B, D, p) ==
  [problem |-> p, outcome |-> ClassifyOutcome(Score(B, p), Score(D, p)),
   base |-> SolvedByTests(B, p), dpo |-> SolvedByTests(D, p)]

\* Only problems that both variants have a record of.
ProblemOutcomes(B, D) == {ProblemOutcome(B, D, p) : p \in GroupByProblem(B) \cap GroupByProblem(D)}

Improvements(O) == {o \in O : o.outcome \in {"complete_improvement", "partial_improvement"}}
Regressions(O)  == {o \in O : o.outcome \in {"complete_regression", "partial_regression"}}

\* The examples that are written down for the next dataset.
HardExamples(O)          == {o \in O : ~o.base /\ ~o.dpo}
RegressionExamples(O)    == {o \in O : o.base /\ ~o.dpo}
SuccessfulDpoExamples(O) == {o \in O : ~o.base /\ o.dpo}

-----------------------------------------------------------------------------
(* Coverage. *)

TrainedPairs == LET problems == TrainingProblems IN {p \in Pairs : p.problem \in problems}

CoverageVerdict(trained, measured) ==
  LET ratio == <<trained[1] * measured[2], trained[2] * measured[1]>> IN
  IF measured[1] = 0 THEN IF trained[1] = 0 THEN "absent_from_both" ELSE "not_in_benchmark"
  ELSE IF 100 * ratio[1] < Settings.under * ratio[2] THEN "underrepresented"
  ELSE IF 100 * ratio[1] > Settings.over * ratio[2] THEN "overrepresented" ELSE "balanced"

\* build_gaps: each value of an attribute, with its verdict on the share of the trained pairs and
\* of the benchmark problems that have it.
Gaps(e, attribute) ==
  LET known    == KnownProblems
      trained  == {p \in TrainedPairs : p.problem \in known}
      measured == BenchmarkProblems(e) \cap known
  IN  [value \in {attribute[p] : p \in known} |->
         CoverageVerdict(Share({p \in trained : attribute[p.problem] = value}, trained),
                         Share({p \in measured : attribute[p] = value}, measured))]
With(gaps, verdict) == {value \in DOMAIN gaps : gaps[value] = verdict}

-----------------------------------------------------------------------------
(* The training curve. *)

Rose(points) == Len(points) >= 2 /\ points[Len(points)].loss > points[1].loss

\* A step may be logged more than once, or be missing from a row.
Steps(points) == {points[i].step : i \in DOMAIN points} \ {None}

AnalyseTrainingCurve(curve) ==
  IF Cardinality(Steps(curve.train)) < 2 THEN "insufficient_data"
  ELSE IF Rose(curve.train) THEN "undertrained"
  ELSE IF Rose(curve.eval) THEN "overtrained" ELSE "healthy"

-----------------------------------------------------------------------------
(* Recommendations and the decision. *)

TooEasy(difficulties) ==
  \/ "easy" \in With(difficulties, "overrepresented")
  \/ {"medium", "hard"} \cap With(difficulties, "underrepresented") # {}

\* What the rules propose.
Proposed(O, starved, unmeasured, tooEasy, collapse, curve) ==
  {c \in {"add_data", "expand_benchmark", "investigate_regression", "investigate_mode_collapse",
          "increase_problem_difficulty", "refine_preference_pairs", "adjust_dpo_hyperparameters"} :
     \/ c = "add_data" /\ starved # {}
     \/ c = "expand_benchmark" /\ unmeasured # {}
     \/ c = "investigate_regression" /\ Cardinality(Regressions(O)) > Cardinality(Improvements(O))
     \/ c = "investigate_mode_collapse" /\ collapse
     \/ c = "increase_problem_difficulty" /\ tooEasy
     \/ c = "refine_preference_pairs" /\ TrainedPairs # {} /\ Cardinality(TrainedPairs) < 50
     \/ c = "adjust_dpo_hyperparameters" /\ AnalyseTrainingCurve(curve) \in {"undertrained", "overtrained"}}

Estimate(impact, evidence, cost) == [impact |-> impact, evidence |-> evidence, cost |-> cost]

\* In percent; n: how many starved categories have a problem that DPO left unsolved.
Estimated(c, n) ==
  CASE c = "add_data" -> Estimate(Min({100, 30 + 10 * n}), IF n = 0 THEN 40 ELSE 70, 60)
    [] c = "expand_benchmark"            -> Estimate(60, 90, 50)
    [] c = "investigate_regression"      -> Estimate(70, 80, 30)
    [] c = "investigate_mode_collapse"   -> Estimate(50, 60, 40)
    [] c = "increase_problem_difficulty" -> Estimate(40, 60, 70)
    [] c = "refine_preference_pairs"     -> Estimate(60, 80, 50)
    [] c = "adjust_dpo_hyperparameters"  -> Estimate(50, 50, 20)

DefaultWeights == Estimate(50, 30, 20)

RecommendationScore(c, n) ==
  LET x == Estimated(c, n)
      w == Settings.weights
  IN  w.impact * x.impact + w.evidence * x.evidence + w.cost * (100 - x.cost)

Alphabetical ==
  [add_data |-> 1, adjust_dpo_hyperparameters |-> 2, expand_benchmark |-> 3,
   increase_problem_difficulty |-> 4, investigate_mode_collapse |-> 5,
   investigate_regression |-> 6, refine_preference_pairs |-> 7]

\* By score, and where two are the same by name.
Ahead(d, c, n) ==
  \/ RecommendationScore(d, n) > RecommendationScore(c, n)
  \/ RecommendationScore(d, n) = RecommendationScore(c, n) /\ Alphabetical[d] < Alphabetical[c]

\* All of them, or the best where that is more than the number asked for.
BuildRecommendations(O, starved, overlap, unmeasured, tooEasy, collapse, curve) ==
  LET proposed == Proposed(O, starved, unmeasured, tooEasy, collapse, curve)
      n        == Cardinality(overlap)
  IN  IF proposed = {} THEN {"no_action"}
      ELSE IF Cardinality(proposed) <= Settings.maxRecommendations THEN proposed
      ELSE {c \in proposed :
              Cardinality({d \in proposed : Ahead(d, c, n)}) < Settings.maxRecommendations}

\* The evidence is asked first.
DecideIteration(problems, wide, O, starved, unmeasured, collapse) ==
  IF Cardinality(problems) < Settings.minimumProblems \/ wide THEN "insufficient_evidence"
  ELSE IF collapse \/ Cardinality(Regressions(O)) > Cardinality(Improvements(O)) THEN "adjust_training"
  ELSE IF starved # {} THEN "refine_data"
  ELSE IF unmeasured # {} THEN "expand_benchmark" ELSE "accept_model"

-----------------------------------------------------------------------------
(* Refinement. *)

PlanRefinement(p, benchmarked) ==
  IF p.problem \in benchmarked \/ p.margin < Settings.minimumMargin THEN "remove"
  ELSE IF Settings.dropDuplicates /\ p.twins THEN "remove"
  ELSE IF Settings.dropInfrastructure /\ p.indeterminate THEN "regenerate" ELSE "retain"

\* Mutant: benchmark problems are filtered by what the run answered.
RefinedPreferencesOfAnswered(e) ==
  {p \in Pairs : PlanRefinement(p, {r.problem : r \in Records(e, "base")}) = "retain"}

\* Rows that name a benchmark problem raise an error; the plan has removed them.
RefinedPreferences(e) == {p \in Pairs : PlanRefinement(p, BenchmarkProblems(e)) = "retain"}

-----------------------------------------------------------------------------
(* Property. *)

\* A sample whose tests had all passed when its process ran out of time: correct by its tests,
\* not by its status.
PassedLate(E) == {r \in Valid(E) : r.status # "passed" /\ r.total > 0 /\ r.passed = r.total}

\* analysis/, against model_evaluation/: two stages that read one run say the same of it.  The
\* problems that the analysis lists as solved only by DPO, or only by the base, are the wins and
\* losses of base_vs_dpo.json, unless a sample passed late, and are among its improvements and
\* regressions; its error profile counts what the failure analysis counts, and every sample in
\* one category.
OutcomesAgree(e) ==
  LET B == Records(e, "base")
      D == Records(e, "dpo")
      O == ProblemOutcomes(B, D)
      problems(examples) == {o.problem : o \in examples}
  IN  /\ PassedLate(B) \cup PassedLate(D) = {} =>
           /\ problems(SuccessfulDpoExamples(O)) = Compare(B, D)[1]
           /\ problems(RegressionExamples(O)) = Compare(B, D)[-1]
           /\ problems(HardExamples(O)) \subseteq Compare(B, D)[0]
      /\ SuccessfulDpoExamples(O) \subseteq Improvements(O)
      /\ RegressionExamples(O) \subseteq Regressions(O)

ProfilesAgree(e) ==
  \A v \in ModelVariants :
    LET G == Samplings(e, v)
        E == Records(e, v)
        f == FailureAnalysis(G, E)
    IN  \A memory \in SUBSET {<<r.problem, r.sample>> : r \in {x \in E : x.type = "runtime_error"}} :
          LET n == ErrorProfile(G, E, memory) IN
          /\ n["generation_failure"] = f["generation_error"]
          /\ n["runtime_error"] + n["memory_error"] = f["runtime_error"]
          /\ \A t \in ErrorTypes \ {"runtime_error"} : n[t] = f[t]
          /\ Total(n) = Cardinality(Classified(G, E))

\* A decision other than to accept the model, or to wait for evidence, comes with the
\* recommendation that carries it out, and an accepted model with none of those.
DecisionIsRecommended(e) ==
  LET O == ProblemOutcomes(Records(e, "base"), Records(e, "dpo")) IN
  \A a \in Attributions :
    LET categories   == Gaps(e, a.category)
        tooEasy      == TooEasy(Gaps(e, a.difficulty))
        starved      == With(categories, "underrepresented")
        unmeasured   == With(categories, "not_in_benchmark")
        overlap      == starved \cap {a.category[o.problem] : o \in {x \in O : ~x.dpo}}
        carriers     == [adjust_training  |-> {"investigate_regression", "investigate_mode_collapse"},
                         refine_data      |-> {"add_data"},
                         expand_benchmark |-> {"expand_benchmark"}]
    IN  \A collapse, wide \in BOOLEAN, curve \in Curves :
          LET decision == DecideIteration(BenchmarkProblems(e), wide, O, starved, unmeasured, collapse)
              made     == BuildRecommendations(O, starved, overlap, unmeasured, tooEasy,
                                               collapse, curve)
          IN  /\ decision \in DOMAIN carriers => made \cap carriers[decision] # {}
              /\ decision = "accept_model" => \A d \in DOMAIN carriers : made \cap carriers[d] = {}

\* All of this, and no refined pair is about a problem of the benchmark, answered or not, once
\* the run has recorded which that is.
AnalysisAgrees ==
  \A e \in EvaluationRuns : evaluations[e] # None =>
    /\ OutcomesAgree(e)
    /\ ProfilesAgree(e)
    /\ DecisionIsRecommended(e)
    /\ evaluations[e].recorded =>
         {p.problem : p \in RefinedPreferences(e)} \cap evaluations[e].benchmark = {}
=============================================================================

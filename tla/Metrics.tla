------------------------------- MODULE Metrics -------------------------------
(***************************************************************************)
(* The numbers of a model evaluation: pass@k, rates, the comparison of two *)
(* variants problem by problem, McNemar's exact test, and the verdict.     *)
(* All are functions of the records on disk.                               *)
(*                                                                         *)
(* A generation record has a problem, a sample, a seed, a prompt, a status *)
(* and a syntax verdict; an evaluation record a problem, a sample, a       *)
(* status, counts of tests, and an error type.  A fraction is a pair, and  *)
(* stands for the floating point number the code computes.                 *)
(***************************************************************************)
EXTENDS Integers, Sequences, FiniteSets, FiniteSetsExt, Combinatorics

CONSTANT BroadK  \* the second k of the verdict: 5 in the code, less where samples are few

ASSUME BroadKAssumption == BroadK \in Nat \ {0, 1}

Plus(x, y)    == <<x[1] * y[2] + y[1] * x[2], x[2] * y[2]>>
AtLeast(x, y) == x[1] * y[2] >= y[1] * x[2]
Same(x, y)    == x[1] * y[2] = y[1] * x[2]
Zero          == <<0, 1>>

\* Every rate is a share of something, and 0 of nothing.
Share(part, whole) == IF whole = {} THEN Zero ELSE <<Cardinality(part), Cardinality(whole)>>

MeanOf(values) ==
  LET S == DOMAIN values IN
  IF S = {} THEN Zero
  ELSE LET sum == FoldSet(LAMBDA s, acc : Plus(values[s], acc), Zero, S)
       IN  <<sum[1], sum[2] * Cardinality(S)>>

-----------------------------------------------------------------------------
(* Records. *)

\* EvaluationRecord.correct, .is_infrastructure_error, .pass_rate.
Correct(r) == r.status = "passed" /\ r.total > 0 /\ r.passed = r.total
IsInfrastructureError(r) == r.status = "infrastructure_error"
PassRate(r) == IF r.total > 0 THEN <<r.passed, r.total>> ELSE Zero

Generated(G) == {g \in G : g.status = "generated"}
Valid(E)     == {r \in E : ~IsInfrastructureError(r)}
OfProblem(E, p)   == {r \in E : r.problem = p}
GroupByProblem(E) == {r.problem : r \in E}
Solved(E, p)      == \E r \in Valid(OfProblem(E, p)) : Correct(r)

\* n valid samples of a problem, c of them correct.
Samples(E, p) == Cardinality(Valid(OfProblem(E, p)))
Successes(E, p) == Cardinality({r \in Valid(OfProblem(E, p)) : Correct(r)})

ErrorTypes == {"syntax_error", "import_error", "runtime_error", "assertion_failure", "timeout",
               "infrastructure_error"}

\* What an EvaluationRecord refuses to be.
EvaluationRecord(r) ==
  /\ r.passed + r.failed + r.errors + r.skipped = r.total
  /\ r.status = "passed" <=> r.type = "none"
  /\ r.type \in ErrorTypes \cup {"none"}

\* _classify_error_type.
ClassifyErrorType(result) ==
  IF result.status = "passed" THEN "none"
  ELSE IF result.status # "failed" THEN result.status
  ELSE IF result.errors = 0 THEN "assertion_failure"
  ELSE IF result.import THEN "import_error" ELSE "runtime_error"

-----------------------------------------------------------------------------
(* pass@k and the rates of one variant. *)

\* The chance that k of the n samples, c of which are correct, hold a correct one.
PassAtK(n, c, k) ==
  IF c = 0 THEN Zero
  ELSE IF n - c < k THEN <<1, 1>>
  ELSE <<choose(n, k) - choose(n - c, k), choose(n, k)>>

\* The mean over the problems that have k valid samples at all.
Eligible(E, k) == {p \in GroupByProblem(E) : Samples(E, p) >= k}
MeanPassAtK(E, k) ==
  MeanOf([p \in Eligible(E, k) |-> PassAtK(Samples(E, p), Successes(E, p), k)])

MeanTestPassRate(E) == MeanOf([r \in Valid(E) |-> PassRate(r)])

SolveRate(E) == Share({p \in GroupByProblem(E) : Solved(E, p)}, GroupByProblem(E))

SyntaxSuccessRate(G) == Share({g \in Generated(G) : g.syntax}, Generated(G))

Judgements(G, E) == {r \in E : \E g \in Generated(G) : <<g.problem, g.sample>> = <<r.problem, r.sample>>}

ExecutionSuccessRate(G, E) ==
  Share({r \in Judgements(G, E) :
           r.status \notin {"syntax_error", "infrastructure_error"} /\ r.errors = 0},
        Judgements(G, E))

\* Of all that was generated, judged or not.
TimeoutRate(G, E) ==
  Share({r \in Judgements(G, E) : r.status = "timeout"}, Generated(G))

GenerationFailureRate(G) == Share(G \ Generated(G), G)

Buckets == <<"0%", "1-20%", "20-40%", "40-60%", "60-80%", "80-99%", "100%">>

BucketFor(rate) ==
  LET percent == 100 * rate[1] IN
  IF percent <= 0 THEN 1
  ELSE IF percent >= 100 * rate[2] THEN 7
  ELSE Min({b \in 2..6 : b = 6 \/ percent <= 20 * (b - 1) * rate[2]})

TestFailureDistribution(E) ==
  [b \in DOMAIN Buckets |-> Cardinality({r \in Valid(E) : BucketFor(PassRate(r)) = b})]

\* build_metrics_summary, for one variant.
MetricsSummary(G, E, ks) ==
  [passAtK |-> [k \in ks |-> MeanPassAtK(E, k)], testPassRate |-> MeanTestPassRate(E),
   solveRate |-> SolveRate(E), syntax |-> SyntaxSuccessRate(G),
   execution |-> ExecutionSuccessRate(G, E), timeout |-> TimeoutRate(G, E),
   failureRate |-> GenerationFailureRate(G), distribution |-> TestFailureDistribution(E)]

\* build_failure_analysis.
FailureAnalysis(G, E) ==
  [t \in ErrorTypes \cup {"generation_error"} |->
     IF t = "generation_error" THEN Cardinality(G \ Generated(G))
     ELSE Cardinality({r \in E : r.type = t})]

-----------------------------------------------------------------------------
(* Base against DPO. *)

\* compare, with allow_incomplete: the problems both variants have a record of.
Paired(B, D) == GroupByProblem(B) \cap GroupByProblem(D)

ProblemComparison(B, D, p) ==
  IF Solved(D, p) /\ ~Solved(B, p) THEN 1
  ELSE IF Solved(B, p) /\ ~Solved(D, p) THEN -1 ELSE 0

Compare(B, D) ==
  [i \in {-1, 0, 1} |-> {p \in Paired(B, D) : ProblemComparison(B, D, p) = i}]

\* The problems with a valid sample on both sides: what the bootstrap and McNemar's test use.
Common(B, D) == {p \in Paired(B, D) : Samples(B, p) > 0 /\ Samples(D, p) > 0}

\* Mutant: the tail of the binomial stops one short.
LowerTailShort(n, k) == FoldSet(LAMBDA i, acc : choose(n, i) + acc, 0, 0..(k - 1))

LowerTail(n, k) == FoldSet(LAMBDA i, acc : choose(n, i) + acc, 0, 0..k)

McNemar(B, D) ==
  LET baseOnly == Cardinality({p \in Common(B, D) : Solved(B, p) /\ ~Solved(D, p)})
      dpoOnly  == Cardinality({p \in Common(B, D) : Solved(D, p) /\ ~Solved(B, p)})
      n        == baseOnly + dpoOnly
      twoSided == <<2 * LowerTail(n, Min({baseOnly, dpoOnly})), 2 ^ n>>
  IN  [baseOnly |-> baseOnly, dpoOnly |-> dpoOnly,
       p |-> IF n = 0 \/ AtLeast(twoSided, <<1, 1>>) THEN <<1, 1>> ELSE twoSided]

\* paired_bootstrap resamples the common problems with a seeded generator: whether the upper
\* end of its interval reaches 0 is a choice, unless all the differences agree.
Reaches(B, D, p) == AtLeast(PassAtK(Samples(D, p), Successes(D, p), 1),
                            PassAtK(Samples(B, p), Successes(B, p), 1))
PairedBootstrap(B, D) ==
  IF Common(B, D) = {} THEN {TRUE}
  ELSE {Reaches(B, D, p) : p \in Common(B, D)}

\* evaluate_success_criteria; the two thresholds are in percent.  Of pass@BroadK it knows
\* only what was asked for.
SuccessCriteria(base, dpo, reaches, criteria) ==
  LET regression == <<criteria.maximumAllowedRegression, 100>>
  IN  /\ 1 \in DOMAIN base.passAtK
      /\ AtLeast(dpo.passAtK[1],
                 Plus(base.passAtK[1], <<criteria.minimumImprovement, 100>>))
      /\ BroadK \in DOMAIN base.passAtK =>
           AtLeast(Plus(dpo.passAtK[BroadK], regression), base.passAtK[BroadK])
      /\ AtLeast(Plus(dpo.syntax, regression), base.syntax)
      /\ AtLeast(Plus(base.timeout, regression), dpo.timeout)
      /\ reaches
=============================================================================

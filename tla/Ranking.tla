------------------------------ MODULE Ranking ------------------------------
(***************************************************************************)
(* Stage 7 of python_dpo as operators: how the evidence that the sandbox   *)
(* left of a candidate is classified (CorrectnessClassifier), scored       *)
(* (CandidateScorer), compared (CandidateComparator) and ranked            *)
(* (CandidateRanker).                                                      *)
(*                                                                         *)
(* Evidence is what these read of an EvaluationResult: the status, the     *)
(* number of declared tests and how many passed.  "ran" stands for passed, *)
(* failed and syntax_error, which the tests decide; "missing" is an        *)
(* EvaluationFailure.  Failed, erroneous and skipped tests are not told    *)
(* apart: together they are total - passed.                                *)
(*                                                                         *)
(* A score is the fraction passed / total; two scores are compared by      *)
(* cross-multiplication (the code's floats with a tolerance of 1e-9 agree  *)
(* with that below thirty thousand tests).                                 *)
(***************************************************************************)
EXTENDS Integers, FiniteSets

\* What evaluation can leave of a candidate whose problem declares at most n
\* tests.  A candidate may pass every test and still time out: the sandbox
\* waits for the interpreter to exit.
Evidence(n) ==
  {e \in [status : {"ran", "timeout"}, total : 0..n, passed : 0..n] : e.passed <= e.total}
    \cup [status : {"infrastructure_error", "missing"}, total : {0}, passed : {0}]

---------------------------------------------------------------------------
(* Classification *)

Indeterminate(e) == e.status \in {"infrastructure_error", "missing"} \/ e.total = 0

Correct(e) == ~Indeterminate(e) /\ e.passed = e.total /\ e.status # "timeout"

Incorrect(e) == ~Indeterminate(e) /\ ~Correct(e)

\* CandidateAssessment.__post_init__ refuses an incorrect candidate that passed
\* every test; the exception ends the command.
\* Mutant of Assessable: the check is dropped.
AlwaysAssessable(e) == TRUE

Assessable(e) == Incorrect(e) => e.passed < e.total

---------------------------------------------------------------------------
(* Comparison *)

\* score(e) > score(f)
Outscores(e, f) == e.passed * f.total > f.passed * e.total

Relations == {"A_BETTER", "B_BETTER", "TIE", "INDETERMINATE"}

Compare(e, f) ==
  IF Indeterminate(e) \/ Indeterminate(f) THEN "INDETERMINATE"
  ELSE IF Outscores(e, f) THEN "A_BETTER"
  ELSE IF Outscores(f, e) THEN "B_BETTER"
  ELSE "TIE"

---------------------------------------------------------------------------
(* Ranking of the candidates S of one problem, ev[c] being c's evidence *)

Ranked(ev, S) == {c \in S : ~Indeterminate(ev[c])}

\* rank_problem raises when the ranked candidates disagree on tests_total.
SameTotals(ev, S) == \A c, d \in Ranked(ev, S) : ev[c].total = ev[d].total

\* The sort key without its last, presentational part: correct before
\* incorrect, then more tests passed first.
RankedAbove(e, f) ==
  \/ Correct(e) /\ ~Correct(f)
  \/ (Correct(e) <=> Correct(f)) /\ e.passed > f.passed

Above(ev, S, c) == {d \in Ranked(ev, S) : RankedAbove(ev[d], ev[c])}

\* Competition rank 1, 1, 3, ...: a bucket advances the rank by its size.
\* 0 stands for the null rank of an indeterminate candidate.
RankOf(ev, S, c) ==
  IF c \in Ranked(ev, S) THEN 1 + Cardinality(Above(ev, S, c)) ELSE 0

\* The number of c's bucket in sort order; 0 for the null tie group.
TieGroup(ev, S, c) ==
  IF c \in Ranked(ev, S)
  THEN 1 + Cardinality({<<Correct(ev[d]), ev[d].passed>> : d \in Above(ev, S, c)})
  ELSE 0
=============================================================================

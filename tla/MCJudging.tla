----------------------------- MODULE MCJudging -----------------------------
(***************************************************************************)
(* Small instances of Judging.  A problem has two tests, so the margin     *)
(* policy at 60 percent tells one test from two, and at 40 it does not.    *)
(* A scenario lists, per problem, the evidence and the code of its         *)
(* candidates.                                                             *)
(***************************************************************************)
EXTENDS Validation

CONSTANTS x, y, z    \* codes

Ran(total, passed) == [status |-> "ran", total |-> total, passed |-> passed]
Pass == Ran(2, 2)
Half == Ran(2, 1)
Fail == Ran(2, 0)
Late == [status |-> "timeout", total |-> 2, passed |-> 1]
Done == [status |-> "timeout", total |-> 2, passed |-> 2]    \* timed out after the last test
None == [status |-> "missing", total |-> 0, passed |-> 0]

\* evidence[p][i] and source[p][i] are those of candidate i of problem p.
Scenario(evidence, source, known, n) ==
  LET C == UNION {{<<p, i>> : i \in 1..Len(evidence[p])} : p \in 1..Len(evidence)} IN
  [evidence |-> [c \in C |-> evidence[c[1]][c[2]]],
   source   |-> [c \in C |-> source[c[1]][c[2]]],
   requested |-> C, known |-> known, tests |-> 2, faults |-> n]

\* One problem, undisturbed: all evidence on three candidates, with and without
\* common code, without a record and with a prompt that cannot be verified.
Undisturbed ==
  {Scenario(<<<<e, f, g>>>>, <<s>>, {1}, 0) :
     e, f, g \in {Pass, Half, Fail, Late, None},
     s \in {<<x, y, z>>, <<x, x, y>>, <<x, y, y>>, <<x, y, x>>}}
  \cup {Scenario(<<<<e, f, Fail>>>>, <<s>>, {1}, 0) :
     e, f \in {Pass, Half, None, Done, Ran(1, 1)}, s \in {<<x, y, Gone>>, <<Stale, y, z>>, <<x, y, z>>}}

\* A problem of three candidates and one of two, cut short twice.
TwoProblems == Scenario(<<<<Pass, Half, Fail>>, <<Fail, Pass>>>>, <<<<x, y, z>>, <<x, y>>>>, {1, 2}, 2)

ThreeProblems ==
  Scenario(<<<<Pass, Fail>>, <<Half, Pass>>, <<Fail, Pass>>>>, <<<<x, y>>, <<x, y>>, <<x, y>>>>, 1..3, 1)

\* A single candidate, and a problem that has only ties.
LoneProblem == Scenario(<<<<Pass>>, <<Half, Half>>>>, <<<<x>>, <<x, y>>>>, {1, 2}, 1)

\* The evaluation run has not come to the last candidate it was asked for.
UnfinishedEvaluation == [LoneProblem EXCEPT !.requested = @ \cup {<<1, 2>>}]

\* The second problem is no longer in the dataset.
LostProblem == Scenario(<<<<Pass, Fail>>, <<Fail, Pass>>>>, <<<<x, y>>, <<x, y>>>>, {1}, 1)

\* Ranking stops at the second problem: an assessment that is refused, totals
\* that differ.
RefusedProblems ==
  {Scenario(<<<<Pass, Fail>>, e>>, <<<<x, y>>, <<x, y>>>>, {1, 2}, 1) : e \in {<<Done, Fail>>, <<Ran(1, 0), Pass>>}}

All == Undisturbed \cup {TwoProblems, ThreeProblems, LoneProblem, UnfinishedEvaluation, LostProblem} \cup RefusedProblems
OneFault  == {[TwoProblems EXCEPT !.faults = 1]}
TwoFaults == {TwoProblems}

Asked(name, margin, cap) == <<[name |-> name, margin |-> margin], cap>>
SomeRequests == {Asked("strict", 60, 0), Asked("margin", 60, 0), Asked("margin", 40, 0), Asked("all_better", 60, 2)}
Strictly    == {Asked("strict", 20, 0)}

\* random.Random(42).shuffle on one, two and three elements.
Seed42 == <<<<1>>, <<2, 1>>, <<2, 1, 3>>>>
=============================================================================

---------------------------- MODULE Preferences ----------------------------
(***************************************************************************)
(* Stage 8 of python_dpo as operators: which candidate pairs of a problem  *)
(* become preference pairs (PreferencePairBuilder, the policies), which    *)
(* are dropped by max_pairs_per_problem, which are duplicates as training  *)
(* records, and how problems are split (ProblemSplitter).                  *)
(*                                                                         *)
(* A candidate is a pair <<problem, index>>.  source[c] is what the join   *)
(* with the candidate run finds: c's code, Gone when there is no record,   *)
(* or Stale when its prompt lineage cannot be verified (another            *)
(* prompt_version, another prompt_sha256, or none).                        *)
(***************************************************************************)
EXTENDS Ranking, Sequences, Functions

CONSTANTS
  Gone, Stale,        \* values of source that are no code
  TrainPercent,       \* split ratios * 100
  ValidationPercent,
  Shuffle             \* Shuffle[n]: what Random(seed).shuffle does to n elements

ASSUME PercentAssumption ==
  /\ TrainPercent \in Nat /\ ValidationPercent \in Nat
  /\ TrainPercent + ValidationPercent <= 100

\* A selection policy and the minimum_score_margin, in percent, it is asked with.
Policies == [name : {"strict", "margin", "all_better"}, margin : Nat]
NoCap == 0

\* The order of candidate ids; also that of preference ids when applied to
\* chosen and rejected in turn.
Before(a, b) == a[1] < b[1] \/ (a[1] = b[1] /\ a[2] < b[2])
BeforePair(a, b, c, d) == Before(a, c) \/ (a = c /\ Before(b, d))

Combinations(S) == {ab \in S \X S : Before(ab[1], ab[2])}

---------------------------------------------------------------------------
(* Policies *)

Strong(e, f) == Correct(e) /\ Incorrect(f)

WideEnough(margin, e, f) ==
  100 * (e.passed * f.total - f.passed * e.total) >= margin * e.total * f.total

Admits(policy, e, f) ==
  \/ policy.name = "strict" /\ Strong(e, f)
  \/ policy.name = "margin" /\ WideEnough(policy.margin, e, f)
  \/ policy.name = "all_better"

Reasons == {"tie", "indeterminate", "integrity_failure", "identical_code",
            "not_correct_vs_incorrect", "insufficient_margin", "max_pairs_per_problem"}

Refusal(policy) ==
  IF policy.name = "strict" THEN "not_correct_vs_incorrect" ELSE "insufficient_margin"

---------------------------------------------------------------------------
(* One problem, whose assessed candidates are S *)

LineageHolds(source, S) == \A c \in S : source[c] # Stale

ChosenOf(ev, ab)   == IF Outscores(ev[ab[1]], ev[ab[2]]) THEN ab[1] ELSE ab[2]
RejectedOf(ev, ab) == IF Outscores(ev[ab[1]], ev[ab[2]]) THEN ab[2] ELSE ab[1]

\* _evaluate_pair: "pair", or the reason of the rejection.
\* Mutant of Outcome: identical code is not looked at.
OutcomeOfTwins(ev, source, policy, ab) ==
  LET relation == Compare(ev[ab[1]], ev[ab[2]]) IN
  CASE relation = "TIE" -> "tie"
    [] relation = "INDETERMINATE" -> "indeterminate"
    [] Gone \in {source[ab[1]], source[ab[2]]} -> "integrity_failure"
    [] ~Admits(policy, ev[ChosenOf(ev, ab)], ev[RejectedOf(ev, ab)]) -> Refusal(policy)
    [] OTHER -> "pair"

Outcome(ev, source, policy, ab) ==
  LET relation == Compare(ev[ab[1]], ev[ab[2]]) IN
  IF relation = "TIE" THEN "tie"
  ELSE IF relation = "INDETERMINATE" THEN "indeterminate"
  ELSE IF Gone \in {source[ab[1]], source[ab[2]]} THEN "integrity_failure"
  ELSE IF source[ab[1]] = source[ab[2]] THEN "identical_code"
  ELSE IF ~Admits(policy, ev[ChosenOf(ev, ab)], ev[RejectedOf(ev, ab)]) THEN Refusal(policy)
  ELSE "pair"

\* The combinations that become pairs, before truncation.
Decided(ev, source, S, policy) ==
  {ab \in Combinations(S) : LineageHolds(source, S) /\ Outcome(ev, source, policy, ab) = "pair"}

\* _truncate's order: the wider margin first, then by candidate ids.
WiderMargin(ev, ab, cd) ==
  LET e == ev[ChosenOf(ev, ab)]   f == ev[RejectedOf(ev, ab)]
      g == ev[ChosenOf(ev, cd)]   h == ev[RejectedOf(ev, cd)]
  IN (e.passed * f.total - f.passed * e.total) * g.total * h.total
       > (g.passed * h.total - h.passed * g.total) * e.total * f.total

\* Mutant of KeptFirst: ascending margins.
KeptNarrowFirst(ev, ab, cd) ==
  \/ WiderMargin(ev, cd, ab)
  \/ /\ ~WiderMargin(ev, ab, cd)
     /\ BeforePair(ChosenOf(ev, ab), RejectedOf(ev, ab), ChosenOf(ev, cd), RejectedOf(ev, cd))

KeptFirst(ev, ab, cd) ==
  \/ WiderMargin(ev, ab, cd)
  \/ /\ ~WiderMargin(ev, cd, ab)
     /\ BeforePair(ChosenOf(ev, ab), RejectedOf(ev, ab), ChosenOf(ev, cd), RejectedOf(ev, cd))

Kept(ev, D, cap) ==
  {ab \in D : cap = NoCap \/ Cardinality({cd \in D : KeptFirst(ev, cd, ab)}) < cap}

\* training_key without the prompt, which is one per problem.
SameTraining(ev, source, ab, cd) ==
  /\ source[ChosenOf(ev, ab)] = source[ChosenOf(ev, cd)]
  /\ source[RejectedOf(ev, ab)] = source[RejectedOf(ev, cd)]

\* dedupe_training_records: the least preference_id of a training key survives.
Duplicate(ev, source, K, ab) ==
  \E cd \in K : /\ SameTraining(ev, source, ab, cd)
                /\ BeforePair(ChosenOf(ev, cd), RejectedOf(ev, cd), ChosenOf(ev, ab), RejectedOf(ev, ab))

\* The lines of metadata.jsonl and rejections.jsonl that build_problem makes.
PairLines(ev, source, S, policy, cap) ==
  LET K == Kept(ev, Decided(ev, source, S, policy), cap) IN
  {[file |-> "metadata", chosen |-> ChosenOf(ev, ab), rejected |-> RejectedOf(ev, ab),
    policy |-> policy, duplicate |-> Duplicate(ev, source, K, ab)] : ab \in K}

\* Mutant of RejectionLines: truncated pairs leave no line.
RejectionLinesOfDecisions(ev, source, S, policy, cap) ==
  {[file |-> "rejections", a |-> ab[1], b |-> ab[2],
    reason |-> IF LineageHolds(source, S) THEN Outcome(ev, source, policy, ab) ELSE "integrity_failure"]
     : ab \in Combinations(S) \ Decided(ev, source, S, policy)}

RejectionLines(ev, source, S, policy, cap) ==
  LET D == Decided(ev, source, S, policy) IN
  {[file |-> "rejections", a |-> ab[1], b |-> ab[2],
    reason |-> IF ab \in D THEN "max_pairs_per_problem"
               ELSE IF LineageHolds(source, S) THEN Outcome(ev, source, policy, ab)
               ELSE "integrity_failure"]
     : ab \in Combinations(S) \ Kept(ev, D, cap)}

---------------------------------------------------------------------------
(* Splitting *)

Smallest(n, m) == IF n < m THEN n ELSE m

\* The problem at place k of the shuffled pool, itself sorted first.
Shuffled(pool, k) ==
  CHOOSE p \in pool : Cardinality({q \in pool : q < p}) + 1 = Shuffle[Cardinality(pool)][k]

\* The floor rule keeps train from being empty.
\* Mutant of TrainSize: no floor rule.
TrainSizeFloored(n) == (n * TrainPercent) \div 100

TrainSize(n) ==
  LET floor == (n * TrainPercent) \div 100
  IN Smallest(IF floor = 0 THEN 1 ELSE floor, n)

ValidationSize(n) == Smallest((n * ValidationPercent) \div 100, n - TrainSize(n))

Split(pool) ==
  LET n == Cardinality(pool)
      places(lo, hi) == {Shuffled(pool, k) : k \in lo..hi}
  IN [train      |-> places(1, TrainSize(n)),
      validation |-> places(TrainSize(n) + 1, TrainSize(n) + ValidationSize(n)),
      test       |-> places(TrainSize(n) + ValidationSize(n) + 1, n)]
=============================================================================

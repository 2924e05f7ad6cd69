--------------------------- MODULE JudgingProofs ---------------------------
(***************************************************************************)
(* Theorems about Judging, for every scenario, request, shuffle and ratio: *)
(* what is typed, what every line of the files says, that nothing is       *)
(* written twice or left out, and what a completed preference run holds,   *)
(* however the commands were cut short and resumed.                        *)
(*                                                                         *)
(* First the operators of Ranking, for any evidence: the integer key that  *)
(* the ranker sorts by and the score that the comparator compares say the  *)
(* same, and ranks and tie groups follow the comparison.                   *)
(*                                                                         *)
(* IInv: a line keeps its meaning once it is written, since the evidence   *)
(* never changes, so the invariant speaks of lines: whatever is in a file  *)
(* or is waiting to be appended to it is a member of Good(file).           *)
(*                                                                         *)
(* LogInv: the lines in the files and those still to be appended, taken    *)
(* together, do not change when one of them is appended.  What a problem   *)
(* needs is therefore stated of both, and only two kinds of step matter:   *)
(* a problem is begun, or the process stops and what it had is lost.       *)
(*                                                                         *)
(* SplitInv: how far the dataset files are, by where the process is.       *)
(*                                                                         *)
(* JudgedInv: how the manifest of the ranking run, the three kinds of its  *)
(* lines and the pairs made of them follow each other, so that a completed *)
(* run passes the validators.                                              *)
(***************************************************************************)
EXTENDS Validation, CommonLemmas

-----------------------------------------------------------------------------
(* Ranks and tie groups, as functions of the evidence. *)

\* What the lemmas need of evidence.
Counts(e) == e.total \in Nat /\ e.passed \in Nat /\ e.passed <= e.total

LEMMA EvidenceCounts ==
  ASSUME NEW n \in Nat, NEW e \in Evidence(n)
  PROVE  Counts(e)
BY DEF Evidence, Counts

\* Cross-multiplying with one common total compares the numbers of tests passed.
LEMMA CommonFactor ==
  ASSUME NEW a \in Nat, NEW b \in Nat, NEW t \in Nat, t # 0
  PROVE  a * t > b * t <=> a > b
OBVIOUS

\* The tests decide correctness, once the evidence is assessable.
LEMMA CorrectPassesAll ==
  ASSUME NEW e, Counts(e), ~Indeterminate(e), Assessable(e)
  PROVE  Correct(e) <=> e.passed = e.total
BY DEF Counts, Correct, Incorrect, Assessable

\* CandidateRanker's key and CandidateComparator's score agree on two
\* candidates of one problem.
LEMMA KeyIsScore ==
  ASSUME NEW e, NEW f, Counts(e), Counts(f), ~Indeterminate(e), ~Indeterminate(f),
         Assessable(e), Assessable(f), e.total = f.total
  PROVE  /\ RankedAbove(e, f) <=> Outscores(e, f)
         /\ Outscores(e, f) <=> e.passed > f.passed
<1>1. e.total # 0 BY DEF Indeterminate
<1>2. Outscores(e, f) <=> e.passed > f.passed
  BY <1>1, CommonFactor DEF Outscores, Counts
<1>3. RankedAbove(e, f) <=> e.passed > f.passed
  BY CorrectPassesAll DEF RankedAbove, Counts
<1>4. QED BY <1>2, <1>3

\* The candidates S of one problem as rank_problem accepts them.
Rankable(ev, S) ==
  /\ IsFiniteSet(S)
  /\ SameTotals(ev, S)
  /\ \A c \in S : Counts(ev[c]) /\ Assessable(ev[c])

LEMMA AboveIsBetter ==
  ASSUME NEW ev, NEW S, Rankable(ev, S), NEW c \in Ranked(ev, S)
  PROVE  Above(ev, S, c) = {d \in Ranked(ev, S) : ev[d].passed > ev[c].passed}
BY KeyIsScore DEF Above, Ranked, Rankable, SameTotals

LEMMA FiniteAbove ==
  ASSUME NEW ev, NEW S, IsFiniteSet(S), NEW c
  PROVE  /\ IsFiniteSet(Above(ev, S, c))
         /\ Cardinality(Above(ev, S, c)) \in Nat
BY FS_Subset, FS_CardinalityType DEF Above, Ranked

Keys(ev, S, c) == {<<Correct(ev[d]), ev[d].passed>> : d \in Above(ev, S, c)}

LEMMA FiniteKeys ==
  ASSUME NEW ev, NEW S, IsFiniteSet(S), NEW c
  PROVE  IsFiniteSet(Keys(ev, S, c)) /\ Cardinality(Keys(ev, S, c)) \in Nat
<1> DEFINE f == [d \in Above(ev, S, c) |-> <<Correct(ev[d]), ev[d].passed>>]
<1>1. f \in Surjection(Above(ev, S, c), Keys(ev, S, c))
  BY DEF Surjection, Keys
<1>2. IsFiniteSet(Keys(ev, S, c))
  BY <1>1, FiniteAbove, FS_Surjection
<1>3. QED BY <1>2, FS_CardinalityType

LEMMA GroupCountsKeys ==
  ASSUME NEW ev, NEW S, NEW c
  PROVE  TieGroup(ev, S, c) = IF c \in Ranked(ev, S) THEN 1 + Cardinality(Keys(ev, S, c)) ELSE 0
BY Zenon DEF TieGroup, Keys

LEMMA RanksAreNumbers ==
  ASSUME NEW ev, NEW S, IsFiniteSet(S), NEW c
  PROVE  RankOf(ev, S, c) \in Nat /\ TieGroup(ev, S, c) \in Nat
BY FiniteAbove, FiniteKeys, GroupCountsKeys DEF RankOf

\* A proper subset of a finite set is smaller.
LEMMA Smaller ==
  ASSUME NEW S, IsFiniteSet(S), NEW T \in SUBSET S, NEW x \in S, x \notin T
  PROVE  Cardinality(T) < Cardinality(S)
<1>1. Cardinality(T) <= Cardinality(S) /\ Cardinality(T) # Cardinality(S)
  BY FS_Subset
<1>2. Cardinality(T) \in Nat /\ Cardinality(S) \in Nat
  BY FS_Subset, FS_CardinalityType
<1>3. QED BY <1>1, <1>2

\* A better score means a smaller rank and an earlier tie group.
LEMMA BetterRanksFirst ==
  ASSUME NEW ev, NEW S, Rankable(ev, S), NEW a \in Ranked(ev, S), NEW b \in Ranked(ev, S),
         Outscores(ev[a], ev[b])
  PROVE  /\ 0 < RankOf(ev, S, a) /\ RankOf(ev, S, a) < RankOf(ev, S, b)
         /\ TieGroup(ev, S, a) < TieGroup(ev, S, b)
<1>1. IsFiniteSet(S) /\ \A c \in Ranked(ev, S) : ev[c].passed \in Nat
  BY DEF Rankable, Counts, Ranked
<1>2. ev[a].passed > ev[b].passed
  BY KeyIsScore DEF Rankable, Ranked, SameTotals
<1>3. Above(ev, S, a) \subseteq Above(ev, S, b)
  BY <1>1, <1>2, AboveIsBetter
<1>4. a \in Above(ev, S, b) /\ a \notin Above(ev, S, a)
  BY <1>1, <1>2, AboveIsBetter
<1>5. Cardinality(Above(ev, S, a)) < Cardinality(Above(ev, S, b))
  BY <1>1, <1>3, <1>4, FiniteAbove, Smaller
<1>6. Keys(ev, S, a) \subseteq Keys(ev, S, b)
  BY <1>3 DEF Keys
<1>7. <<Correct(ev[a]), ev[a].passed>> \in Keys(ev, S, b)
  BY <1>4 DEF Keys
<1>8. <<Correct(ev[a]), ev[a].passed>> \notin Keys(ev, S, a)
  <2>1. \A d \in Above(ev, S, a) : ev[d].passed # ev[a].passed
    BY <1>1, AboveIsBetter
  <2>2. QED BY <2>1 DEF Keys
<1>9. Cardinality(Keys(ev, S, a)) < Cardinality(Keys(ev, S, b))
  BY <1>1, <1>6, <1>7, <1>8, FiniteKeys, Smaller
<1>10. RankOf(ev, S, a) = 1 + Cardinality(Above(ev, S, a)) /\ RankOf(ev, S, b) = 1 + Cardinality(Above(ev, S, b))
  BY DEF RankOf
<1>11. TieGroup(ev, S, a) = 1 + Cardinality(Keys(ev, S, a)) /\ TieGroup(ev, S, b) = 1 + Cardinality(Keys(ev, S, b))
  BY GroupCountsKeys
<1>12. QED
  BY <1>1, <1>5, <1>9, <1>10, <1>11, FiniteAbove, FiniteKeys

\* Neither outscores the other: one rank and one tie group.
LEMMA TiesRankTogether ==
  ASSUME NEW ev, NEW S, Rankable(ev, S), NEW a \in Ranked(ev, S), NEW b \in Ranked(ev, S),
         ~Outscores(ev[a], ev[b]), ~Outscores(ev[b], ev[a])
  PROVE  /\ 0 < RankOf(ev, S, a) /\ RankOf(ev, S, a) = RankOf(ev, S, b)
         /\ TieGroup(ev, S, a) = TieGroup(ev, S, b)
<1>1. IsFiniteSet(S) /\ \A c \in Ranked(ev, S) : ev[c].passed \in Nat
  BY DEF Rankable, Counts, Ranked
<1>2. ev[a].passed = ev[b].passed
  BY <1>1, KeyIsScore DEF Rankable, Ranked, SameTotals
<1>3. Above(ev, S, a) = Above(ev, S, b)
  <2>1. Above(ev, S, a) = {d \in Ranked(ev, S) : ev[d].passed > ev[a].passed}
    BY AboveIsBetter
  <2>2. Above(ev, S, b) = {d \in Ranked(ev, S) : ev[d].passed > ev[b].passed}
    BY AboveIsBetter
  <2>3. QED BY <1>2, <2>1, <2>2
<1>4. QED BY <1>1, <1>3, FiniteAbove DEF RankOf, TieGroup

\* rankings.jsonl and comparisons.jsonl of one problem agree: the rank says of
\* any two candidates what the relation says.
THEOREM RankFollowsComparison ==
  ASSUME NEW ev, NEW S, Rankable(ev, S), NEW a \in S, NEW b \in S
  PROVE  LET r == RankOf(ev, S, a)   g == TieGroup(ev, S, a)
             s == RankOf(ev, S, b)   h == TieGroup(ev, S, b)
             k == Compare(ev[a], ev[b])
         IN /\ k = "A_BETTER" => 0 < r /\ r < s /\ g < h
            /\ k = "B_BETTER" => 0 < s /\ s < r /\ h < g
            /\ k = "TIE" => 0 < r /\ r = s /\ g = h
            /\ k = "INDETERMINATE" => 0 \in {r, s}
<1>1. CASE Indeterminate(ev[a]) \/ Indeterminate(ev[b])
  BY <1>1 DEF Compare, RankOf, Ranked
<1>2. CASE ~Indeterminate(ev[a]) /\ ~Indeterminate(ev[b])
  <2>1. a \in Ranked(ev, S) /\ b \in Ranked(ev, S)
    BY <1>2 DEF Ranked
  <2>2. CASE Outscores(ev[a], ev[b])
    BY <1>2, <2>1, <2>2, BetterRanksFirst DEF Compare
  <2>3. CASE ~Outscores(ev[a], ev[b]) /\ Outscores(ev[b], ev[a])
    BY <1>2, <2>1, <2>3, BetterRanksFirst DEF Compare
  <2>4. CASE ~Outscores(ev[a], ev[b]) /\ ~Outscores(ev[b], ev[a])
    BY <1>2, <2>1, <2>4, TiesRankTogether DEF Compare
  <2>5. QED BY <2>2, <2>3, <2>4
<1>3. QED BY <1>1, <1>2

-----------------------------------------------------------------------------
(* The runs. *)

\* Problem p can be ranked: rank_problem and the assessments accept it.
Comparable(p) ==
  /\ SameTotals(given.evidence, Of(p))
  /\ \A c \in Of(p) : Assessable(given.evidence[c])

\* What each line says beyond its type.
Says(l) ==
  /\ l.file = "metadata" => SoundPair(l)
  /\ l.file = "assessments" => Assessable(given.evidence[l.candidate])
  /\ l.file \in {"comparisons", "rejections"} => Before(l.a, l.b)
  /\ l.file = "rankings" =>
       LET S == Of(l.candidate[1]) IN
       /\ Comparable(l.candidate[1])
       /\ l.rank = RankOf(given.evidence, S, l.candidate)
       /\ l.group = TieGroup(given.evidence, S, l.candidate)
  /\ l.file = "comparisons" =>
       /\ l.a[1] = l.b[1]
       /\ Comparable(l.a[1])
       /\ l.relation = Compare(given.evidence[l.a], given.evidence[l.b])

Good(f) == {l \in Rows(f) : Says(l)}

FilesGood ==
  /\ files = [f \in FileNames |-> files[f]]
  /\ \A f \in FileNames : files[f] \in Seq(Good(f))

LinesGood == \A l \in proc.lines : l.file \in FileNames /\ l \in Good(l.file)

ManifestsTyped ==
  /\ given \in Scenarios
  /\ rankRun \in [status : Statuses, requested : SUBSET Problems]
  /\ prefRun \in [status : Statuses, policy : Policies, cap : Nat]
  /\ faults \in Nat

ProcTyped ==
  proc \in [cmd : {"none", "rank", "pair"}, at : Ats, todo : SUBSET Problems,
            problem : Problems \cup {0}, lines : {proc.lines},
            policy : Policies, cap : Nat, signalled : BOOLEAN]

\* RankProblem follows ScoreProblem, which let only assessable evidence pass.
ScoredIsAssessable ==
  proc.at = "assessed" => \A c \in Of(proc.problem) : Assessable(given.evidence[c])

IInv == ManifestsTyped /\ FilesGood /\ ProcTyped /\ LinesGood /\ ScoredIsAssessable

---------------------------------------------------------------------------
(* The evidence *)

LEMMA GivenEvidence ==
  ASSUME given \in Scenarios
  PROVE  /\ IsFiniteSet(Candidates)
         /\ \A p : IsFiniteSet(Of(p))
         /\ \A c \in Candidates : Counts(given.evidence[c])
<1>1. IsFiniteSet(Candidates)
  BY ScenariosAssumption DEF Candidates
<1>2. \A p : IsFiniteSet(Of(p))
  BY <1>1, FS_Subset DEF Of
<1>3. \A c \in Candidates : Counts(given.evidence[c])
  BY ScenariosAssumption, EvidenceCounts DEF Candidates
<1>4. QED BY <1>1, <1>2, <1>3

LEMMA ComparableIsRankable ==
  ASSUME given \in Scenarios, NEW p, Comparable(p)
  PROVE  Rankable(given.evidence, Of(p))
BY GivenEvidence DEF Comparable, Rankable, Of

\* Whatever does not change the evidence does not change what lines may say.
LEMMA GivenStays ==
  ASSUME given' = given
  PROVE  /\ Candidates' = Candidates
         /\ Problems' = Problems
         /\ \A p : Of(p)' = Of(p)
         /\ \A f : Good(f)' = Good(f)
<1>1. Candidates' = Candidates /\ Problems' = Problems
  BY DEF Candidates, Problems
<1>2. \A p : Of(p)' = Of(p)
  BY <1>1 DEF Of
<1>3. \A f : Rows(f)' = Rows(f)
  BY <1>1 DEF Rows
<1>4. \A l : Says(l)' <=> Says(l)
  BY <1>2 DEF Says, SoundPair, Comparable
<1>5. \A f : Good(f)' = Good(f)
  BY <1>3, <1>4 DEF Good
<1>6. QED BY <1>1, <1>2, <1>5

---------------------------------------------------------------------------
(* New lines *)

LEMMA NewAssessments ==
  ASSUME NEW p, \A c \in Of(p) : Assessable(given.evidence[c])
  PROVE  \A l \in AssessmentLines(p) : l.file \in FileNames /\ l \in Good(l.file)
BY DEF AssessmentLines, FileNames, Good, Rows, Says, Of

LEMMA NewRankings ==
  ASSUME given \in Scenarios, NEW p, Comparable(p)
  PROVE  \A l \in RankingLines(p) : l.file \in FileNames /\ l \in Good(l.file)
<1> SUFFICES ASSUME NEW c \in Of(p)
             PROVE  [file |-> "rankings", candidate |-> c,
                     rank |-> RankOf(given.evidence, Of(p), c),
                     group |-> TieGroup(given.evidence, Of(p), c)] \in Good("rankings")
  BY DEF RankingLines, FileNames
<1>1. c \in Candidates /\ c[1] = p
  BY DEF Of
<1>2. RankOf(given.evidence, Of(p), c) \in Nat /\ TieGroup(given.evidence, Of(p), c) \in Nat
  BY GivenEvidence, RanksAreNumbers
<1>3. QED BY <1>1, <1>2 DEF Good, Rows, Says

LEMMA NewComparisons ==
  ASSUME NEW p, Comparable(p)
  PROVE  \A l \in ComparisonLines(p) : l.file \in FileNames /\ l \in Good(l.file)
<1> SUFFICES ASSUME NEW ab \in Combinations(Of(p))
             PROVE  [file |-> "comparisons", a |-> ab[1], b |-> ab[2],
                     relation |-> Compare(given.evidence[ab[1]], given.evidence[ab[2]])]
                       \in Good("comparisons")
  BY DEF ComparisonLines, FileNames
<1>1. ab[1] \in Of(p) /\ ab[2] \in Of(p) /\ Before(ab[1], ab[2])
  BY DEF Combinations
<1>2. ab[1] \in Candidates /\ ab[2] \in Candidates /\ ab[1][1] = p /\ ab[2][1] = p
  BY <1>1 DEF Of
<1>3. Compare(given.evidence[ab[1]], given.evidence[ab[2]]) \in Relations
  BY DEF Compare, Relations
<1>4. QED BY <1>1, <1>2, <1>3 DEF Good, Rows, Says

\* A combination that _evaluate_pair decides to pair is a sound preference.
LEMMA DecidedIsSound ==
  ASSUME given \in Scenarios, NEW p, NEW S \in SUBSET Of(p), NEW policy,
         NEW ab \in Decided(given.evidence, given.source, S, policy), NEW duplicate
  PROVE  LET l == [file |-> "metadata", chosen |-> ChosenOf(given.evidence, ab),
                   rejected |-> RejectedOf(given.evidence, ab),
                   policy |-> policy, duplicate |-> duplicate]
         IN l.chosen \in S /\ l.rejected \in S /\ SoundPair(l)
<1> DEFINE ev == given.evidence
           ch == ChosenOf(ev, ab)
           re == RejectedOf(ev, ab)
<1>1. /\ ab[1] \in S /\ ab[2] \in S
      /\ LineageHolds(given.source, S)
      /\ Outcome(ev, given.source, policy, ab) = "pair"
  BY DEF Decided, Combinations
<1>2. /\ Compare(ev[ab[1]], ev[ab[2]]) \notin {"TIE", "INDETERMINATE"}
      /\ Gone \notin {given.source[ab[1]], given.source[ab[2]]}
      /\ given.source[ab[1]] # given.source[ab[2]]
      /\ Admits(policy, ev[ch], ev[re])
  BY <1>1 DEF Outcome, Refusal
<1>3. \/ ch = ab[1] /\ re = ab[2] /\ Outscores(ev[ab[1]], ev[ab[2]])
      \/ ch = ab[2] /\ re = ab[1] /\ Outscores(ev[ab[2]], ev[ab[1]])
  BY <1>2 DEF ChosenOf, RejectedOf, Compare
<1>4. Compare(ev[ch], ev[re]) = "A_BETTER"
  BY <1>2, <1>3 DEF Compare
<1>5. ch[1] = re[1]
  BY <1>1, <1>3 DEF Of
<1>6. QED BY <1>1, <1>2, <1>3, <1>4, <1>5 DEF SoundPair, LineageHolds

LEMMA NewPairs ==
  ASSUME given \in Scenarios, NEW p, NEW S \in SUBSET Of(p), NEW policy \in Policies, NEW cap
  PROVE  \A l \in PairLines(given.evidence, given.source, S, policy, cap) :
           l.file \in FileNames /\ l \in Good(l.file)
<1> DEFINE K == Kept(given.evidence, Decided(given.evidence, given.source, S, policy), cap)
           Line(ab) == [file |-> "metadata", chosen |-> ChosenOf(given.evidence, ab),
                        rejected |-> RejectedOf(given.evidence, ab), policy |-> policy,
                        duplicate |-> Duplicate(given.evidence, given.source, K, ab)]
<1>1. PairLines(given.evidence, given.source, S, policy, cap) = {Line(ab) : ab \in K}
  BY DEF PairLines
<1>2. ASSUME NEW ab \in K PROVE Line(ab) \in Good("metadata")
  <2>1. ab \in Decided(given.evidence, given.source, S, policy)
    BY <1>2 DEF Kept
  <2>2. Duplicate(given.evidence, given.source, K, ab) \in BOOLEAN
    BY DEF Duplicate
  <2>3. /\ ChosenOf(given.evidence, ab) \in S /\ RejectedOf(given.evidence, ab) \in S
        /\ SoundPair(Line(ab))
    BY <2>1, DecidedIsSound
  <2>4. S \subseteq Candidates
    BY DEF Of
  <2> HIDE DEF K
  <2>5. Line(ab) \in Rows("metadata")
    BY <2>2, <2>3, <2>4 DEF Rows
  <2>6. QED BY <2>3, <2>5 DEF Good, Says
<1>3. QED BY <1>1, <1>2 DEF FileNames

LEMMA NewRejections ==
  ASSUME NEW p, NEW S \in SUBSET Of(p), NEW policy \in Policies, NEW cap
  PROVE  \A l \in RejectionLines(given.evidence, given.source, S, policy, cap) :
           l.file \in FileNames /\ l \in Good(l.file)
<1> DEFINE D == Decided(given.evidence, given.source, S, policy)
           Reason(ab) == IF ab \in D THEN "max_pairs_per_problem"
                         ELSE IF LineageHolds(given.source, S)
                         THEN Outcome(given.evidence, given.source, policy, ab)
                         ELSE "integrity_failure"
           Line(ab) == [file |-> "rejections", a |-> ab[1], b |-> ab[2], reason |-> Reason(ab)]
           Left == Combinations(S) \ Kept(given.evidence, D, cap)
<1>1. RejectionLines(given.evidence, given.source, S, policy, cap) = {Line(ab) : ab \in Left}
  BY DEF RejectionLines
<1>2. ASSUME NEW ab \in Left PROVE Line(ab) \in Good("rejections")
  <2>1. ab[1] \in Candidates /\ ab[2] \in Candidates /\ Before(ab[1], ab[2])
    BY DEF Of, Combinations
  <2>2. Outcome(given.evidence, given.source, policy, ab) \in Reasons \cup {"pair"}
    BY DEF Outcome, Refusal, Reasons
  <2>3. Reason(ab) \in Reasons
    BY <1>2, <2>2 DEF Decided, Reasons
  <2> HIDE DEF Reason
  <2>4. QED BY <2>1, <2>3 DEF Good, Rows, Says
<1>3. QED BY <1>1, <1>2 DEF FileNames

---------------------------------------------------------------------------
(* The initial state, and the parts of a step *)

LEMMA InitGood == Init => IInv
<1> SUFFICES ASSUME Init PROVE IInv
  OBVIOUS
<1>1. FilesGood
  BY DEF Init, FilesGood
<1>2. ManifestsTyped
  BY ScenariosAssumption DEF Init, ManifestsTyped, Statuses, Policies, NoPolicy, NoCap
<1>3. ProcTyped /\ LinesGood /\ ScoredIsAssessable
  BY DEF Init, Idle, ProcTyped, LinesGood, ScoredIsAssessable, Ats, Policies, NoPolicy, NoCap
<1>4. QED BY <1>1, <1>2, <1>3 DEF IInv

LEMMA FilesStay ==
  ASSUME IInv, given' = given, files' = files
  PROVE  FilesGood'
BY GivenStays DEF IInv, FilesGood

\* Lines of the process that are a subset of what was there, or new and good.
LEMMA LinesStay ==
  ASSUME IInv, given' = given,
         \A l \in proc'.lines : l \in proc.lines \/ (l.file \in FileNames /\ l \in Good(l.file))
  PROVE  LinesGood'
BY GivenStays DEF IInv, LinesGood

LEMMA ToIdle ==
  ASSUME IInv, given' = given, proc' = Idle
  PROVE  ProcTyped' /\ LinesGood' /\ ScoredIsAssessable'
<1>1. proc'.lines = {} /\ proc'.at # "assessed"
  BY DEF Idle
<1>2. ProcTyped'
  BY DEF ProcTyped, Idle, Ats, Policies, NoPolicy, NoCap
<1>3. QED BY <1>1, <1>2 DEF LinesGood, ScoredIsAssessable

\* A process that has just been started, or has just entered its loop.
Fresh == [cmd : {"none", "rank", "pair"}, at : {"idle", "start", "loop"}, todo : SUBSET Problems,
          problem : {0}, lines : {{}}, policy : Policies, cap : Nat, signalled : BOOLEAN]

LEMMA IdleIsFresh == Idle \in Fresh
BY DEF Idle, Fresh, Policies, NoPolicy, NoCap

LEMMA NewCommand ==
  ASSUME IInv, given' = given, proc' \in Fresh
  PROVE  ProcTyped' /\ LinesGood' /\ ScoredIsAssessable'
<1>1. proc'.lines = {} /\ proc'.at # "assessed"
  BY DEF Fresh
<1>2. ProcTyped'
  BY <1>1, GivenStays DEF ProcTyped, Ats, Fresh
<1>3. QED BY <1>1, <1>2 DEF LinesGood, ScoredIsAssessable

LEMMA ManifestsStay ==
  ASSUME IInv, UNCHANGED <<given, rankRun, prefRun, faults>>
  PROVE  ManifestsTyped'
BY GivenStays DEF IInv, ManifestsTyped

---------------------------------------------------------------------------
(* One lemma per kind of step *)

LEMMA AppendStep == IInv /\ AppendLine => IInv'
<1> SUFFICES ASSUME IInv, AppendLine PROVE IInv'
  OBVIOUS
<1>1. PICK l \in proc.lines : /\ files' = [files EXCEPT ![l.file] = Append(@, l)]
                              /\ proc' = [proc EXCEPT !.lines = @ \ {l}]
  BY DEF AppendLine
<1>2. UNCHANGED <<given, rankRun, prefRun, faults>>
  BY DEF AppendLine
<1>3. FilesGood'
  <2>1. l.file \in FileNames /\ l \in Good(l.file)
    BY DEF IInv, LinesGood
  <2>2. files = [f \in FileNames |-> files[f]] /\ \A f \in FileNames : files[f] \in Seq(Good(f))
    BY DEF IInv, FilesGood
  <2>3. files' = [f \in FileNames |-> files'[f]] /\ \A f \in FileNames : files'[f] \in Seq(Good(f))
    <3>1. files' = [f \in FileNames |-> IF f = l.file THEN Append(files[f], l) ELSE files[f]]
      BY <1>1, <2>1, <2>2
    <3>2. Append(files[l.file], l) \in Seq(Good(l.file))
      BY <2>1, <2>2
    <3>3. QED BY <2>2, <3>1, <3>2
  <2>4. QED BY <1>2, <2>3, GivenStays DEF FilesGood
<1>4. ProcTyped'
  BY <1>1, <1>2, GivenStays DEF IInv, ProcTyped
<1>5. proc'.lines \subseteq proc.lines /\ proc'.at = proc.at /\ proc'.problem = proc.problem
  BY <1>1 DEF IInv, ProcTyped
<1>6. LinesGood'
  BY <1>2, <1>5, LinesStay
<1>7. ScoredIsAssessable'
  BY <1>2, <1>5, GivenStays DEF IInv, ScoredIsAssessable
<1>8. QED BY <1>2, <1>3, <1>4, <1>6, <1>7, ManifestsStay DEF IInv

\* Steps of `rank run`.
LEMMA RankStep ==
  IInv /\ (StartRanking \/ BeginRanking \/ ResumeRanking \/ ScoreProblem \/ RankProblem \/ EndRanking)
    => IInv'
<1> SUFFICES ASSUME IInv, StartRanking \/ BeginRanking \/ ResumeRanking
                            \/ ScoreProblem \/ RankProblem \/ EndRanking
             PROVE IInv'
  OBVIOUS
<1> USE DEF RunRanking
<1>1. UNCHANGED <<given, files, prefRun, faults>>
  BY DEF StartRanking, BeginRanking, ResumeRanking, ScoreProblem, RankProblem, EndRanking
<1>2. FilesGood'
  BY <1>1, FilesStay
<1>3. ManifestsTyped'
  <2>1. rankRun' \in [status : Statuses, requested : SUBSET Problems]
    <3>1. CASE StartRanking
      <4>1. \A S \in Selections : S \subseteq Problems
        BY DEF Selections
      <4>2. QED BY <3>1, <4>1 DEF StartRanking, Statuses
    <3>2. CASE BeginRanking \/ ResumeRanking
      BY <3>2 DEF BeginRanking, ResumeRanking, IInv, ManifestsTyped, Statuses
    <3>3. CASE ScoreProblem \/ RankProblem
      BY <3>3 DEF ScoreProblem, RankProblem, IInv, ManifestsTyped
    <3>4. CASE EndRanking
      BY <3>4 DEF EndRanking, IInv, ManifestsTyped, Statuses
    <3>5. QED BY <3>1, <3>2, <3>3, <3>4
  <2>2. QED BY <1>1, <2>1, GivenStays DEF IInv, ManifestsTyped
<1>4. ProcTyped' /\ LinesGood' /\ ScoredIsAssessable'
  <2>1. CASE StartRanking \/ BeginRanking \/ ResumeRanking
    <3>1. \/ proc' = [Idle EXCEPT !.cmd = "rank", !.at = "start"]
          \/ proc' = [Idle EXCEPT !.cmd = "rank", !.at = "loop",
                                  !.todo = rankRun.requested \ RankedProblems]
      BY <2>1 DEF StartRanking, BeginRanking, ResumeRanking
    <3>2. rankRun.requested \ RankedProblems \subseteq Problems
      BY DEF IInv, ManifestsTyped
    <3>3. proc' \in Fresh
      BY <3>1, <3>2, IdleIsFresh DEF Fresh
    <3>4. QED BY <1>1, <3>3, NewCommand
  <2>2. CASE ScoreProblem
    <3>1. PICK p \in Problems :
            proc' = IF \A c \in Of(p) : Assessable(given.evidence[c])
                    THEN [proc EXCEPT !.todo = @ \ {p}, !.problem = p, !.at = "assessed",
                                      !.lines = AssessmentLines(p)]
                    ELSE Idle
      BY <2>2 DEF ScoreProblem
    <3>2. CASE \A c \in Of(p) : Assessable(given.evidence[c])
      <4>1. /\ proc'.lines = AssessmentLines(p) /\ proc'.problem = p
            /\ ProcTyped'
        BY <1>1, <3>1, <3>2, GivenStays DEF IInv, ProcTyped, Ats
      <4>2. LinesGood'
        BY <1>1, <3>2, <4>1, NewAssessments, LinesStay
      <4>3. ScoredIsAssessable'
        BY <1>1, <3>2, <4>1, GivenStays DEF ScoredIsAssessable
      <4>4. QED BY <4>1, <4>2, <4>3
    <3>3. CASE ~\A c \in Of(p) : Assessable(given.evidence[c])
      BY <1>1, <3>1, <3>3, ToIdle
    <3>4. QED BY <3>2, <3>3
  <2>3. CASE RankProblem
    <3>1. CASE SameTotals(given.evidence, Of(proc.problem))
      <4>1. proc' = [proc EXCEPT !.at = "loop",
              !.lines = RankingLines(proc.problem) \cup ComparisonLines(proc.problem)]
        BY <2>3, <3>1 DEF RankProblem
      <4>2. Comparable(proc.problem)
        BY <2>3, <3>1 DEF RankProblem, IInv, ScoredIsAssessable, Comparable
      <4>3. /\ proc'.lines = RankingLines(proc.problem) \cup ComparisonLines(proc.problem)
            /\ proc'.at # "assessed"
            /\ ProcTyped'
        BY <1>1, <4>1, GivenStays DEF IInv, ProcTyped, Ats
      <4>4. LinesGood'
        BY <1>1, <4>2, <4>3, NewRankings, NewComparisons, LinesStay DEF IInv, ManifestsTyped
      <4>5. QED BY <4>3, <4>4 DEF ScoredIsAssessable
    <3>2. CASE ~SameTotals(given.evidence, Of(proc.problem))
      BY <1>1, <2>3, <3>2, ToIdle DEF RankProblem
    <3>3. QED BY <3>1, <3>2
  <2>4. CASE EndRanking
    BY <1>1, <2>4, ToIdle DEF EndRanking
  <2>5. QED BY <2>1, <2>2, <2>3, <2>4
<1>5. QED BY <1>2, <1>3, <1>4 DEF IInv

\* Steps of `preferences generate` up to the end of its loop.
LEMMA PairStep ==
  IInv /\ (StartPairing \/ BeginPairing \/ ResumePairing \/ BuildProblem \/ RefuseProblem) => IInv'
<1> SUFFICES ASSUME IInv, StartPairing \/ BeginPairing \/ ResumePairing \/ BuildProblem \/ RefuseProblem
             PROVE IInv'
  OBVIOUS
<1>1. UNCHANGED <<given, files, rankRun, faults>>
  BY DEF StartPairing, BeginPairing, ResumePairing, RunPairing, BuildProblem, RefuseProblem
<1>2. FilesGood'
  BY <1>1, FilesStay
<1>3. \A r \in Requests : r[1] \in Policies /\ r[2] \in Nat
  BY RequestsAssumption
<1>4. ManifestsTyped'
  <2>1. prefRun' \in [status : Statuses, policy : Policies, cap : Nat]
    <3>1. CASE StartPairing
      <4>1. PICK r \in Requests : prefRun' = [status |-> "created", policy |-> r[1], cap |-> r[2]]
        BY <3>1 DEF StartPairing
      <4>2. r[1] \in Policies /\ r[2] \in Nat
        BY <1>3
      <4>3. QED BY <4>1, <4>2 DEF Statuses
    <3>2. CASE BeginPairing \/ ResumePairing
      BY <3>2 DEF BeginPairing, ResumePairing, RunPairing, IInv, ManifestsTyped, Statuses
    <3>3. CASE BuildProblem \/ RefuseProblem
      BY <3>3 DEF BuildProblem, RefuseProblem, IInv, ManifestsTyped
    <3>4. QED BY <3>1, <3>2, <3>3
  <2>2. QED BY <1>1, <2>1, GivenStays DEF IInv, ManifestsTyped
<1>5. ProcTyped' /\ LinesGood' /\ ScoredIsAssessable'
  <2>1. CASE StartPairing \/ BeginPairing \/ ResumePairing
    <3>1. \A q \in AssessedProblems : q \in Problems
      <4>1. \A l \in Lines("assessments") : l.candidate \in Candidates
        BY DEF IInv, FilesGood, Lines, Good, Rows, FileNames
      <4>2. QED BY <4>1 DEF AssessedProblems, Assessed, Problems
    <3>2. proc.policy \in Policies /\ proc.cap \in Nat
      BY DEF IInv, ProcTyped
    <3>3. PICK policy \in Policies, cap \in Nat :
            \/ proc' = [Idle EXCEPT !.cmd = "pair", !.at = "start", !.policy = policy, !.cap = cap]
            \/ proc' = [Idle EXCEPT !.cmd = "pair", !.at = "loop", !.policy = policy, !.cap = cap,
                                    !.todo = AssessedProblems \ PairedProblems]
      BY <1>3, <2>1, <3>2 DEF StartPairing, BeginPairing, ResumePairing, RunPairing
    <3>4. proc' \in Fresh
      BY <3>1, <3>3, IdleIsFresh DEF Fresh
    <3>5. QED BY <1>1, <3>4, NewCommand
  <2>2. CASE BuildProblem
    <3> DEFINE New(S) ==
                 PairLines(given.evidence, given.source, S, proc.policy, proc.cap)
                   \cup RejectionLines(given.evidence, given.source, S, proc.policy, proc.cap)
    <3>1. PICK p \in Problems :
            proc' = [proc EXCEPT !.todo = @ \ {p}, !.problem = p, !.lines = New(Of(p) \cap Assessed)]
      BY <2>2 DEF BuildProblem
    <3>2. proc.at = "loop"
      BY <2>2 DEF BuildProblem, AtLoop
    <3> HIDE DEF New
    <3>3. proc'.lines = New(Of(p) \cap Assessed) /\ proc'.at = "loop" /\ ProcTyped'
      BY <1>1, <3>1, <3>2, GivenStays DEF IInv, ProcTyped
    <3>4. \A l \in New(Of(p) \cap Assessed) : l.file \in FileNames /\ l \in Good(l.file)
      BY NewPairs, NewRejections DEF New, IInv, ManifestsTyped, ProcTyped
    <3>5. LinesGood'
      BY <1>1, <3>3, <3>4, LinesStay
    <3>6. QED BY <3>3, <3>5 DEF ScoredIsAssessable
  <2>3. CASE RefuseProblem
    BY <1>1, <2>3, ToIdle DEF RefuseProblem
  <2>4. QED BY <2>1, <2>2, <2>3
<1>6. QED BY <1>2, <1>4, <1>5 DEF IInv

\* Steps that derive the dataset files, and end the command.
LEMMA WriteStep ==
  IInv /\ (Finalize \/ WriteSplit \/ WritePreferences \/ WriteSplitFile \/ EndPairing) => IInv'
<1> SUFFICES ASSUME IInv, Finalize \/ WriteSplit \/ WritePreferences \/ WriteSplitFile \/ EndPairing
             PROVE IInv'
  OBVIOUS
<1>1. UNCHANGED <<given, files, rankRun, faults>>
  BY DEF Finalize, WriteSplit, WritePreferences, WriteSplitFile, EndPairing
<1>2. FilesGood'
  BY <1>1, FilesStay
<1>3. CASE EndPairing
  <2>1. prefRun' \in [status : Statuses, policy : Policies, cap : Nat]
    BY <1>3 DEF EndPairing, IInv, ManifestsTyped, Statuses
  <2>2. ManifestsTyped'
    BY <1>1, <2>1, GivenStays DEF IInv, ManifestsTyped
  <2>3. QED BY <1>1, <1>2, <1>3, <2>2, ToIdle DEF EndPairing, IInv
<1>4. CASE Finalize \/ WriteSplit \/ WritePreferences \/ WriteSplitFile
  <2>1. PICK at \in Ats \ {"assessed"} : proc' = [proc EXCEPT !.at = at]
    BY <1>4 DEF Finalize, WriteSplit, WritePreferences, WriteSplitFile, Ats, After, SplitNames
  <2>2. prefRun' = prefRun
    BY <1>4 DEF Finalize, WriteSplit, WritePreferences, WriteSplitFile
  <2>3. proc'.at # "assessed" /\ proc'.lines = proc.lines /\ ProcTyped'
    BY <1>1, <2>1, GivenStays DEF IInv, ProcTyped
  <2>4. QED BY <1>1, <1>2, <2>2, <2>3, ManifestsStay, LinesStay DEF IInv, ScoredIsAssessable
<1>5. QED BY <1>3, <1>4

LEMMA FaultStep == IInv /\ (Interrupt \/ Die) => IInv'
<1> SUFFICES ASSUME IInv, Interrupt \/ Die PROVE IInv'
  OBVIOUS
<1>1. UNCHANGED <<given, files>> /\ faults' = faults - 1 /\ faults > 0
  BY DEF Interrupt, Die
<1>2. FilesGood'
  BY <1>1, FilesStay
<1>3. ManifestsTyped'
  <2>1. /\ rankRun' \in [status : Statuses, requested : SUBSET Problems]
        /\ prefRun' \in [status : Statuses, policy : Policies, cap : Nat]
    BY DEF Interrupt, Die, IInv, ManifestsTyped, Statuses
  <2>2. faults' \in Nat
    BY <1>1 DEF IInv, ManifestsTyped
  <2>3. QED BY <1>1, <2>1, <2>2, GivenStays DEF IInv, ManifestsTyped
<1>4. CASE proc' = Idle
  BY <1>1, <1>2, <1>3, <1>4, ToIdle DEF IInv
<1>5. CASE proc' # Idle
  <2>1. proc' = [proc EXCEPT !.at = "split", !.lines = {}, !.todo = {}, !.signalled = TRUE]
    BY <1>5 DEF Interrupt, Die
  <2>2. proc'.at # "assessed" /\ proc'.lines = {} /\ ProcTyped'
    BY <1>1, <2>1, GivenStays DEF IInv, ProcTyped, Ats
  <2>3. QED BY <1>2, <1>3, <2>2 DEF IInv, LinesGood, ScoredIsAssessable
<1>6. QED BY <1>4, <1>5

LEMMA StepGood == IInv /\ [Next]_vars => IInv'
<1> SUFFICES ASSUME IInv, [Next]_vars PROVE IInv'
  OBVIOUS
<1>1. CASE AppendLine
  BY <1>1, AppendStep
<1>2. CASE StartRanking \/ BeginRanking \/ ResumeRanking \/ ScoreProblem \/ RankProblem \/ EndRanking
  BY <1>2, RankStep
<1>3. CASE StartPairing \/ BeginPairing \/ ResumePairing \/ BuildProblem \/ RefuseProblem
  BY <1>3, PairStep
<1>4. CASE Finalize \/ WriteSplit \/ WritePreferences \/ WriteSplitFile \/ EndPairing
  BY <1>4, WriteStep
<1>5. CASE Interrupt \/ Die
  BY <1>5, FaultStep
<1>6. CASE UNCHANGED vars
  <2>1. UNCHANGED <<given, files, rankRun, prefRun, proc, faults>>
    BY <1>6 DEF vars
  <2>2. ProcTyped' /\ ScoredIsAssessable'
    BY <2>1, GivenStays DEF IInv, ProcTyped, ScoredIsAssessable
  <2>3. QED BY <2>1, <2>2, FilesStay, ManifestsStay, LinesStay DEF IInv
<1>7. QED BY <1>1, <1>2, <1>3, <1>4, <1>5, <1>6 DEF Next, Work

LEMMA Invariance == Spec => []IInv
BY InitGood, StepGood, PTL DEF Spec

---------------------------------------------------------------------------
(* Theorems *)

LEMMA LinesOfFiles ==
  ASSUME IInv, NEW f \in FileNames, NEW l \in Lines(f)
  PROVE  l \in Rows(f) /\ Says(l) /\ l.file = f
<1>1. l \in Good(f)
  BY DEF IInv, FilesGood, Lines
<1>2. QED BY <1>1 DEF Good, Rows, FileNames

LEMMA LargerSeq ==
  ASSUME NEW B, NEW A \in SUBSET B, NEW s \in Seq(A)
  PROVE  s \in Seq(B)
OBVIOUS

\* The manifests, the append-only files and the process keep their types.
THEOREM RunsStayTyped == Spec => []RunsTyped
<1>1. IInv => RunsTyped
  <2> SUFFICES ASSUME IInv PROVE RunsTyped
    OBVIOUS
  <2>1. \A f \in FileNames : files[f] \in Seq(Rows(f))
    <3>1. \A f \in FileNames : Good(f) \subseteq Rows(f) /\ files[f] \in Seq(Good(f))
      BY DEF IInv, FilesGood, Good
    <3>2. QED BY <3>1, LargerSeq
  <2>2. \A l \in proc.lines : l.file \in FileNames /\ l \in Rows(l.file)
    BY DEF IInv, LinesGood, Good
  <2>3. QED
    BY <2>1, <2>2 DEF RunsTyped, IInv, ManifestsTyped, FilesGood, ProcTyped
<1>2. QED BY <1>1, Invariance, PTL

\* Every line of metadata.jsonl is a sound preference: _evaluate_pair decided
\* it, and no interruption or resumption with another policy can spoil it.
THEOREM PairsStaySound == Spec => []PairsAreSound
<1>1. IInv => PairsAreSound
  BY LinesOfFiles DEF PairsAreSound, Says, FileNames
<1>2. QED BY <1>1, Invariance, PTL

LEMMA LinesAgreeOnRanks == IInv => RanksAgree
<1> SUFFICES ASSUME IInv, NEW k \in Lines("comparisons"),
                    NEW l \in Lines("rankings"), NEW m \in Lines("rankings"),
                    l.candidate = k.a, m.candidate = k.b
             PROVE  /\ k.relation = "A_BETTER" => 0 < l.rank /\ l.rank < m.rank /\ l.group < m.group
                    /\ k.relation = "B_BETTER" => 0 < m.rank /\ m.rank < l.rank /\ m.group < l.group
                    /\ k.relation = "TIE" => 0 < l.rank /\ l.rank = m.rank /\ l.group = m.group
                    /\ k.relation = "INDETERMINATE" => 0 \in {l.rank, m.rank}
                    /\ k.relation \in Relations
  BY DEF RanksAgree, Relations
<1> DEFINE ev == given.evidence
           S == Of(k.a[1])
<1>1. /\ k.a \in Candidates /\ k.b \in Candidates /\ k.relation \in Relations
      /\ Says(k) /\ k.file = "comparisons"
  BY LinesOfFiles DEF Rows, FileNames
<1>2. /\ Says(l) /\ l.file = "rankings" /\ Says(m) /\ m.file = "rankings"
  BY LinesOfFiles DEF FileNames
<1>3. k.a \in S /\ k.b \in S /\ Comparable(k.a[1]) /\ k.relation = Compare(ev[k.a], ev[k.b])
  BY <1>1 DEF Says, Of
<1>4. /\ l.rank = RankOf(ev, S, k.a) /\ l.group = TieGroup(ev, S, k.a)
      /\ m.rank = RankOf(ev, S, k.b) /\ m.group = TieGroup(ev, S, k.b)
  BY <1>1, <1>2 DEF Says
<1>5. Rankable(ev, S)
  BY <1>3, ComparableIsRankable DEF IInv, ManifestsTyped
<1> HIDE DEF ev, S
<1>6. QED BY <1>1, <1>3, <1>4, <1>5, RankFollowsComparison

\* At every step rankings.jsonl and comparisons.jsonl say the same of every two
\* candidates, whatever the tests, and however often ranking was cut short.
THEOREM RanksStayInAgreement == Spec => []RanksAgree
BY LinesAgreeOnRanks, Invariance, PTL

---------------------------------------------------------------------------
(* What is written of a problem, and how often *)

\* The problem that a line is about.
Topic(l) ==
  IF l.file \in {"assessments", "rankings"} THEN l.candidate[1]
  ELSE IF l.file = "metadata" THEN l.chosen[1] ELSE l.a[1]

\* What must not be written twice.
Keyed  == {"rankings", "metadata", "rejections"}
Key(l) == IF l.file = "rankings" THEN <<"ranked", l.candidate>> ELSE <<"paired", Sides(l)>>

\* Which files the process appends to.
Open == IF proc.cmd = "pair" THEN {"metadata", "rejections"}
        ELSE IF proc.at = "assessed" THEN {"assessments"} ELSE {"rankings", "comparisons"}

\* The lines belong to one problem, which is not to be done again.
AtWork ==
  /\ proc.lines # {} => proc.at \in {"loop", "assessed"}
  /\ proc.at = "assessed" => proc.cmd = "rank" /\ proc.problem \notin RankedProblems
  /\ proc.lines # {} \/ proc.at = "assessed" => proc.problem \in Problems \ proc.todo
  /\ \A l \in proc.lines : l.file \in Open /\ Topic(l) = proc.problem

\* What the loop still has to do, it has not begun.
TodoIsNew ==
  /\ proc.cmd = "rank" /\ proc.at \in {"loop", "assessed"} => proc.todo \cap RankedProblems = {}
  /\ proc.cmd = "pair" /\ proc.at = "loop" =>
       /\ proc.todo \subseteq AssessedProblems
       /\ proc.todo \cap PairedProblems = {}

KeysAreNew ==
  /\ \A f, g \in Keyed : \A i \in DOMAIN files[f], j \in DOMAIN files[g] :
       Key(files[f][i]) = Key(files[g][j]) => f = g /\ i = j
  /\ \A l \in proc.lines : l.file \in Keyed =>
       \A f \in Keyed : \A i \in DOMAIN files[f] : Key(files[f][i]) # Key(l)
  /\ \A l, m \in proc.lines : l.file \in Keyed /\ m.file \in Keyed /\ Key(l) = Key(m) => l = m

\* What is recorded of pairs, or will be.
Pending == {l \in proc.lines : l.file \in {"metadata", "rejections"}}
Written == Recorded \cup Pending
WrittenOf(p)  == {l \in Written : Topic(l) = p}

CapIsKept ==
  \A k, l \in Written :
    Truncated(k) /\ l.file = "metadata" /\ Topic(k) = Topic(l) =>
      ~WiderMargin(given.evidence, Sides(k), Sides(l))

LinesOf(S, policy, cap) ==
  PairLines(given.evidence, given.source, S, policy, cap)
    \cup RejectionLines(given.evidence, given.source, S, policy, cap)

\* What is assessed, or will be.
Scored == Assessed \cup {l.candidate : l \in {m \in proc.lines : m.file = "assessments"}}

\* A problem that was not cut short is there whole.
WholeUnlessTorn ==
  /\ \A p : <<"rank", p>> \notin torn /\ (\E c \in Scored : c[1] = p) => Of(p) \subseteq Scored
  /\ \A p : {<<"rank", p>>, <<"pair", p>>} \cap torn = {} /\ WrittenOf(p) # {} =>
       \E policy \in Policies, cap \in Nat : WrittenOf(p) = LinesOf(Of(p), policy, cap)

LogInv == AtWork /\ TodoIsNew /\ KeysAreNew /\ CapIsKept /\ WholeUnlessTorn

\* The problems with training records, and the dataset files written before
\* the process is at a place of the end of `preferences generate`.
Pool == {ab[1][1] : ab \in TrainingPairs}
Behind(at) ==
  CASE at = "preferences" -> {}
    [] at = "train"       -> {"preferences"}
    [] at = "validation"  -> {"preferences", "train"}
    [] at = "test"        -> {"preferences", "train", "validation"}
    [] at = "end"         -> {"preferences", "train", "validation", "test"}

FilesUpTo(at) ==
  /\ split = Split(Pool)
  /\ "preferences" \in Behind(at) => dataset.preferences = TrainingPairs
  /\ \A s \in SplitNames \cap Behind(at) :
       dataset[s] = {ab \in TrainingPairs : ab[1][1] \in split[s]}

SplitInv ==
  /\ DOMAIN dataset = SplitNames \cup {"preferences"}
  /\ proc.at \in {"preferences", "train", "validation", "test", "end", "split"} => proc.cmd = "pair"
  /\ proc.at \in {"preferences", "train", "validation", "test", "end"} => FilesUpTo(proc.at)
  /\ prefRun.status = "completed" => FilesUpTo("end") /\ proc.cmd # "pair"

---------------------------------------------------------------------------
(* The lines of one problem *)

LEMMA CandidatesAreNumbers ==
  ASSUME given \in Scenarios
  PROVE  Candidates \subseteq Nat \X Nat
BY ScenariosAssumption DEF Candidates

\* What build_problem makes of one combination.
LineOf(S, policy, cap, ab) ==
  LET ev == given.evidence
      D  == Decided(ev, given.source, S, policy)
      K  == Kept(ev, D, cap)
  IN  IF ab \in K
      THEN [file |-> "metadata", chosen |-> ChosenOf(ev, ab), rejected |-> RejectedOf(ev, ab),
            policy |-> policy, duplicate |-> Duplicate(ev, given.source, K, ab)]
      ELSE [file |-> "rejections", a |-> ab[1], b |-> ab[2],
            reason |-> IF ab \in D THEN "max_pairs_per_problem"
                       ELSE IF LineageHolds(given.source, S)
                       THEN Outcome(ev, given.source, policy, ab) ELSE "integrity_failure"]

LEMMA LinesByCombination ==
  ASSUME NEW S, NEW policy, NEW cap
  PROVE  LinesOf(S, policy, cap) = {LineOf(S, policy, cap, ab) : ab \in Combinations(S)}
<1> DEFINE D == Decided(given.evidence, given.source, S, policy)
           K == Kept(given.evidence, D, cap)
<1>1. K \subseteq D /\ D \subseteq Combinations(S)
  BY DEF Kept, Decided
<1>2. PairLines(given.evidence, given.source, S, policy, cap) = {LineOf(S, policy, cap, ab) : ab \in K}
  BY DEF PairLines, LineOf
<1>3. RejectionLines(given.evidence, given.source, S, policy, cap)
        = {LineOf(S, policy, cap, ab) : ab \in Combinations(S) \ K}
  BY DEF RejectionLines, LineOf
<1> HIDE DEF K, D
<1>4. QED BY <1>1, <1>2, <1>3 DEF LinesOf

LEMMA SidesOfLine ==
  ASSUME given \in Scenarios, NEW p, NEW S \in SUBSET Of(p), NEW policy, NEW cap,
         NEW ab \in Combinations(S)
  PROVE  LET l == LineOf(S, policy, cap, ab) IN
         /\ Sides(l) = ab /\ Topic(l) = p /\ Sides(l)[1][1] = p
         /\ l.file = IF ab \in Kept(given.evidence, Decided(given.evidence, given.source, S, policy), cap)
                     THEN "metadata" ELSE "rejections"
<1> DEFINE l == LineOf(S, policy, cap, ab)
           K == Kept(given.evidence, Decided(given.evidence, given.source, S, policy), cap)
           ch == ChosenOf(given.evidence, ab)
           re == RejectedOf(given.evidence, ab)
<1>1. /\ ab = <<ab[1], ab[2]>> /\ ab[1] \in Of(p) /\ ab[2] \in Of(p)
      /\ Before(ab[1], ab[2])
  BY DEF Combinations
<1>2. ab[1] \in Nat \X Nat /\ ab[2] \in Nat \X Nat /\ ab[1][1] = p /\ ab[2][1] = p
  BY <1>1, CandidatesAreNumbers DEF Of
<1>3. ~Before(ab[2], ab[1])
  BY <1>1, <1>2 DEF Before
<1>4. (ch = ab[1] /\ re = ab[2]) \/ (ch = ab[2] /\ re = ab[1])
  BY DEF ChosenOf, RejectedOf
<1>5. CASE ab \in K
  <2>1. l.file = "metadata" /\ l.chosen = ch /\ l.rejected = re
    BY <1>5 DEF LineOf
  <2> HIDE DEF l, ch, re
  <2>2. Sides(l) = ab
    BY <1>1, <1>3, <1>4, <2>1 DEF Sides
  <2>3. Topic(l) = p
    BY <1>2, <1>4, <2>1 DEF Topic
  <2>4. QED BY <1>2, <1>5, <2>1, <2>2, <2>3 DEF l
<1>6. CASE ab \notin K
  <2>1. l.file = "rejections" /\ l.a = ab[1] /\ l.b = ab[2]
    BY <1>6 DEF LineOf
  <2> HIDE DEF l
  <2>2. Sides(l) = ab /\ Topic(l) = p
    BY <1>1, <1>2, <2>1 DEF Sides, Topic
  <2>3. QED BY <1>2, <1>6, <2>1, <2>2 DEF l
<1>7. QED BY <1>5, <1>6

\* Every combination has one line.
LEMMA OneLineEach ==
  ASSUME given \in Scenarios, NEW p, NEW S \in SUBSET Of(p), NEW policy, NEW cap
  PROVE  /\ \A l \in LinesOf(S, policy, cap) :
              /\ l.file \in {"metadata", "rejections"} /\ Topic(l) = p /\ Sides(l)[1][1] = p
              /\ Sides(l) \in Combinations(S) /\ l = LineOf(S, policy, cap, Sides(l))
         /\ \A l, m \in LinesOf(S, policy, cap) : Sides(l) = Sides(m) => l = m
         /\ \A ab \in Combinations(S) :
              LineOf(S, policy, cap, ab) \in LinesOf(S, policy, cap)
<1>1. LinesOf(S, policy, cap) = {LineOf(S, policy, cap, ab) : ab \in Combinations(S)}
  BY LinesByCombination
<1>2. \A ab \in Combinations(S) :
        LET l == LineOf(S, policy, cap, ab) IN
        /\ Sides(l) = ab /\ Topic(l) = p /\ Sides(l)[1][1] = p
        /\ l.file \in {"metadata", "rejections"}
  BY SidesOfLine
<1>3. ASSUME NEW l \in LinesOf(S, policy, cap)
      PROVE  /\ l.file \in {"metadata", "rejections"} /\ Topic(l) = p /\ Sides(l)[1][1] = p
             /\ Sides(l) \in Combinations(S) /\ l = LineOf(S, policy, cap, Sides(l))
  BY <1>1, <1>2
<1>4. QED BY <1>1, <1>3

---------------------------------------------------------------------------
(* Margins *)

\* Fractions with positive denominators are in order.
LEMMA FractionsOrdered ==
  ASSUME NEW n1 \in Int, NEW n2 \in Int, NEW n3 \in Int,
         NEW d1 \in Nat \ {0}, NEW d2 \in Nat \ {0}, NEW d3 \in Nat \ {0},
         ~(n2 * d1 > n1 * d2), n2 * d3 > n3 * d2
  PROVE  n1 * d3 > n3 * d1
<1>1. (n2 * d1) * d3 <= (n1 * d2) * d3
  OBVIOUS
<1>2. (n2 * d3) * d1 > (n3 * d2) * d1
  OBVIOUS
<1>3. (n1 * d3) * d2 > (n3 * d1) * d2
  BY <1>1, <1>2
<1>4. QED BY <1>3

Gain(ev, ab)  == ev[ChosenOf(ev, ab)].passed * ev[RejectedOf(ev, ab)].total
                   - ev[RejectedOf(ev, ab)].passed * ev[ChosenOf(ev, ab)].total
Scale(ev, ab) == ev[ChosenOf(ev, ab)].total * ev[RejectedOf(ev, ab)].total

LEMMA MarginIsFraction ==
  ASSUME NEW ev, NEW S, \A c \in S : Counts(ev[c]), NEW ab \in S \X S, NEW cd \in S \X S
  PROVE  /\ Gain(ev, ab) \in Int /\ Scale(ev, ab) \in Nat
         /\ WiderMargin(ev, ab, cd) <=> Gain(ev, ab) * Scale(ev, cd) > Gain(ev, cd) * Scale(ev, ab)
<1>1. /\ ChosenOf(ev, ab) \in S /\ RejectedOf(ev, ab) \in S
      /\ ChosenOf(ev, cd) \in S /\ RejectedOf(ev, cd) \in S
  BY DEF ChosenOf, RejectedOf
<1> DEFINE e == ev[ChosenOf(ev, ab)]
           f == ev[RejectedOf(ev, ab)]
           g == ev[ChosenOf(ev, cd)]
           h == ev[RejectedOf(ev, cd)]
<1>2. /\ e.passed \in Nat /\ e.total \in Nat /\ f.passed \in Nat /\ f.total \in Nat
      /\ g.passed \in Nat /\ g.total \in Nat /\ h.passed \in Nat /\ h.total \in Nat
  BY <1>1 DEF Counts
<1>3. /\ Gain(ev, ab) = e.passed * f.total - f.passed * e.total /\ Scale(ev, ab) = e.total * f.total
      /\ Gain(ev, cd) = g.passed * h.total - h.passed * g.total /\ Scale(ev, cd) = g.total * h.total
  BY DEF Gain, Scale
<1>4. /\ (Gain(ev, ab) * g.total) * h.total = Gain(ev, ab) * Scale(ev, cd)
      /\ (Gain(ev, cd) * e.total) * f.total = Gain(ev, cd) * Scale(ev, ab)
  BY <1>2, <1>3
<1>5. WiderMargin(ev, ab, cd) <=>
        (e.passed * f.total - f.passed * e.total) * g.total * h.total
          > (g.passed * h.total - h.passed * g.total) * e.total * f.total
  BY DEF WiderMargin
<1> HIDE DEF e, f, g, h
<1>6. QED BY <1>2, <1>3, <1>4, <1>5

\* A combination that is decided has a margin.
LEMMA DecidedHasScale ==
  ASSUME NEW ev, NEW source, NEW S, \A c \in S : Counts(ev[c]), NEW policy,
         NEW ab \in Decided(ev, source, S, policy)
  PROVE  ab \in S \X S /\ Scale(ev, ab) \in Nat \ {0}
<1>1. ab \in S \X S /\ Compare(ev[ab[1]], ev[ab[2]]) # "INDETERMINATE"
  BY DEF Decided, Combinations, Outcome
<1>2. /\ ev[ab[1]].total \in Nat \ {0} /\ ev[ab[2]].total \in Nat \ {0}
  BY <1>1 DEF Compare, Indeterminate, Counts
<1>3. QED BY <1>1, <1>2 DEF Scale, ChosenOf, RejectedOf

\* What is truncated is not wider than what is kept.
LEMMA KeptIsWidest ==
  ASSUME NEW ev, NEW source, NEW S, IsFiniteSet(S), \A c \in S : Counts(ev[c]), NEW policy,
         NEW cap \in Nat,
         NEW ab \in Decided(ev, source, S, policy), NEW cd \in Decided(ev, source, S, policy),
         ab \notin Kept(ev, Decided(ev, source, S, policy), cap),
         cd \in Kept(ev, Decided(ev, source, S, policy), cap)
  PROVE  ~WiderMargin(ev, ab, cd)
<1> DEFINE D == Decided(ev, source, S, policy)
           Ahead(z) == {y \in D : KeptFirst(ev, y, z)}
<1>1. SUFFICES ASSUME WiderMargin(ev, ab, cd) PROVE FALSE
  OBVIOUS
<1>2. IsFiniteSet(D)
  <2>1. IsFiniteSet(S \X S)
    BY FS_Product
  <2>2. D \subseteq S \X S
    BY DEF Decided, Combinations
  <2>3. QED BY <2>1, <2>2, FS_Subset
<1>3. Ahead(ab) \subseteq Ahead(cd)
  <2> SUFFICES ASSUME NEW y \in D, KeptFirst(ev, y, ab) PROVE WiderMargin(ev, y, cd)
    BY DEF KeptFirst
  <2>1. /\ ab \in S \X S /\ Scale(ev, ab) \in Nat \ {0} /\ Gain(ev, ab) \in Int
        /\ cd \in S \X S /\ Scale(ev, cd) \in Nat \ {0} /\ Gain(ev, cd) \in Int
        /\ y \in S \X S /\ Scale(ev, y) \in Nat \ {0} /\ Gain(ev, y) \in Int
    BY DecidedHasScale, MarginIsFraction
  <2>2. Gain(ev, ab) * Scale(ev, cd) > Gain(ev, cd) * Scale(ev, ab)
    BY <1>1, <2>1, MarginIsFraction
  <2>3. ~WiderMargin(ev, ab, y)
    <3>1. CASE WiderMargin(ev, y, ab)
      <4>1. Gain(ev, y) * Scale(ev, ab) > Gain(ev, ab) * Scale(ev, y)
        BY <2>1, <3>1, MarginIsFraction
      <4>2. ~(Gain(ev, ab) * Scale(ev, y) > Gain(ev, y) * Scale(ev, ab))
        BY <2>1, <4>1
      <4>3. QED BY <2>1, <4>2, MarginIsFraction
    <3>2. QED BY <3>1 DEF KeptFirst
  <2>4. ~(Gain(ev, ab) * Scale(ev, y) > Gain(ev, y) * Scale(ev, ab))
    BY <2>1, <2>3, MarginIsFraction
  <2>5. Gain(ev, y) * Scale(ev, cd) > Gain(ev, cd) * Scale(ev, y)
    BY <2>1, <2>2, <2>4, FractionsOrdered
  <2>6. QED BY <2>1, <2>5, MarginIsFraction
<1>4. IsFiniteSet(Ahead(cd)) /\ Cardinality(Ahead(ab)) <= Cardinality(Ahead(cd))
  BY <1>2, <1>3, FS_Subset
<1>5. Cardinality(Ahead(ab)) \in Nat /\ Cardinality(Ahead(cd)) \in Nat
  BY <1>2, FS_Subset, FS_CardinalityType
<1>6. cap # NoCap /\ ~(Cardinality(Ahead(ab)) < cap) /\ Cardinality(Ahead(cd)) < cap
  BY DEF Kept, NoCap
<1>7. QED BY <1>4, <1>5, <1>6

---------------------------------------------------------------------------
(* The shapes of a step, as far as lines are concerned *)

Appends(l) ==
  /\ l \in proc.lines
  /\ files' = [files EXCEPT ![l.file] = Append(@, l)]
  /\ proc' = [proc EXCEPT !.lines = @ \ {l}]
  /\ torn' = torn

\* The loop is left; what was not appended is lost, and the ghost knows.
Stops ==
  /\ files' = files /\ torn \subseteq torn'
  /\ proc.lines # {} => <<proc.cmd, proc.problem>> \in torn'
  /\ proc'.lines = {} /\ proc'.at \notin {"loop", "assessed"}

\* The loop is entered.
Enters ==
  /\ UNCHANGED <<files, torn>> /\ proc.lines = {}
  /\ proc'.lines = {} /\ proc'.at = "loop"
  /\ \/ proc'.cmd = "rank" /\ proc'.todo \cap RankedProblems = {}
     \/ proc'.cmd = "pair" /\ proc'.todo = AssessedProblems \ PairedProblems

\* The lines of problem p are about to be appended.
Writes(p, at, lines) ==
  /\ UNCHANGED <<files, torn>> /\ proc.lines = {} /\ p \in Problems
  /\ proc'.lines = lines /\ proc'.at = at /\ proc'.problem = p /\ proc'.cmd = proc.cmd
  /\ proc'.todo = proc.todo \ {p}

Scores(p) == /\ proc.cmd = "rank" /\ proc.at = "loop" /\ p \in proc.todo
             /\ Writes(p, "assessed", AssessmentLines(p))
Compares(p) == /\ proc.cmd = "rank" /\ proc.at = "assessed" /\ p = proc.problem
             /\ Writes(p, "loop", RankingLines(p) \cup ComparisonLines(p))
Builds(p) == /\ proc.cmd = "pair" /\ proc.at = "loop" /\ p \in proc.todo
             /\ \E policy \in Policies, cap \in Nat :
                  Writes(p, "loop", LinesOf(Of(p) \cap Assessed, policy, cap))

LEMMA Shapes ==
  ASSUME IInv, AtWork, [Next]_vars
  PROVE  /\ given' = given
         /\ \/ UNCHANGED <<files, proc, torn>>
            \/ \E l \in proc.lines : Appends(l)
            \/ Stops
            \/ Enters
            \/ \E p \in Problems : Scores(p) \/ Compares(p) \/ Builds(p)
<1> DEFINE Goal == \/ UNCHANGED <<files, proc, torn>>
                   \/ \E l \in proc.lines : Appends(l)
                   \/ Stops
                   \/ Enters
                   \/ \E p \in Problems : Scores(p) \/ Compares(p) \/ Builds(p)
<1>1. given' = given
  BY DEF Next, Work, vars, AppendLine, StartRanking, BeginRanking, ResumeRanking, RunRanking,
         ScoreProblem, RankProblem, EndRanking, StartPairing, BeginPairing, ResumePairing,
         RunPairing, BuildProblem, RefuseProblem, Finalize, WriteSplit, WritePreferences,
         WriteSplitFile, EndPairing, Interrupt, Die
<1>2. ProcTyped
  BY DEF IInv
<1>20. SUFFICES Goal
  BY <1>1
<1>21. /\ (UNCHANGED <<files, proc, torn>>) => Goal
       /\ (\E l \in proc.lines : Appends(l)) => Goal
       /\ Stops => Goal
       /\ Enters => Goal
       /\ \A p \in Problems : (Scores(p) => Goal) /\ (Compares(p) => Goal) /\ (Builds(p) => Goal)
  OBVIOUS
<1> HIDE DEF Goal
<1>3. Idle.lines = {} /\ Idle.at = "idle" /\ Idle.todo = {}
  BY DEF Idle
<1>4. CASE UNCHANGED vars
  BY <1>4, <1>21 DEF vars
<1>5. CASE AppendLine
  BY <1>5, <1>21 DEF AppendLine, Appends
<1>6. ASSUME UNCHANGED <<files, torn>>, proc.lines = {}, proc'.lines = {},
             proc'.at \notin {"loop", "assessed"}
      PROVE  Goal
  <2>1. Stops
    BY <1>6 DEF Stops
  <2>2. QED BY <1>21, <2>1
<1>7. CASE StartRanking \/ StartPairing
  <2>1. proc.lines = {} /\ proc'.lines = {} /\ proc'.at = "start"
    BY <1>3, <1>7 DEF StartRanking, StartPairing, Idle
  <2>2. QED BY <1>6, <1>7, <2>1 DEF StartRanking, StartPairing
<1>8. CASE BeginRanking \/ ResumeRanking
  <2>1. proc.lines = {}
    BY <1>3, <1>8 DEF BeginRanking, ResumeRanking, AtWork
  <2>2. /\ proc'.lines = {} /\ proc'.at = "loop" /\ proc'.cmd = "rank"
        /\ proc'.todo = rankRun.requested \ RankedProblems
    BY <1>8 DEF BeginRanking, ResumeRanking, RunRanking, Idle
  <2>3. UNCHANGED <<files, torn>>
    BY <1>8 DEF BeginRanking, ResumeRanking, RunRanking
  <2>4. QED BY <1>21, <2>1, <2>2, <2>3 DEF Enters
<1>9. CASE BeginPairing \/ ResumePairing
  <2>1. proc.lines = {}
    BY <1>3, <1>9 DEF BeginPairing, ResumePairing, AtWork
  <2>2. PICK policy, cap : RunPairing(policy, cap)
    BY <1>9 DEF BeginPairing, ResumePairing
  <2>3. /\ proc'.lines = {} /\ proc'.at = "loop" /\ proc'.cmd = "pair"
        /\ proc'.todo = AssessedProblems \ PairedProblems
    BY <2>2 DEF RunPairing, Idle
  <2>4. UNCHANGED <<files, torn>>
    BY <2>2 DEF RunPairing
  <2>5. QED BY <1>21, <2>1, <2>3, <2>4 DEF Enters
<1>10. CASE ScoreProblem
  <2>1. PICK p \in Problems :
          /\ First(p)
          /\ proc' = IF \A c \in Of(p) : Assessable(given.evidence[c])
                     THEN [proc EXCEPT !.todo = @ \ {p}, !.problem = p, !.at = "assessed",
                                       !.lines = AssessmentLines(p)]
                     ELSE Idle
    BY <1>10 DEF ScoreProblem
  <2>2. /\ proc.lines = {} /\ proc.cmd = "rank" /\ proc.at = "loop" /\ p \in proc.todo
        /\ UNCHANGED <<files, torn>>
    BY <1>10, <2>1 DEF ScoreProblem, AtLoop, First
  <2>3. CASE proc' = Idle
    BY <1>3, <1>6, <2>2, <2>3
  <2>4. CASE proc' = [proc EXCEPT !.todo = @ \ {p}, !.problem = p, !.at = "assessed",
                                  !.lines = AssessmentLines(p)]
    <3>1. /\ proc'.lines = AssessmentLines(p) /\ proc'.at = "assessed" /\ proc'.problem = p
          /\ proc'.cmd = proc.cmd /\ proc'.todo = proc.todo \ {p}
      BY <1>2, <2>4 DEF ProcTyped
    <3>2. QED BY <1>21, <2>2, <3>1 DEF Scores, Writes
  <2>5. QED BY <2>1, <2>3, <2>4
<1>11. CASE RankProblem
  <2> DEFINE p == proc.problem
  <2>1. /\ proc.at = "assessed" /\ proc.lines = {} /\ UNCHANGED <<files, torn>>
        /\ \/ proc' = Idle
           \/ proc' = [proc EXCEPT !.at = "loop", !.lines = RankingLines(p) \cup ComparisonLines(p)]
    BY <1>11 DEF RankProblem
  <2>2. proc.cmd = "rank" /\ p \in Problems \ proc.todo
    BY <2>1 DEF AtWork
  <2>3. CASE proc' = Idle
    BY <1>3, <1>6, <2>1, <2>3
  <2>4. CASE proc' = [proc EXCEPT !.at = "loop", !.lines = RankingLines(p) \cup ComparisonLines(p)]
    <3>1. /\ proc'.lines = RankingLines(p) \cup ComparisonLines(p) /\ proc'.at = "loop"
          /\ proc'.problem = p /\ proc'.cmd = proc.cmd /\ proc'.todo = proc.todo
      BY <1>2, <2>4 DEF ProcTyped
    <3>2. proc.todo = proc.todo \ {p}
      BY <2>2
    <3>3. QED BY <1>21, <2>1, <2>2, <3>1, <3>2 DEF Compares, Writes
  <2>5. QED BY <2>1, <2>3, <2>4
<1>12. CASE BuildProblem
  <2>1. PICK p \in Problems :
          /\ First(p)
          /\ proc' = [proc EXCEPT !.todo = @ \ {p}, !.problem = p,
                        !.lines = LinesOf(Of(p) \cap Assessed, proc.policy, proc.cap)]
    BY <1>12 DEF BuildProblem, LinesOf
  <2>2. /\ proc.lines = {} /\ proc.cmd = "pair" /\ proc.at = "loop" /\ p \in proc.todo
        /\ UNCHANGED <<files, torn>>
    BY <1>12, <2>1 DEF BuildProblem, AtLoop, First
  <2>3. /\ proc'.lines = LinesOf(Of(p) \cap Assessed, proc.policy, proc.cap)
        /\ proc'.at = "loop" /\ proc'.problem = p /\ proc'.cmd = proc.cmd
        /\ proc'.todo = proc.todo \ {p} /\ proc.policy \in Policies /\ proc.cap \in Nat
    BY <1>2, <2>1, <2>2 DEF ProcTyped
  <2>4. QED BY <1>21, <2>2, <2>3 DEF Builds, Writes
<1>13. CASE EndRanking \/ RefuseProblem
  <2>1. proc.lines = {} /\ proc' = Idle /\ UNCHANGED <<files, torn>>
    BY <1>13 DEF EndRanking, RefuseProblem, AtLoop
  <2>2. QED BY <1>3, <1>6, <2>1
<1>14. CASE Finalize \/ WriteSplit \/ WritePreferences \/ WriteSplitFile \/ EndPairing
  <2>1. proc.lines = {} /\ UNCHANGED <<files, torn>>
    BY <1>14 DEF Finalize, WriteSplit, WritePreferences, WriteSplitFile, EndPairing, AtLoop, AtWork,
                 SplitNames
  <2>2. CASE EndPairing
    BY <1>3, <1>6, <2>1, <2>2 DEF EndPairing
  <2>3. CASE Finalize \/ WriteSplit \/ WritePreferences \/ WriteSplitFile
    <3>1. PICK at \in Ats \ {"loop", "assessed"} : proc' = [proc EXCEPT !.at = at]
      <4>1. CASE WriteSplitFile
        <5>1. proc.at \in SplitNames /\ proc' = [proc EXCEPT !.at = After[proc.at]]
          BY <4>1 DEF WriteSplitFile
        <5>2. After[proc.at] \in Ats \ {"loop", "assessed"}
          BY <5>1 DEF After, SplitNames, Ats
        <5>3. QED BY <5>1, <5>2
      <4>2. CASE Finalize \/ WriteSplit \/ WritePreferences
        BY <4>2 DEF Finalize, WriteSplit, WritePreferences, Ats, SplitNames
      <4>3. QED BY <2>3, <4>1, <4>2
    <3>2. proc'.lines = {} /\ proc'.at = at
      BY <1>2, <2>1, <3>1 DEF ProcTyped
    <3>3. QED BY <1>6, <2>1, <3>2
  <2>4. QED BY <1>14, <2>2, <2>3
<1>15. CASE Interrupt \/ Die
  <2>1. files' = files /\ torn' = torn \cup CutShort
    BY <1>15 DEF Interrupt, Die
  <2>2. proc.lines # {} => <<proc.cmd, proc.problem>> \in torn'
    BY <2>1 DEF CutShort
  <2>3. \/ proc' = Idle
        \/ proc' = [proc EXCEPT !.at = "split", !.lines = {}, !.todo = {}, !.signalled = TRUE]
    BY <1>15 DEF Interrupt, Die
  <2>4. proc'.lines = {} /\ proc'.at \notin {"loop", "assessed"}
    BY <1>2, <1>3, <2>3 DEF ProcTyped
  <2>5. QED BY <1>21, <2>1, <2>2, <2>4 DEF Stops
<1>16. QED
  BY <1>1, <1>4, <1>5, <1>7, <1>8, <1>9, <1>10, <1>11, <1>12, <1>13, <1>14, <1>15 DEF Next, Work

---------------------------------------------------------------------------
(* What appending a line does *)

LEMMA AppendFacts ==
  ASSUME IInv, NEW l \in proc.lines, Appends(l)
  PROVE  /\ l.file \in FileNames
         /\ \A f : f # l.file => files'[f] = files[f] /\ Lines(f)' = Lines(f)
         /\ Lines(l.file)' = Lines(l.file) \cup {l}
         /\ LET n == Len(files[l.file]) + 1 IN
            /\ DOMAIN files'[l.file] = DOMAIN files[l.file] \cup {n} /\ n \notin DOMAIN files[l.file]
            /\ files'[l.file][n] = l
            /\ \A i \in DOMAIN files[l.file] : files'[l.file][i] = files[l.file][i]
         /\ proc'.lines = proc.lines \ {l} /\ proc'.cmd = proc.cmd /\ proc'.at = proc.at
         /\ proc'.problem = proc.problem /\ proc'.todo = proc.todo
<1>1. l.file \in FileNames /\ files = [f \in FileNames |-> files[f]]
      /\ files[l.file] \in Seq(Good(l.file)) /\ l \in Good(l.file)
  BY DEF IInv, FilesGood, LinesGood
<1>2. \A f : f # l.file => files'[f] = files[f]
  BY <1>1 DEF Appends
<1>3. files'[l.file] = Append(files[l.file], l)
  BY <1>1 DEF Appends
<1> DEFINE s == files[l.file]
<1>4. /\ Len(s) \in Nat /\ DOMAIN s = 1..Len(s)
      /\ DOMAIN Append(s, l) = 1..(Len(s) + 1) /\ Append(s, l)[Len(s) + 1] = l
      /\ \A i \in 1..Len(s) : Append(s, l)[i] = s[i]
  BY <1>1
<1> HIDE DEF s
<1>5. /\ DOMAIN Append(s, l) = DOMAIN s \cup {Len(s) + 1} /\ Len(s) + 1 \notin DOMAIN s
  BY <1>4
<1>6. Lines(l.file)' = Lines(l.file) \cup {l}
  BY <1>3, <1>4, <1>5 DEF Lines, s
<1>7. \A f : f # l.file => Lines(f)' = Lines(f)
  BY <1>2 DEF Lines
<1>8. /\ proc'.lines = proc.lines \ {l} /\ proc'.cmd = proc.cmd /\ proc'.at = proc.at
      /\ proc'.problem = proc.problem /\ proc'.todo = proc.todo
  BY DEF Appends, IInv, ProcTyped
<1>9. QED BY <1>1, <1>2, <1>3, <1>4, <1>5, <1>6, <1>7, <1>8 DEF s

\* Both sides of a recorded combination are of the problem it is about.
LEMMA TopicOfSides ==
  ASSUME IInv, NEW l \in Recorded
  PROVE  /\ l.file \in {"metadata", "rejections"} /\ Sides(l)[1][1] = Topic(l)
         /\ Topic(l) \in PairedProblems
<1>1. CASE l \in Lines("metadata")
  <2>1. l.file = "metadata" /\ Says(l)
    BY <1>1, LinesOfFiles DEF FileNames
  <2>2. l.chosen[1] = l.rejected[1]
    BY <2>1 DEF Says, SoundPair
  <2>3. Sides(l)[1][1] = l.chosen[1]
    BY <2>1, <2>2 DEF Sides
  <2>4. QED BY <1>1, <2>1, <2>3 DEF Topic, PairedProblems
<1>2. CASE l \in Lines("rejections")
  <2>1. l.file = "rejections"
    BY <1>2, LinesOfFiles DEF FileNames
  <2>2. Sides(l)[1][1] = l.a[1]
    BY <2>1 DEF Sides
  <2>3. QED BY <1>2, <2>1, <2>2 DEF Topic, PairedProblems
<1>3. QED BY <1>1, <1>2 DEF Recorded

\* The problems of the files are the topics of their lines.
LEMMA ProblemsOfFiles ==
  ASSUME IInv
  PROVE  /\ RankedProblems = {Topic(l) : l \in Lines("rankings")}
         /\ AssessedProblems = {Topic(l) : l \in Lines("assessments")}
         /\ PairedProblems = {Topic(l) : l \in Recorded}
<1>1. \A f \in FileNames : \A l \in Lines(f) : l.file = f
  BY LinesOfFiles
<1>2. /\ \A l \in Lines("rankings") : Topic(l) = l.candidate[1]
      /\ \A l \in Lines("assessments") : Topic(l) = l.candidate[1]
      /\ \A l \in Lines("metadata") : Topic(l) = l.chosen[1]
      /\ \A l \in Lines("rejections") : Topic(l) = l.a[1]
  BY <1>1 DEF Topic, FileNames
<1>3. RankedProblems = {Topic(l) : l \in Lines("rankings")}
  BY <1>2 DEF RankedProblems
<1>4. AssessedProblems = {Topic(l) : l \in Lines("assessments")}
  BY <1>2 DEF AssessedProblems, Assessed
<1>5. PairedProblems = {Topic(l) : l \in Recorded}
  BY <1>2 DEF PairedProblems, Recorded
<1>6. QED BY <1>3, <1>4, <1>5

\* Files that do not change say what they said.
LEMMA FilesSay ==
  ASSUME files' = files
  PROVE  /\ \A f : Lines(f)' = Lines(f)
         /\ RankedProblems' = RankedProblems /\ AssessedProblems' = AssessedProblems
         /\ PairedProblems' = PairedProblems /\ Recorded' = Recorded /\ Assessed' = Assessed
<1>1. \A f : Lines(f)' = Lines(f)
  BY DEF Lines
<1>2. QED BY <1>1 DEF RankedProblems, AssessedProblems, PairedProblems, Recorded, Assessed

\* A line that is appended adds its problem to those of its file.
LEMMA AppendedTopic ==
  ASSUME IInv, NEW l \in proc.lines, Appends(l)
  PROVE  /\ RankedProblems' = RankedProblems \cup (IF l.file = "rankings" THEN {Topic(l)} ELSE {})
         /\ AssessedProblems' = AssessedProblems \cup (IF l.file = "assessments" THEN {Topic(l)} ELSE {})
         /\ PairedProblems' = PairedProblems
              \cup (IF l.file \in {"metadata", "rejections"} THEN {Topic(l)} ELSE {})
         /\ Recorded' = Recorded \cup (IF l.file \in {"metadata", "rejections"} THEN {l} ELSE {})
         /\ Assessed' = Assessed \cup (IF l.file = "assessments" THEN {l.candidate} ELSE {})
<1>1. /\ \A f : f # l.file => Lines(f)' = Lines(f)
      /\ Lines(l.file)' = Lines(l.file) \cup {l}
      /\ l.file \in FileNames
  BY AppendFacts
<1>2. CASE l.file \notin {"metadata", "rejections"}
  <2>1. Lines("metadata")' = Lines("metadata") /\ Lines("rejections")' = Lines("rejections")
    BY <1>1, <1>2
  <2>2. PairedProblems' = PairedProblems /\ Recorded' = Recorded
    BY <2>1 DEF PairedProblems, Recorded
  <2>3. CASE l.file = "rankings"
    <3>1. Lines("rankings")' = Lines("rankings") \cup {l} /\ Lines("assessments")' = Lines("assessments")
          /\ Topic(l) = l.candidate[1]
      BY <1>1, <2>3 DEF Topic
    <3>2. QED BY <1>2, <2>2, <2>3, <3>1 DEF RankedProblems, AssessedProblems, Assessed
  <2>4. CASE l.file = "assessments"
    <3>1. Lines("rankings")' = Lines("rankings") /\ Lines("assessments")' = Lines("assessments") \cup {l}
          /\ Topic(l) = l.candidate[1]
      BY <1>1, <2>4 DEF Topic
    <3>2. /\ Assessed' = Assessed \cup {l.candidate}
          /\ AssessedProblems' = AssessedProblems \cup {Topic(l)}
      BY <3>1 DEF AssessedProblems, Assessed
    <3>3. QED BY <1>2, <2>2, <2>4, <3>1, <3>2 DEF RankedProblems
  <2>5. CASE l.file \notin {"rankings", "assessments"}
    BY <1>1, <1>2, <2>2, <2>5 DEF RankedProblems, AssessedProblems, Assessed
  <2>6. QED BY <2>3, <2>4, <2>5
<1>3. CASE l.file \in {"metadata", "rejections"}
  <2>1. Lines("rankings")' = Lines("rankings") /\ Lines("assessments")' = Lines("assessments")
    BY <1>1, <1>3
  <2>2. RankedProblems' = RankedProblems /\ AssessedProblems' = AssessedProblems /\ Assessed' = Assessed
    BY <2>1 DEF RankedProblems, AssessedProblems, Assessed
  <2>3. CASE l.file = "metadata"
    <3>1. /\ Lines("metadata")' = Lines("metadata") \cup {l} /\ Lines("rejections")' = Lines("rejections")
          /\ Topic(l) = l.chosen[1]
      BY <1>1, <2>3 DEF Topic
    <3>2. PairedProblems' = PairedProblems \cup {Topic(l)} /\ Recorded' = Recorded \cup {l}
      BY <3>1 DEF PairedProblems, Recorded
    <3>3. QED BY <2>2, <2>3, <3>2
  <2>4. CASE l.file = "rejections"
    <3>1. /\ Lines("metadata")' = Lines("metadata") /\ Lines("rejections")' = Lines("rejections") \cup {l}
          /\ Topic(l) = l.a[1]
      BY <1>1, <2>4 DEF Topic
    <3>2. PairedProblems' = PairedProblems \cup {Topic(l)} /\ Recorded' = Recorded \cup {l}
      BY <3>1 DEF PairedProblems, Recorded
    <3>3. QED BY <2>2, <2>4, <3>2
  <2>5. QED BY <1>3, <2>3, <2>4
<1>4. QED BY <1>2, <1>3

---------------------------------------------------------------------------
(* AtWork and TodoIsNew *)

LEMMA NewTopics ==
  ASSUME given \in Scenarios, NEW p
  PROVE  /\ \A l \in AssessmentLines(p) : l.file = "assessments" /\ Topic(l) = p
         /\ \A l \in RankingLines(p) \cup ComparisonLines(p) :
              l.file \in {"rankings", "comparisons"} /\ Topic(l) = p
         /\ \A policy, cap : \A S \in SUBSET Of(p) : \A l \in LinesOf(S, policy, cap) :
              l.file \in {"metadata", "rejections"} /\ Topic(l) = p
<1>1. \A l \in AssessmentLines(p) : l.file = "assessments" /\ Topic(l) = p
  BY DEF AssessmentLines, Topic, Of
<1>2. \A l \in RankingLines(p) : l.file = "rankings" /\ Topic(l) = p
  <2>1. \A l \in RankingLines(p) : l.file = "rankings" /\ l.candidate \in Of(p)
    BY DEF RankingLines
  <2>2. QED BY <2>1 DEF Topic, Of
<1>3. \A l \in ComparisonLines(p) : l.file = "comparisons" /\ Topic(l) = p
  BY DEF ComparisonLines, Topic, Combinations, Of
<1>4. \A policy, cap : \A S \in SUBSET Of(p) : \A l \in LinesOf(S, policy, cap) :
        l.file \in {"metadata", "rejections"} /\ Topic(l) = p
  BY OneLineEach
<1>5. QED BY <1>1, <1>2, <1>3, <1>4

\* The lines that a step has made, and what it is about.
LEMMA NewLinesOfStep ==
  ASSUME IInv, AtWork, NEW p \in Problems, Scores(p) \/ Compares(p) \/ Builds(p)
  PROVE  /\ files' = files /\ torn' = torn /\ proc.lines = {}
         /\ proc'.problem = p /\ proc'.cmd = proc.cmd /\ proc'.todo = proc.todo \ {p}
         /\ \A l \in proc'.lines : Topic(l) = p
         /\ Scores(p) => \A l \in proc'.lines : l.file = "assessments"
         /\ Compares(p) => \A l \in proc'.lines : l.file \in {"rankings", "comparisons"}
         /\ Builds(p) => \A l \in proc'.lines : l.file \in {"metadata", "rejections"}
<1>1. given \in Scenarios /\ Of(p) \cap Assessed \subseteq Of(p)
  BY DEF IInv, ManifestsTyped
<1>2. CASE Scores(p)
  <2>1. proc'.lines = AssessmentLines(p) /\ proc.at = "loop" /\ proc'.at = "assessed" /\ proc.cmd = "rank"
    BY <1>2 DEF Scores, Writes
  <2>2. ~Compares(p) /\ ~Builds(p)
    BY <2>1 DEF Compares, Builds, Writes
  <2>3. QED BY <1>1, <1>2, <2>1, <2>2, NewTopics DEF Scores, Writes
<1>3. CASE Compares(p)
  <2>1. /\ proc'.lines = RankingLines(p) \cup ComparisonLines(p)
        /\ proc.at = "assessed"
    BY <1>3 DEF Compares, Writes
  <2>2. ~Scores(p) /\ ~Builds(p)
    BY <2>1 DEF Scores, Builds, Writes
  <2>3. QED BY <1>1, <1>3, <2>1, <2>2, NewTopics DEF Compares, Writes
<1>4. CASE Builds(p)
  <2>1. PICK policy, cap : Writes(p, "loop", LinesOf(Of(p) \cap Assessed, policy, cap))
    BY <1>4 DEF Builds
  <2>2. proc'.lines = LinesOf(Of(p) \cap Assessed, policy, cap) /\ proc.at = "loop" /\ proc.cmd = "pair"
    BY <1>4, <2>1 DEF Builds, Writes
  <2>3. ~Scores(p) /\ ~Compares(p)
    BY <2>2 DEF Scores, Compares
  <2>4. QED BY <1>1, <1>4, <2>1, <2>2, <2>3, NewTopics DEF Writes
<1>5. QED BY <1>2, <1>3, <1>4

LEMMA AtWorkStep ==
  ASSUME IInv, AtWork, TodoIsNew, [Next]_vars
  PROVE  AtWork'
<1>1. given' = given /\ Problems' = Problems
  BY Shapes, GivenStays
<1>2. CASE UNCHANGED <<files, proc, torn>>
  BY <1>1, <1>2, FilesSay DEF AtWork, Open, Topic
<1>3. ASSUME NEW l \in proc.lines, Appends(l) PROVE AtWork'
  <2>1. /\ proc'.lines \subseteq proc.lines /\ proc'.cmd = proc.cmd /\ proc'.at = proc.at
        /\ proc'.problem = proc.problem /\ proc'.todo = proc.todo /\ Open' = Open
    BY <1>3, AppendFacts DEF Open
  <2>2. proc.at = "assessed" => l.file = "assessments"
    BY DEF AtWork, Open
  <2>3. proc.at = "assessed" => RankedProblems' = RankedProblems
    BY <1>3, <2>2, AppendedTopic
  <2>4. QED BY <1>1, <2>1, <2>3 DEF AtWork, Topic
<1>4. CASE Stops \/ Enters
  BY <1>4 DEF Stops, Enters, AtWork
<1>5. ASSUME NEW p \in Problems, Scores(p) \/ Compares(p) \/ Builds(p) PROVE AtWork'
  <2>1. /\ files' = files /\ proc'.problem = p /\ proc'.cmd = proc.cmd /\ proc'.todo = proc.todo \ {p}
        /\ \A l \in proc'.lines : Topic(l) = p
        /\ RankedProblems' = RankedProblems
    BY <1>5, NewLinesOfStep, FilesSay
  <2>2. CASE Scores(p)
    <3>1. /\ \A l \in proc'.lines : l.file = "assessments"
          /\ proc'.at = "assessed" /\ proc'.cmd = "rank" /\ p \notin RankedProblems
      BY <2>2, NewLinesOfStep DEF Scores, Writes, TodoIsNew
    <3>2. QED BY <1>1, <2>1, <3>1 DEF AtWork, Open, Topic
  <2>3. CASE Compares(p)
    <3>1. /\ \A l \in proc'.lines : l.file \in {"rankings", "comparisons"}
          /\ proc'.at = "loop" /\ proc'.cmd = "rank"
      BY <2>3, NewLinesOfStep DEF Compares, Writes
    <3>2. QED BY <1>1, <2>1, <3>1 DEF AtWork, Open, Topic
  <2>4. CASE Builds(p)
    <3>1. /\ \A l \in proc'.lines : l.file \in {"metadata", "rejections"}
          /\ proc'.at = "loop" /\ proc'.cmd = "pair"
      BY <2>4, NewLinesOfStep DEF Builds, Writes
    <3>2. QED BY <1>1, <2>1, <3>1 DEF AtWork, Open, Topic
  <2>5. QED BY <1>5, <2>2, <2>3, <2>4
<1>6. QED BY <1>2, <1>3, <1>4, <1>5, Shapes

LEMMA TodoStep ==
  ASSUME IInv, AtWork, TodoIsNew, [Next]_vars
  PROVE  TodoIsNew'
<1>1. given' = given /\ Problems' = Problems
  BY Shapes, GivenStays
<1>2. CASE UNCHANGED <<files, proc, torn>>
  BY <1>1, <1>2, FilesSay DEF TodoIsNew
<1>3. ASSUME NEW l \in proc.lines, Appends(l) PROVE TodoIsNew'
  <2>1. /\ proc'.cmd = proc.cmd /\ proc'.at = proc.at /\ proc'.todo = proc.todo
    BY <1>3, AppendFacts
  <2>2. Topic(l) \notin proc.todo
    BY DEF AtWork
  <2>3. /\ RankedProblems' \subseteq RankedProblems \cup {Topic(l)}
        /\ PairedProblems' \subseteq PairedProblems \cup {Topic(l)}
        /\ AssessedProblems \subseteq AssessedProblems'
    BY <1>3, AppendedTopic
  <2>4. QED BY <2>1, <2>2, <2>3 DEF TodoIsNew
<1>4. CASE Stops
  BY <1>4 DEF Stops, TodoIsNew
<1>5. CASE Enters
  <2>1. /\ RankedProblems' = RankedProblems /\ AssessedProblems' = AssessedProblems
        /\ PairedProblems' = PairedProblems
    BY <1>5, FilesSay DEF Enters
  <2>2. QED BY <1>5, <2>1 DEF Enters, TodoIsNew
<1>6. ASSUME NEW p \in Problems, Scores(p) \/ Compares(p) \/ Builds(p) PROVE TodoIsNew'
  <2>1. /\ proc'.cmd = proc.cmd /\ proc'.todo = proc.todo \ {p}
        /\ RankedProblems' = RankedProblems /\ AssessedProblems' = AssessedProblems
        /\ PairedProblems' = PairedProblems
    BY <1>6, NewLinesOfStep, FilesSay
  <2>2. \/ proc.cmd = "rank" /\ proc.at \in {"loop", "assessed"}
        \/ proc.cmd = "pair" /\ proc.at = "loop"
    BY <1>6 DEF Scores, Compares, Builds
  <2>3. QED BY <2>1, <2>2 DEF TodoIsNew
<1>7. QED BY <1>2, <1>3, <1>4, <1>5, <1>6, Shapes

---------------------------------------------------------------------------
(* KeysAreNew *)

LEMMA KeysStay ==
  ASSUME IInv, KeysAreNew, NEW l \in proc.lines, Appends(l)
  PROVE  KeysAreNew'
<1> DEFINE n == Len(files[l.file]) + 1
<1>1. /\ \A f : f # l.file => files'[f] = files[f]
      /\ DOMAIN files'[l.file] = DOMAIN files[l.file] \cup {n} /\ n \notin DOMAIN files[l.file]
      /\ files'[l.file][n] = l
      /\ \A i \in DOMAIN files[l.file] : files'[l.file][i] = files[l.file][i]
      /\ proc'.lines = proc.lines \ {l}
  BY AppendFacts
<1> HIDE DEF n
\* An entry of a file is old, or it is l.
<1>2. ASSUME NEW f \in Keyed, NEW i \in DOMAIN files'[f]
      PROVE  \/ i \in DOMAIN files[f] /\ files'[f][i] = files[f][i]
             \/ f = l.file /\ i = n /\ files'[f][i] = l
  <2>1. CASE f = l.file
    BY <1>1, <2>1
  <2>2. CASE f # l.file
    BY <1>1, <2>2
  <2>3. QED BY <2>1, <2>2
<1>3. ASSUME NEW f \in Keyed, NEW g \in Keyed, NEW i \in DOMAIN files'[f], NEW j \in DOMAIN files'[g],
             Key(files'[f][i]) = Key(files'[g][j])
      PROVE  f = g /\ i = j
  <2>1. CASE /\ i \in DOMAIN files[f] /\ files'[f][i] = files[f][i]
             /\ j \in DOMAIN files[g] /\ files'[g][j] = files[g][j]
    BY <1>3, <2>1 DEF KeysAreNew
  <2>2. CASE /\ i \in DOMAIN files[f] /\ files'[f][i] = files[f][i]
             /\ g = l.file /\ j = n /\ files'[g][j] = l
    BY <1>3, <2>2 DEF KeysAreNew
  <2>3. CASE /\ f = l.file /\ i = n /\ files'[f][i] = l
             /\ j \in DOMAIN files[g] /\ files'[g][j] = files[g][j]
    BY <1>3, <2>3 DEF KeysAreNew
  <2>4. CASE f = l.file /\ i = n /\ g = l.file /\ j = n
    BY <2>4
  <2>5. QED BY <1>2, <2>1, <2>2, <2>3, <2>4
<1>4. ASSUME NEW m \in proc'.lines, m.file \in Keyed, NEW f \in Keyed, NEW i \in DOMAIN files'[f]
      PROVE  Key(files'[f][i]) # Key(m)
  <2>1. m \in proc.lines /\ m # l
    BY <1>1
  <2>2. CASE i \in DOMAIN files[f] /\ files'[f][i] = files[f][i]
    BY <1>4, <2>1, <2>2 DEF KeysAreNew
  <2>3. CASE f = l.file /\ files'[f][i] = l
    BY <1>4, <2>1, <2>3 DEF KeysAreNew
  <2>4. QED BY <1>2, <2>2, <2>3
<1>5. \A k, m \in proc'.lines : k.file \in Keyed /\ m.file \in Keyed /\ Key(k) = Key(m) => k = m
  BY <1>1 DEF KeysAreNew
<1>6. QED BY <1>3, <1>4, <1>5 DEF KeysAreNew, Key, Sides, Keyed

\* A key says which problem its line is about.
LEMMA TopicOfKey ==
  ASSUME IInv, NEW f \in Keyed, NEW i \in DOMAIN files[f]
  PROVE  /\ files[f][i].file = f
         /\ Key(files[f][i]) = IF f = "rankings" THEN <<"ranked", files[f][i].candidate>>
                               ELSE <<"paired", Sides(files[f][i])>>
         /\ f = "rankings" => files[f][i].candidate[1] \in RankedProblems
         /\ f # "rankings" => Sides(files[f][i])[1][1] \in PairedProblems
<1> DEFINE k == files[f][i]
<1>1. k \in Lines(f) /\ f \in FileNames
  BY DEF Lines, Keyed, FileNames
<1> HIDE DEF k
<1>2. k.file = f
  BY <1>1, LinesOfFiles
<1>3. f # "rankings" => k \in Recorded
  BY <1>1 DEF Recorded, Keyed
<1>4. f # "rankings" => Sides(k)[1][1] \in PairedProblems
  BY <1>3, TopicOfSides
<1>5. f = "rankings" => k.candidate[1] \in RankedProblems
  BY <1>1 DEF RankedProblems
<1>6. Key(k) = IF f = "rankings" THEN <<"ranked", k.candidate>> ELSE <<"paired", Sides(k)>>
  BY <1>2 DEF Key
<1>7. QED BY <1>2, <1>4, <1>5, <1>6 DEF k

LEMMA KeysStep ==
  ASSUME IInv, AtWork, TodoIsNew, KeysAreNew, [Next]_vars
  PROVE  KeysAreNew'
<1>1. CASE UNCHANGED <<files, proc, torn>>
  BY <1>1 DEF KeysAreNew
<1>2. ASSUME NEW l \in proc.lines, Appends(l) PROVE KeysAreNew'
  BY <1>2, KeysStay
<1>3. ASSUME files' = files, \A l \in proc'.lines : l.file \notin Keyed PROVE KeysAreNew'
  BY <1>3 DEF KeysAreNew
<1>4. CASE Stops \/ Enters
  BY <1>3, <1>4 DEF Stops, Enters
<1>5. ASSUME NEW p \in Problems, Scores(p) PROVE KeysAreNew'
  BY <1>3, <1>5, NewLinesOfStep DEF Keyed
<1>6. ASSUME files' = files,
             \A l \in proc'.lines : l.file \in Keyed =>
               \A f \in Keyed : \A i \in DOMAIN files[f] : Key(files[f][i]) # Key(l),
             \A l, m \in proc'.lines : l.file \in Keyed /\ m.file \in Keyed /\ Key(l) = Key(m) => l = m
      PROVE  KeysAreNew'
  BY <1>6 DEF KeysAreNew
<1>7. ASSUME NEW p \in Problems, Compares(p) PROVE KeysAreNew'
  <2>1. /\ files' = files /\ proc'.lines = RankingLines(p) \cup ComparisonLines(p)
        /\ p \notin RankedProblems
    BY <1>7 DEF Compares, Writes, AtWork
  <2>2. ASSUME NEW l \in proc'.lines, l.file \in Keyed
        PROVE  /\ l.candidate[1] = p /\ Key(l) = <<"ranked", l.candidate>>
               /\ \A m \in proc'.lines : m.file \in Keyed /\ l.candidate = m.candidate => l = m
    <3>1. \A m \in ComparisonLines(p) : m.file = "comparisons"
      BY DEF ComparisonLines
    <3>2. \A m \in RankingLines(p) : m.file = "rankings" /\ m.candidate[1] = p
      <4>1. \A m \in RankingLines(p) : m.file = "rankings" /\ m.candidate \in Of(p)
        BY DEF RankingLines
      <4>2. QED BY <4>1 DEF Of
    <3>3. \A m \in proc'.lines : m.file \in Keyed => m \in RankingLines(p)
      BY <2>1, <3>1 DEF Keyed
    <3>4. \A m \in RankingLines(p) :
            m = [file |-> "rankings", candidate |-> m.candidate,
                 rank |-> RankOf(given.evidence, Of(p), m.candidate),
                 group |-> TieGroup(given.evidence, Of(p), m.candidate)]
      BY DEF RankingLines
    <3>5. QED BY <2>2, <3>2, <3>3, <3>4 DEF Key
  <2>3. ASSUME NEW l \in proc'.lines, l.file \in Keyed, NEW f \in Keyed, NEW i \in DOMAIN files[f]
        PROVE  Key(files[f][i]) # Key(l)
    <3>1. Key(l) = <<"ranked", l.candidate>> /\ l.candidate[1] = p
      BY <2>2, <2>3
    <3>2. CASE f = "rankings"
      <4>1. /\ Key(files[f][i]) = <<"ranked", files[f][i].candidate>>
            /\ files[f][i].candidate[1] \in RankedProblems
        BY <3>2, TopicOfKey
      <4>2. files[f][i].candidate # l.candidate
        BY <2>1, <3>1, <4>1
      <4>3. QED BY <3>1, <4>1, <4>2
    <3>3. CASE f # "rankings"
      <4>1. Key(files[f][i]) = <<"paired", Sides(files[f][i])>>
        BY <3>3, TopicOfKey
      <4>2. QED BY <3>1, <4>1
    <3>4. QED BY <3>2, <3>3
  <2>4. \A l, m \in proc'.lines : l.file \in Keyed /\ m.file \in Keyed /\ Key(l) = Key(m) => l = m
    BY <2>2
  <2>5. QED BY <1>6, <2>1, <2>3, <2>4
<1>8. ASSUME NEW p \in Problems, Builds(p) PROVE KeysAreNew'
  <2>1. PICK policy, cap : /\ files' = files
                           /\ proc'.lines = LinesOf(Of(p) \cap Assessed, policy, cap)
    BY <1>8 DEF Builds, Writes
  <2>2. p \notin PairedProblems
    BY <1>8 DEF Builds, TodoIsNew
  <2>3. given \in Scenarios /\ Of(p) \cap Assessed \in SUBSET Of(p)
    BY DEF IInv, ManifestsTyped
  <2>4. /\ \A l \in proc'.lines : l.file \in {"metadata", "rejections"} /\ Sides(l)[1][1] = p
        /\ \A l, m \in proc'.lines : Sides(l) = Sides(m) => l = m
    <3> DEFINE S == Of(p) \cap Assessed
    <3>1. /\ \A l \in LinesOf(S, policy, cap) :
               l.file \in {"metadata", "rejections"} /\ Sides(l)[1][1] = p
          /\ \A l, m \in LinesOf(S, policy, cap) : Sides(l) = Sides(m) => l = m
      <4>1. S \in SUBSET Of(p)
        OBVIOUS
      <4> HIDE DEF S
      <4>2. given \in Scenarios
        BY <2>3
      <4>3. /\ \A l \in LinesOf(S, policy, cap) :
                 /\ l.file \in {"metadata", "rejections"} /\ Topic(l) = p /\ Sides(l)[1][1] = p
                 /\ Sides(l) \in Combinations(S) /\ l = LineOf(S, policy, cap, Sides(l))
            /\ \A l, m \in LinesOf(S, policy, cap) : Sides(l) = Sides(m) => l = m
        BY <4>1, <4>2, OneLineEach
      <4>4. QED BY <4>3
    <3>2. proc'.lines = LinesOf(S, policy, cap)
      BY <2>1
    <3> HIDE DEF S
    <3>3. QED BY <3>1, <3>2
  <2>5. \A l \in proc'.lines : Key(l) = <<"paired", Sides(l)>>
    BY <2>4 DEF Key
  <2>6. ASSUME NEW l \in proc'.lines, NEW f \in Keyed, NEW i \in DOMAIN files[f]
        PROVE  Key(files[f][i]) # Key(l)
    <3>1. Key(l) = <<"paired", Sides(l)>> /\ Sides(l)[1][1] = p
      BY <2>4, <2>5
    <3>2. CASE f = "rankings"
      <4>1. Key(files[f][i]) = <<"ranked", files[f][i].candidate>>
        BY <3>2, TopicOfKey
      <4>2. QED BY <3>1, <4>1
    <3>3. CASE f # "rankings"
      <4>1. /\ Key(files[f][i]) = <<"paired", Sides(files[f][i])>>
            /\ Sides(files[f][i])[1][1] \in PairedProblems
        BY <3>3, TopicOfKey
      <4>2. Sides(files[f][i]) # Sides(l)
        BY <2>2, <3>1, <4>1
      <4>3. QED BY <3>1, <4>1, <4>2
    <3>4. QED BY <3>2, <3>3
  <2>7. \A l, m \in proc'.lines : Key(l) = Key(m) => l = m
    BY <2>4, <2>5
  <2>8. QED BY <1>6, <2>1, <2>6, <2>7
<1>9. QED BY <1>1, <1>2, <1>4, <1>5, <1>7, <1>8, Shapes

---------------------------------------------------------------------------
(* CapIsKept and WholeUnlessTorn *)

\* What is written of pairs, after each shape of a step.
LEMMA WrittenStep ==
  ASSUME IInv, AtWork, TodoIsNew, [Next]_vars
  PROVE  \/ Written' = Written
         \/ Stops /\ Written' = Recorded
         \/ \E p \in Problems, policy \in Policies, cap \in Nat :
              /\ Builds(p) /\ p \notin PairedProblems /\ Written = Recorded
              /\ Written' = Recorded \cup LinesOf(Of(p) \cap Assessed, policy, cap)
<1>1. CASE UNCHANGED <<files, proc, torn>>
  BY <1>1, FilesSay DEF Written, Pending
<1>2. ASSUME NEW l \in proc.lines, Appends(l) PROVE Written' = Written
  <2>1. proc'.lines = proc.lines \ {l}
    BY <1>2, AppendFacts
  <2>2. Recorded' = Recorded \cup (IF l.file \in {"metadata", "rejections"} THEN {l} ELSE {})
    BY <1>2, AppendedTopic
  <2>3. QED BY <2>1, <2>2 DEF Written, Pending
<1>3. CASE Stops
  <2>1. Recorded' = Recorded /\ proc'.lines = {}
    BY <1>3, FilesSay DEF Stops
  <2>2. QED BY <1>3, <2>1 DEF Written, Pending
<1>4. CASE Enters
  <2>1. Recorded' = Recorded /\ proc'.lines = {} /\ proc.lines = {}
    BY <1>4, FilesSay DEF Enters
  <2>2. QED BY <2>1 DEF Written, Pending
<1>5. ASSUME NEW p \in Problems, Scores(p) \/ Compares(p) \/ Builds(p)
      PROVE  /\ Recorded' = Recorded /\ Written = Recorded
             /\ Written' = IF Builds(p) THEN Recorded \cup proc'.lines ELSE Recorded
  <2>1. files' = files /\ proc.lines = {}
    BY <1>5, NewLinesOfStep
  <2>2. Recorded' = Recorded /\ Written = Recorded
    BY <2>1, FilesSay DEF Written, Pending
  <2>3. CASE Builds(p)
    <3>1. \A l \in proc'.lines : l.file \in {"metadata", "rejections"}
      BY <2>3, NewLinesOfStep
    <3>2. QED BY <2>2, <2>3, <3>1 DEF Written, Pending
  <2>4. CASE ~Builds(p)
    <3>1. \A l \in proc'.lines : l.file \in {"assessments", "rankings", "comparisons"}
      BY <1>5, <2>4, NewLinesOfStep
    <3>2. QED BY <2>2, <2>4, <3>1 DEF Written, Pending
  <2>5. QED BY <2>3, <2>4
<1>6. ASSUME NEW p \in Problems, Builds(p)
      PROVE  \E policy \in Policies, cap \in Nat :
               /\ p \notin PairedProblems /\ Written = Recorded
               /\ Written' = Recorded \cup LinesOf(Of(p) \cap Assessed, policy, cap)
  <2>1. PICK policy \in Policies, cap \in Nat : proc'.lines = LinesOf(Of(p) \cap Assessed, policy, cap)
    BY <1>6 DEF Builds, Writes
  <2>2. p \notin PairedProblems
    BY <1>6 DEF Builds, TodoIsNew
  <2>3. QED BY <1>5, <1>6, <2>1, <2>2
<1>7. QED BY <1>1, <1>2, <1>3, <1>4, <1>5, <1>6, Shapes

\* Among the lines of one problem, what is truncated is not wider than what is
\* kept.
LEMMA LinesKeepTheCap ==
  ASSUME given \in Scenarios, NEW p, NEW S \in SUBSET Of(p), NEW policy, NEW cap \in Nat,
         NEW k \in LinesOf(S, policy, cap), NEW l \in LinesOf(S, policy, cap),
         Truncated(k), l.file = "metadata"
  PROVE  ~WiderMargin(given.evidence, Sides(k), Sides(l))
<1> DEFINE ev == given.evidence
           D == Decided(ev, given.source, S, policy)
           K == Kept(ev, D, cap)
<1>1. /\ k = LineOf(S, policy, cap, Sides(k)) /\ Sides(k) \in Combinations(S)
      /\ l = LineOf(S, policy, cap, Sides(l)) /\ Sides(l) \in Combinations(S)
  BY OneLineEach
<1>2. Sides(k) \notin K
  <2>1. k.file = "rejections"
    BY DEF Truncated
  <2>2. k.file = IF Sides(k) \in K THEN "metadata" ELSE "rejections"
    BY <1>1, SidesOfLine
  <2>3. QED BY <2>1, <2>2
<1>3. Sides(l) \in K
  BY <1>1, SidesOfLine
<1>4. Sides(k) \in D
  <2>1. k.reason = "max_pairs_per_problem"
    BY DEF Truncated
  <2>2. k.reason = IF Sides(k) \in D THEN "max_pairs_per_problem"
                   ELSE IF LineageHolds(given.source, S)
                        THEN Outcome(ev, given.source, policy, Sides(k)) ELSE "integrity_failure"
    BY <1>1, <1>2 DEF LineOf
  <2>3. Outcome(ev, given.source, policy, Sides(k)) # "max_pairs_per_problem"
    BY DEF Outcome, Refusal
  <2>4. QED BY <2>1, <2>2, <2>3
<1>5. Sides(l) \in D
  BY <1>3 DEF Kept
<1>6. IsFiniteSet(S) /\ \A c \in S : Counts(ev[c])
  BY GivenEvidence, FS_Subset DEF Of
<1> HIDE DEF ev
<1>7. QED BY <1>2, <1>3, <1>4, <1>5, <1>6, KeptIsWidest DEF ev

LEMMA CapStep ==
  ASSUME IInv, AtWork, TodoIsNew, CapIsKept, [Next]_vars
  PROVE  CapIsKept'
<1>1. given' = given
  BY Shapes
<1>2. ASSUME Written' \subseteq Written PROVE CapIsKept'
  BY <1>1, <1>2 DEF CapIsKept, Truncated, Topic, Sides
<1>3. Recorded \subseteq Written
  BY DEF Written
<1>4. ASSUME NEW p \in Problems, NEW policy \in Policies, NEW cap \in Nat,
             p \notin PairedProblems, Written = Recorded,
             Written' = Recorded \cup LinesOf(Of(p) \cap Assessed, policy, cap)
      PROVE  CapIsKept'
  <2> DEFINE S == Of(p) \cap Assessed
             New == LinesOf(S, policy, cap)
  <2>1. given \in Scenarios /\ S \in SUBSET Of(p)
    BY DEF IInv, ManifestsTyped
  <2>2. \A l \in New : Topic(l) = p
    <3> HIDE DEF S
    <3>1. QED BY <2>1, NewTopics
  <2>3. \A l \in Recorded : Topic(l) # p
    BY <1>4, TopicOfSides
  <2>4. ASSUME NEW k \in New, NEW l \in New, Truncated(k), l.file = "metadata"
        PROVE  ~WiderMargin(given.evidence, Sides(k), Sides(l))
    <3> HIDE DEF S
    <3>1. QED BY <2>1, <2>4, LinesKeepTheCap
  <2>5. Written' = Recorded \cup New
    BY <1>4
  <2> HIDE DEF New
  <2>6. \A k, l \in Written' : Truncated(k) /\ l.file = "metadata" /\ Topic(k) = Topic(l) =>
          ~WiderMargin(given.evidence, Sides(k), Sides(l))
    BY <1>4, <2>2, <2>3, <2>4, <2>5 DEF CapIsKept
  <2>7. QED BY <1>1, <2>6 DEF CapIsKept
<1>5. QED BY <1>2, <1>3, <1>4, WrittenStep

LEMMA LinesOfAssessment ==
  ASSUME NEW p
  PROVE  /\ \A l \in AssessmentLines(p) : l.file = "assessments"
         /\ {l.candidate : l \in AssessmentLines(p)} = Of(p)
<1> DEFINE A(c) == [file |-> "assessments", candidate |-> c]
<1>1. AssessmentLines(p) = {A(c) : c \in Of(p)}
  BY DEF AssessmentLines
<1>2. \A c : A(c).file = "assessments" /\ A(c).candidate = c
  OBVIOUS
<1> HIDE DEF A
<1>3. QED BY <1>1, <1>2

\* What is assessed, after each shape of a step.
LEMMA ScoredStep ==
  ASSUME IInv, AtWork, [Next]_vars
  PROVE  \/ Scored' = Scored
         \/ Stops /\ Scored' = Assessed
         \/ \E p \in Problems : Scores(p) /\ Scored' = Scored \cup Of(p)
<1>1. CASE UNCHANGED <<files, proc, torn>>
  BY <1>1, FilesSay DEF Scored
<1>2. ASSUME NEW l \in proc.lines, Appends(l) PROVE Scored' = Scored
  <2>1. proc'.lines = proc.lines \ {l}
    BY <1>2, AppendFacts
  <2>2. Assessed' = Assessed \cup (IF l.file = "assessments" THEN {l.candidate} ELSE {})
    BY <1>2, AppendedTopic
  <2>3. QED BY <2>1, <2>2 DEF Scored
<1>3. CASE Stops
  <2>1. Assessed' = Assessed /\ proc'.lines = {}
    BY <1>3, FilesSay DEF Stops
  <2>2. QED BY <1>3, <2>1 DEF Scored
<1>4. CASE Enters
  <2>1. Assessed' = Assessed /\ proc'.lines = {} /\ proc.lines = {}
    BY <1>4, FilesSay DEF Enters
  <2>2. QED BY <2>1 DEF Scored
<1>5. ASSUME NEW p \in Problems, Scores(p) \/ Compares(p) \/ Builds(p)
      PROVE  Assessed' = Assessed /\ Scored = Assessed
  <2>1. files' = files /\ proc.lines = {}
    BY <1>5, NewLinesOfStep
  <2>2. QED BY <2>1, FilesSay DEF Scored
<1>6. ASSUME NEW p \in Problems, Scores(p) PROVE Scored' = Scored \cup Of(p)
  <2>1. proc'.lines = AssessmentLines(p)
    BY <1>6 DEF Scores, Writes
  <2>2. QED BY <1>5, <1>6, <2>1, LinesOfAssessment DEF Scored
<1>7. ASSUME NEW p \in Problems, Compares(p) \/ Builds(p) PROVE Scored' = Scored
  <2>1. \A l \in proc'.lines : l.file # "assessments"
    BY <1>7, NewLinesOfStep
  <2>2. QED BY <1>5, <1>7, <2>1 DEF Scored
<1>8. QED BY <1>1, <1>2, <1>3, <1>4, <1>6, <1>7, Shapes

\* Everything a process has not appended is of the problem it stops at.
LEMMA StopsAtOne ==
  ASSUME AtWork, Stops
  PROVE  /\ \A l \in proc.lines : l.file = "assessments" => <<"rank", Topic(l)>> \in torn'
         /\ \A l \in Pending : <<"pair", Topic(l)>> \in torn'
<1>1. \A l \in proc.lines : <<proc.cmd, Topic(l)>> \in torn'
  BY DEF AtWork, Stops
<1>2. \A l \in proc.lines : l.file = "assessments" => proc.cmd = "rank"
  <2>1. \A l \in proc.lines : l.file = "assessments" => proc.at = "assessed"
    BY DEF AtWork, Open
  <2>2. QED BY <2>1 DEF AtWork
<1>3. \A l \in Pending : proc.cmd = "pair"
  BY DEF AtWork, Open, Pending
<1>4. QED BY <1>1, <1>2, <1>3 DEF Pending

LEMMA TornGrows ==
  ASSUME IInv, AtWork, [Next]_vars
  PROVE  torn \subseteq torn'
<1>1. \A l \in proc.lines : Appends(l) => torn' = torn
  BY DEF Appends
<1>2. Enters \/ Stops => torn \subseteq torn'
  BY DEF Enters, Stops
<1>3. \A p \in Problems : Scores(p) \/ Compares(p) \/ Builds(p) => torn' = torn
  BY NewLinesOfStep
<1>4. QED BY <1>1, <1>2, <1>3, Shapes

\* A problem that ranking did not cut short is assessed as a whole.
LEMMA ScoredWhole ==
  ASSUME IInv, AtWork, WholeUnlessTorn, [Next]_vars, NEW p, <<"rank", p>> \notin torn',
         NEW c \in Scored', c[1] = p
  PROVE  Of(p) \subseteq Scored'
<1>1. <<"rank", p>> \notin torn
  BY TornGrows
<1>2. \A d \in Scored : d[1] = p => Of(p) \subseteq Scored
  BY <1>1 DEF WholeUnlessTorn
<1>3. CASE Scored' = Scored
  BY <1>2, <1>3
<1>4. CASE Stops /\ Scored' = Assessed
  <2>1. Of(p) \subseteq Scored
    BY <1>2, <1>4 DEF Scored
  <2>2. ASSUME NEW d \in Of(p) PROVE d \in Assessed
    <3>1. \A l \in proc.lines : l.file = "assessments" => Topic(l) = l.candidate[1]
      BY DEF Topic
    <3>2. \A l \in proc.lines : l.file = "assessments" => l.candidate # d
      BY <1>4, <3>1, StopsAtOne DEF Of
    <3>3. QED BY <2>1, <3>2 DEF Scored
  <2>3. QED BY <1>4, <2>2
<1>5. ASSUME NEW q \in Problems, Scores(q), Scored' = Scored \cup Of(q) PROVE Of(p) \subseteq Scored'
  <2>1. CASE c \in Scored
    BY <1>2, <1>5, <2>1
  <2>2. CASE c \in Of(q)
    BY <1>5, <2>2 DEF Of
  <2>3. QED BY <1>5, <2>1, <2>2
<1>6. QED BY <1>3, <1>4, <1>5, ScoredStep

\* A problem that neither command cut short is on record as a whole.
LEMMA WrittenWhole ==
  ASSUME IInv, AtWork, TodoIsNew, WholeUnlessTorn, [Next]_vars,
         NEW p, {<<"rank", p>>, <<"pair", p>>} \cap torn' = {}, WrittenOf(p)' # {}
  PROVE  \E policy \in Policies, cap \in Nat : WrittenOf(p)' = LinesOf(Of(p), policy, cap)
<1>1. {<<"rank", p>>, <<"pair", p>>} \cap torn = {}
  BY TornGrows
<1>2. WrittenOf(p)' = {l \in Written' : Topic(l) = p}
  BY DEF WrittenOf, Topic
<1>3. WrittenOf(p) # {} => \E policy \in Policies, cap \in Nat : WrittenOf(p) = LinesOf(Of(p), policy, cap)
  BY <1>1 DEF WholeUnlessTorn
<1>4. CASE Written' = Written
  BY <1>2, <1>3, <1>4 DEF WrittenOf
<1>5. CASE Stops /\ Written' = Recorded
  <2>1. \A l \in Pending : Topic(l) # p
    BY <1>5, StopsAtOne
  <2>2. WrittenOf(p)' = WrittenOf(p)
    BY <1>2, <1>5, <2>1 DEF WrittenOf, Written
  <2>3. QED BY <1>3, <2>2
<1>6. ASSUME NEW q \in Problems, NEW policy \in Policies, NEW cap \in Nat,
             Builds(q), q \notin PairedProblems, Written = Recorded,
             Written' = Recorded \cup LinesOf(Of(q) \cap Assessed, policy, cap)
      PROVE  \E policy1 \in Policies, cap1 \in Nat : WrittenOf(p)' = LinesOf(Of(p), policy1, cap1)
  <2> DEFINE S == Of(q) \cap Assessed
             New == LinesOf(S, policy, cap)
  <2>1. given \in Scenarios /\ S \in SUBSET Of(q)
    BY DEF IInv, ManifestsTyped
  <2>2. \A l \in New : Topic(l) = q
    <3> HIDE DEF S
    <3>1. QED BY <2>1, NewTopics
  <2>3. \A l \in Recorded : Topic(l) # q
    BY <1>6, TopicOfSides
  <2>4. WrittenOf(p)' = {l \in Recorded \cup New : Topic(l) = p}
    BY <1>2, <1>6
  <2> HIDE DEF New
  <2>5. CASE p # q
    <3>1. WrittenOf(p)' = WrittenOf(p)
      BY <1>6, <2>2, <2>4, <2>5 DEF WrittenOf
    <3>2. QED BY <1>3, <3>1
  <2>6. CASE p = q
    <3>1. WrittenOf(p)' = New
      BY <2>2, <2>3, <2>4, <2>6
    <3>2. q \in AssessedProblems /\ Scored = Assessed
      BY <1>6 DEF Builds, Writes, TodoIsNew, Scored
    <3>3. Of(q) \subseteq Assessed
      BY <1>1, <2>6, <3>2 DEF WholeUnlessTorn, AssessedProblems
    <3>4. S = Of(p)
      BY <2>6, <3>3
    <3>5. QED BY <3>1, <3>4 DEF New
  <2>7. QED BY <2>5, <2>6
<1>7. QED BY <1>4, <1>5, <1>6, <1>3, WrittenStep

LEMMA WholeStep ==
  ASSUME IInv, AtWork, TodoIsNew, WholeUnlessTorn, [Next]_vars
  PROVE  WholeUnlessTorn'
<1>1. given' = given /\ \A p : Of(p)' = Of(p)
  BY Shapes, GivenStays
<1>2. \A p : <<"rank", p>> \notin torn' /\ (\E c \in Scored' : c[1] = p) => Of(p) \subseteq Scored'
  BY ScoredWhole
<1>3. \A S, policy, cap : LinesOf(S, policy, cap)' = LinesOf(S, policy, cap)
  BY <1>1 DEF LinesOf
<1>4. \A p : {<<"rank", p>>, <<"pair", p>>} \cap torn' = {} /\ WrittenOf(p)' # {} =>
        \E policy \in Policies, cap \in Nat : WrittenOf(p)' = LinesOf(Of(p), policy, cap)
  BY WrittenWhole
<1>5. QED BY <1>1, <1>2, <1>3, <1>4 DEF WholeUnlessTorn

LEMMA InitLogged == Init => LogInv
<1> SUFFICES ASSUME Init PROVE LogInv
  OBVIOUS
<1>1. /\ proc.lines = {} /\ proc.at = "idle"
      /\ \A f \in FileNames : files[f] = <<>>
  BY DEF Init, Idle
<1>2. \A f \in FileNames : DOMAIN files[f] = {} /\ Lines(f) = {}
  BY <1>1 DEF Lines
<1>3. AtWork /\ TodoIsNew
  BY <1>1 DEF AtWork, TodoIsNew
<1>4. KeysAreNew
  BY <1>1, <1>2 DEF KeysAreNew, Keyed, FileNames
<1>5. Written = {} /\ Scored = {}
  BY <1>1, <1>2 DEF Written, Recorded, Pending, Scored, Assessed, FileNames
<1>6. CapIsKept /\ WholeUnlessTorn
  BY <1>5 DEF CapIsKept, WholeUnlessTorn, WrittenOf
<1>7. QED BY <1>3, <1>4, <1>6 DEF LogInv

LEMMA StepLogged == IInv /\ LogInv /\ [Next]_vars => LogInv'
<1> SUFFICES ASSUME IInv, LogInv, [Next]_vars PROVE LogInv'
  OBVIOUS
<1>1. AtWork /\ TodoIsNew /\ KeysAreNew /\ CapIsKept /\ WholeUnlessTorn
  BY DEF LogInv
<1>2. AtWork' /\ TodoIsNew' /\ KeysAreNew' /\ CapIsKept' /\ WholeUnlessTorn'
  BY <1>1, AtWorkStep, TodoStep, KeysStep, CapStep, WholeStep
<1>3. QED BY <1>2 DEF LogInv

LEMMA LogInvariance == Spec => []LogInv
<1>1. Init /\ IInv => LogInv
  BY InitLogged
<1>2. QED BY <1>1, Invariance, StepLogged, PTL DEF Spec

---------------------------------------------------------------------------
(* Nothing twice, nothing wide dropped *)

LEMMA KeysRecordOnce ==
  ASSUME IInv, KeysAreNew
  PROVE  RecordedOnce
<1>1. ASSUME NEW i \in DOMAIN files.rankings, NEW j \in DOMAIN files.rankings,
             files.rankings[i].candidate = files.rankings[j].candidate
      PROVE  i = j
  <2>1. /\ "rankings" \in Keyed
        /\ Key(files["rankings"][i]) = Key(files["rankings"][j])
    BY <1>1, TopicOfKey DEF Keyed
  <2>2. QED BY <2>1 DEF KeysAreNew
<1>2. ASSUME NEW f \in {"metadata", "rejections"}, NEW g \in {"metadata", "rejections"},
             NEW i \in DOMAIN files[f], NEW j \in DOMAIN files[g],
             Sides(files[f][i]) = Sides(files[g][j])
      PROVE  f = g /\ i = j
  <2>1. f \in Keyed /\ g \in Keyed /\ f # "rankings" /\ g # "rankings"
    BY DEF Keyed
  <2>2. Key(files[f][i]) = <<"paired", Sides(files[f][i])>>
    BY <2>1, TopicOfKey
  <2>3. Key(files[g][j]) = <<"paired", Sides(files[g][j])>>
    BY <2>1, TopicOfKey
  <2>4. Key(files[f][i]) = Key(files[g][j])
    BY <1>2, <2>2, <2>3
  <2>5. QED BY <2>1, <2>4 DEF KeysAreNew
<1>3. QED BY <1>1, <1>2 DEF RecordedOnce

\* However often the two runs are cut short and resumed, no candidate is ranked
\* twice and no two candidates are paired or rejected twice: what the resumed
\* loop still has to do, it finds from the lines that were appended.
THEOREM NothingIsRecordedTwice == Spec => []RecordedOnce
BY KeysRecordOnce, Invariance, LogInvariance, PTL DEF LogInv

\* Whatever the cap of each invocation was, max_pairs_per_problem has dropped no
\* pair with a wider margin than a pair of the same problem that it kept.
THEOREM CapAlwaysKeepsTheWidest == Spec => []CapKeepsTheWidest
<1>1. IInv /\ LogInv => CapKeepsTheWidest
  <2> SUFFICES ASSUME IInv, CapIsKept,
                      NEW k \in Lines("rejections"), Truncated(k),
                      NEW l \in Lines("metadata"), l.chosen[1] = k.a[1]
               PROVE  ~WiderMargin(given.evidence, Sides(k), Sides(l))
    BY DEF CapKeepsTheWidest, LogInv
  <2>1. k.file = "rejections" /\ l.file = "metadata"
    BY LinesOfFiles DEF FileNames
  <2>2. k \in Written /\ l \in Written
    BY DEF Written, Recorded
  <2>3. Topic(k) = Topic(l)
    BY <2>1 DEF Topic
  <2>4. QED BY <2>1, <2>2, <2>3 DEF CapIsKept
<1>2. QED BY <1>1, Invariance, LogInvariance, PTL

---------------------------------------------------------------------------
(* One training record of every text *)

\* A set of candidates has a least one.
LEMMA LeastCandidate ==
  ASSUME NEW T \in SUBSET (Nat \X Nat), T # {}
  PROVE  \E c \in T : \A d \in T : d = c \/ Before(c, d)
<1>1. PICK a \in T : \A d \in T : a[1] <= d[1]
  <2> DEFINE F == {d[1] : d \in T}
  <2>1. F \in SUBSET Nat /\ F # {}
    OBVIOUS
  <2>2. PICK n \in F : \A m \in F : n <= m
    <3> HIDE DEF F
    <3>1. QED BY <2>1, LeastOf
  <2>3. QED BY <2>2
<1>2. PICK c \in T : c[1] = a[1] /\ \A d \in T : d[1] = a[1] => c[2] <= d[2]
  <2> DEFINE G == {d[2] : d \in {e \in T : e[1] = a[1]}}
  <2>1. G \in SUBSET Nat /\ G # {}
    BY <1>1
  <2>2. PICK n \in G : \A m \in G : n <= m
    <3> HIDE DEF G
    <3>1. QED BY <2>1, LeastOf
  <2>3. QED BY <2>2
<1>3. ASSUME NEW d \in T PROVE d = c \/ Before(c, d)
  <2>1. c \in Nat \X Nat /\ d \in Nat \X Nat /\ c[1] <= d[1]
    BY <1>1, <1>2
  <2>2. c[1] = d[1] => c[2] <= d[2]
    BY <1>2
  <2>3. QED BY <2>1, <2>2 DEF Before
<1>4. QED BY <1>3

\* A set of pairs of candidates has a least one, and BeforePair is an order.
LEMMA LeastPair ==
  ASSUME NEW T \in SUBSET ((Nat \X Nat) \X (Nat \X Nat)), T # {}
  PROVE  \E u \in T : \A v \in T : v = u \/ BeforePair(u[1], u[2], v[1], v[2])
<1>1. PICK a \in T : \A v \in T : v[1] = a[1] \/ Before(a[1], v[1])
  <2> DEFINE F == {v[1] : v \in T}
  <2>1. F \in SUBSET (Nat \X Nat) /\ F # {}
    OBVIOUS
  <2>2. PICK c \in F : \A d \in F : d = c \/ Before(c, d)
    <3> HIDE DEF F
    <3>1. QED BY <2>1, LeastCandidate
  <2>3. QED BY <2>2
<1>2. PICK u \in T : u[1] = a[1] /\ \A v \in T : v[1] = a[1] => v[2] = u[2] \/ Before(u[2], v[2])
  <2> DEFINE G == {v[2] : v \in {w \in T : w[1] = a[1]}}
  <2>1. G \in SUBSET (Nat \X Nat) /\ G # {}
    BY <1>1
  <2>2. PICK c \in G : \A d \in G : d = c \/ Before(c, d)
    <3> HIDE DEF G
    <3>1. QED BY <2>1, LeastCandidate
  <2>3. QED BY <2>2
<1>3. ASSUME NEW v \in T PROVE v = u \/ BeforePair(u[1], u[2], v[1], v[2])
  <2>1. u = <<u[1], u[2]>> /\ v = <<v[1], v[2]>>
    OBVIOUS
  <2>2. v[1] = u[1] \/ Before(u[1], v[1])
    BY <1>1, <1>2
  <2>3. v[1] = u[1] => v[2] = u[2] \/ Before(u[2], v[2])
    BY <1>2
  <2>4. QED BY <2>1, <2>2, <2>3 DEF BeforePair
<1>4. QED BY <1>3

LEMMA BeforeIsOrder ==
  ASSUME NEW a \in Nat \X Nat, NEW b \in Nat \X Nat
  PROVE  /\ ~Before(a, a) /\ ~(Before(a, b) /\ Before(b, a))
         /\ a = b \/ Before(a, b) \/ Before(b, a)
BY DEF Before

\* Of the pairs that share a text, dedupe_training_records keeps exactly one.
LEMMA OneOfEachText ==
  ASSUME given \in Scenarios, NEW K \in SUBSET (Candidates \X Candidates), NEW ab \in K
  PROVE  \E u \in K :
           /\ SameTraining(given.evidence, given.source, ab, u)
           /\ ~Duplicate(given.evidence, given.source, K, u)
           /\ \A v \in K : /\ SameTraining(given.evidence, given.source, ab, v)
                           /\ ~Duplicate(given.evidence, given.source, K, v)
                => /\ ChosenOf(given.evidence, v) = ChosenOf(given.evidence, u)
                   /\ RejectedOf(given.evidence, v) = RejectedOf(given.evidence, u)
<1> DEFINE ch(v) == ChosenOf(given.evidence, v)
           re(v) == RejectedOf(given.evidence, v)
           Same(u, v) == SameTraining(given.evidence, given.source, u, v)
           C == {v \in K : Same(ab, v)}
           T == {<<ch(v), re(v)>> : v \in C}
<1>1. \A v \in K : ch(v) \in Nat \X Nat /\ re(v) \in Nat \X Nat
  BY CandidatesAreNumbers DEF ChosenOf, RejectedOf
<1>2. /\ \A u, v : Same(u, v) <=> /\ given.source[ch(u)] = given.source[ch(v)]
                                  /\ given.source[re(u)] = given.source[re(v)]
      /\ \A v : Duplicate(given.evidence, given.source, K, v) <=>
                   \E w \in K : Same(v, w) /\ BeforePair(ch(w), re(w), ch(v), re(v))
  BY DEF SameTraining, Duplicate
<1> HIDE DEF ch, re, Same
<1>3. ab \in C
  BY <1>2
<1>4. T \in SUBSET ((Nat \X Nat) \X (Nat \X Nat)) /\ T # {}
  <2>1. <<ch(ab), re(ab)>> \in T
    BY <1>3
  <2>2. \A v \in C : <<ch(v), re(v)>> \in (Nat \X Nat) \X (Nat \X Nat)
    BY <1>1
  <2> HIDE DEF C
  <2>3. QED BY <2>1, <2>2
<1>5. PICK t \in T : \A s \in T : s = t \/ BeforePair(t[1], t[2], s[1], s[2])
  <2> HIDE DEF T
  <2>1. QED BY <1>4, LeastPair
<1>6. PICK u \in C : t = <<ch(u), re(u)>>
  BY <1>5
<1>7. \A v \in C : /\ ch(v) \in Nat \X Nat /\ re(v) \in Nat \X Nat
                   /\ (ch(v) = ch(u) /\ re(v) = re(u)) \/ BeforePair(ch(u), re(u), ch(v), re(v))
  <2>1. ASSUME NEW v \in C
        PROVE  (ch(v) = ch(u) /\ re(v) = re(u)) \/ BeforePair(ch(u), re(u), ch(v), re(v))
    <3>1. <<ch(v), re(v)>> \in T
      OBVIOUS
    <3>2. <<ch(v), re(v)>> = t \/ BeforePair(t[1], t[2], ch(v), re(v))
      BY <1>5, <3>1
    <3>3. QED BY <1>6, <3>2
  <2>2. QED BY <1>1, <2>1
<1>8. ~Duplicate(given.evidence, given.source, K, u)
  <2>1. SUFFICES ASSUME NEW w \in K, Same(u, w), BeforePair(ch(w), re(w), ch(u), re(u))
                 PROVE  FALSE
    BY <1>2
  <2>2. w \in C
    BY <1>2, <1>6, <2>1
  <2>3. (ch(w) = ch(u) /\ re(w) = re(u)) \/ BeforePair(ch(u), re(u), ch(w), re(w))
    BY <1>7, <2>2
  <2>4. /\ ~Before(ch(u), ch(u)) /\ ~(Before(ch(u), ch(w)) /\ Before(ch(w), ch(u)))
        /\ ~Before(re(u), re(u)) /\ ~(Before(re(u), re(w)) /\ Before(re(w), re(u)))
    BY <1>6, <1>7, <2>2, BeforeIsOrder
  <2>5. QED BY <2>1, <2>3, <2>4 DEF BeforePair
<1>9. ASSUME NEW v \in K, Same(ab, v), ~Duplicate(given.evidence, given.source, K, v)
      PROVE  ch(v) = ch(u) /\ re(v) = re(u)
  <2>1. v \in C /\ Same(v, u)
    BY <1>2, <1>6, <1>9
  <2>2. ~BeforePair(ch(u), re(u), ch(v), re(v))
    BY <1>2, <1>6, <1>9, <2>1
  <2>3. QED BY <1>7, <2>1, <2>2
<1>10. QED BY <1>6, <1>8, <1>9 DEF Same, ch, re

---------------------------------------------------------------------------
(* Nothing dropped *)

\* What is on record of a problem that was not cut short.
LEMMA RecordOfWhole ==
  ASSUME IInv, LogInv, NEW p \in PairedProblems, Whole(p)
  PROVE  \E policy \in Policies, cap \in Nat : About(p) = LinesOf(Of(p), policy, cap)
<1>1. \A l \in Pending : Topic(l) # p
  <2>1. \A l \in Pending : proc.cmd = "pair" /\ proc.problem = Topic(l) /\ proc.lines # {}
    BY DEF LogInv, AtWork, Open, Pending
  <2>2. QED BY <2>1 DEF Whole
<1>2. About(p) = {l \in Recorded : Topic(l) = p}
  BY TopicOfSides DEF About
<1>3. WrittenOf(p) = About(p)
  BY <1>1, <1>2 DEF WrittenOf, Written
<1>4. About(p) # {}
  BY <1>2, ProblemsOfFiles
<1>5. {<<"rank", p>>, <<"pair", p>>} \cap torn = {}
  BY DEF Whole
<1>6. QED BY <1>3, <1>4, <1>5 DEF LogInv, WholeUnlessTorn

\* The lines of metadata.jsonl among those of one problem.
LEMMA PairsOfLines ==
  ASSUME given \in Scenarios, NEW S \in SUBSET Candidates, NEW policy, NEW cap
  PROVE  LET K == Kept(given.evidence, Decided(given.evidence, given.source, S, policy), cap)
             Pair(ab) == [file |-> "metadata", chosen |-> ChosenOf(given.evidence, ab),
                          rejected |-> RejectedOf(given.evidence, ab), policy |-> policy,
                          duplicate |-> Duplicate(given.evidence, given.source, K, ab)]
         IN /\ K \in SUBSET (Candidates \X Candidates)
            /\ {l \in LinesOf(S, policy, cap) : l.file = "metadata"} = {Pair(ab) : ab \in K}
<1> DEFINE K == Kept(given.evidence, Decided(given.evidence, given.source, S, policy), cap)
           Pair(ab) == [file |-> "metadata", chosen |-> ChosenOf(given.evidence, ab),
                        rejected |-> RejectedOf(given.evidence, ab), policy |-> policy,
                        duplicate |-> Duplicate(given.evidence, given.source, K, ab)]
<1>1. K \subseteq Combinations(S)
  BY DEF Kept, Decided
<1>2. K \in SUBSET (Candidates \X Candidates)
  <2> HIDE DEF K
  <2>1. QED BY <1>1 DEF Combinations
<1>3. \A l \in RejectionLines(given.evidence, given.source, S, policy, cap) : l.file = "rejections"
  BY DEF RejectionLines
<1>4. PairLines(given.evidence, given.source, S, policy, cap) = {Pair(ab) : ab \in K}
  BY DEF PairLines
<1>5. \A ab \in K : Pair(ab).file = "metadata"
  OBVIOUS
<1> HIDE DEF K, Pair
<1>6. {l \in LinesOf(S, policy, cap) : l.file = "metadata"} = {Pair(ab) : ab \in K}
  BY <1>3, <1>4, <1>5 DEF LinesOf
<1>7. QED BY <1>2, <1>6 DEF K, Pair

\* However the two runs were cut short and resumed, a problem that was settled
\* and not itself cut short has each of its combinations on record, as a pair or
\* as a rejection, and every text of a pair in exactly one training record.
THEOREM NothingIsDropped == Spec => []NothingDropped
<1>1. IInv /\ LogInv => NothingDropped
  <2> SUFFICES ASSUME IInv, LogInv, NEW p \in PairedProblems, Whole(p)
               PROVE  /\ {Sides(l) : l \in About(p)} = Combinations(Of(p))
                      /\ \A l \in Lines("metadata") : l.chosen[1] = p =>
                           Cardinality({m \in Lines("metadata") :
                             m.chosen[1] = p /\ ~m.duplicate /\ Text(m) = Text(l)}) = 1
    BY DEF NothingDropped
  <2>1. PICK policy \in Policies, cap \in Nat : About(p) = LinesOf(Of(p), policy, cap)
    BY RecordOfWhole
  <2>2. given \in Scenarios
    BY DEF IInv, ManifestsTyped
  <2>3. {Sides(l) : l \in About(p)} = Combinations(Of(p))
    <3>1. \A l \in About(p) : Sides(l) \in Combinations(Of(p))
      BY <2>1, <2>2, OneLineEach
    <3>2. ASSUME NEW ab \in Combinations(Of(p)) PROVE \E l \in About(p) : Sides(l) = ab
      <4>1. LineOf(Of(p), policy, cap, ab) \in About(p)
        BY <2>1, <2>2, OneLineEach
      <4>2. Sides(LineOf(Of(p), policy, cap, ab)) = ab
        BY <2>2, SidesOfLine
      <4>3. QED BY <4>1, <4>2
    <3>3. QED BY <3>1, <3>2
  <2> DEFINE Own == {m \in Lines("metadata") : m.chosen[1] = p}
             K == Kept(given.evidence, Decided(given.evidence, given.source, Of(p), policy), cap)
             Pair(ab) == [file |-> "metadata", chosen |-> ChosenOf(given.evidence, ab),
                          rejected |-> RejectedOf(given.evidence, ab), policy |-> policy,
                          duplicate |-> Duplicate(given.evidence, given.source, K, ab)]
  <2>4. Own = {l \in About(p) : l.file = "metadata"}
    <3>1. \A l \in Lines("metadata") : l.file = "metadata" /\ l \in Recorded /\ Topic(l) = l.chosen[1]
      BY LinesOfFiles DEF Recorded, Topic, FileNames
    <3>2. \A l \in Lines("rejections") : l.file = "rejections"
      BY LinesOfFiles DEF FileNames
    <3>3. About(p) = {l \in Recorded : Topic(l) = p}
      BY TopicOfSides DEF About
    <3>4. QED BY <3>1, <3>2, <3>3 DEF Recorded
  <2>5. K \in SUBSET (Candidates \X Candidates) /\ Own = {Pair(ab) : ab \in K}
    <3>1. Of(p) \in SUBSET Candidates
      BY DEF Of
    <3>2. QED BY <2>1, <2>2, <2>4, <3>1, PairsOfLines
  <2>6. \A ab, cd \in K : SameTraining(given.evidence, given.source, ab, cd)
                            <=> Text(Pair(ab)) = Text(Pair(cd))
    BY DEF SameTraining, Text
  <2>7. \A ab \in K : Pair(ab).duplicate <=> Duplicate(given.evidence, given.source, K, ab)
    OBVIOUS
  <2>8. ASSUME NEW l \in Own
        PROVE  Cardinality({m \in Own : ~m.duplicate /\ Text(m) = Text(l)}) = 1
    <3>1. PICK ab \in K : l = Pair(ab)
      BY <2>5
    <3>2. PICK u \in K :
            /\ SameTraining(given.evidence, given.source, ab, u)
            /\ ~Duplicate(given.evidence, given.source, K, u)
            /\ \A v \in K : /\ SameTraining(given.evidence, given.source, ab, v)
                            /\ ~Duplicate(given.evidence, given.source, K, v)
                 => /\ ChosenOf(given.evidence, v) = ChosenOf(given.evidence, u)
                    /\ RejectedOf(given.evidence, v) = RejectedOf(given.evidence, u)
      <4> HIDE DEF K
      <4>1. QED BY <2>2, <2>5, OneOfEachText
    <3>3. \A v \in K : ChosenOf(given.evidence, v) = ChosenOf(given.evidence, u)
                       /\ RejectedOf(given.evidence, v) = RejectedOf(given.evidence, u)
                       /\ ~Duplicate(given.evidence, given.source, K, v)
                       => Pair(v) = Pair(u)
      <4>1. \A v \in K : Duplicate(given.evidence, given.source, K, v) \in BOOLEAN
        BY DEF Duplicate
      <4> HIDE DEF K
      <4>2. QED BY <3>2, <4>1
    <3> HIDE DEF K, Pair, Own
    <3>4. {m \in Own : ~m.duplicate /\ Text(m) = Text(l)} = {Pair(u)}
      BY <2>5, <2>6, <2>7, <3>1, <3>2, <3>3
    <3>5. QED BY <3>4, FS_Singleton
  <2>9. ASSUME NEW l \in Lines("metadata"), l.chosen[1] = p
        PROVE  Cardinality({m \in Lines("metadata") :
                              m.chosen[1] = p /\ ~m.duplicate /\ Text(m) = Text(l)}) = 1
    <3>1. {m \in Lines("metadata") : m.chosen[1] = p /\ ~m.duplicate /\ Text(m) = Text(l)}
            = {m \in Own : ~m.duplicate /\ Text(m) = Text(l)}
      OBVIOUS
    <3>2. l \in Own
      BY <2>9
    <3> HIDE DEF Own
    <3>3. QED BY <2>8, <3>1, <3>2
  <2>10. QED BY <2>3, <2>9
<1>2. QED BY <1>1, Invariance, LogInvariance, PTL

---------------------------------------------------------------------------
(* Splitting a pool *)

Place(pool, p) == Cardinality({q \in pool : q < p}) + 1

\* Sorting gives every problem of the pool a place of its own, and every place
\* a problem.
LEMMA PlacesAreDistinct ==
  ASSUME NEW pool \in SUBSET Nat, IsFiniteSet(pool)
  PROVE  /\ Cardinality(pool) \in Nat
         /\ \A p \in pool : Place(pool, p) \in 1..Cardinality(pool)
         /\ \A p, q \in pool : Place(pool, p) = Place(pool, q) => p = q
         /\ \A k \in 1..Cardinality(pool) : \E p \in pool : Place(pool, p) = k
<1> DEFINE n == Cardinality(pool)
           Below(p) == {q \in pool : q < p}
           f == [p \in pool |-> Place(pool, p)]
<1>1. n \in Nat
  BY FS_CardinalityType
<1>2. \A p : IsFiniteSet(Below(p)) /\ Cardinality(Below(p)) \in Nat
  BY FS_Subset, FS_CardinalityType
<1>3. ASSUME NEW p \in pool PROVE Place(pool, p) \in 1..n
  <2>1. Below(p) \subseteq pool \ {p}
    OBVIOUS
  <2>4. Place(pool, p) = Cardinality(Below(p)) + 1
    BY DEF Place
  <2> HIDE DEF Below, n
  <2>2. IsFiniteSet(pool \ {p}) /\ Cardinality(pool \ {p}) = n - 1
    BY FS_RemoveElement DEF n
  <2>3. Cardinality(Below(p)) <= n - 1
    BY <2>1, <2>2, FS_Subset
  <2>5. QED BY <1>1, <1>2, <2>3, <2>4
<1>4. ASSUME NEW p \in pool, NEW q \in pool, p < q PROVE Place(pool, p) < Place(pool, q)
  <2>6. \A r \in pool : r \in Nat
    OBVIOUS
  <2>1. Below(p) \cup {p} \subseteq Below(q) /\ p \notin Below(p)
    <3>1. \A r \in pool : r < p => r < q
      BY <1>4, <2>6
    <3>2. ~(p < p)
      BY <2>6
    <3>3. QED BY <1>4, <3>1, <3>2
  <2>5. Place(pool, p) = Cardinality(Below(p)) + 1 /\ Place(pool, q) = Cardinality(Below(q)) + 1
    BY DEF Place
  <2> HIDE DEF Below
  <2>2. Cardinality(Below(p) \cup {p}) = Cardinality(Below(p)) + 1
    BY <1>2, <2>1, FS_AddElement
  <2>3. Cardinality(Below(p) \cup {p}) <= Cardinality(Below(q))
    BY <1>2, <2>1, FS_Subset
  <2>4. QED BY <1>2, <2>2, <2>3, <2>5
<1>5. \A p, q \in pool : Place(pool, p) = Place(pool, q) => p = q
  <2>1. SUFFICES ASSUME NEW p \in pool, NEW q \in pool, Place(pool, p) = Place(pool, q) PROVE p = q
    OBVIOUS
  <2>2. ~(p < q) /\ ~(q < p)
    BY <1>1, <1>3, <1>4, <2>1
  <2>3. QED BY <2>2
<1>6. f \in Injection(pool, 1..n)
  BY <1>3, <1>5 DEF Injection, IsInjective
<1>7. IsFiniteSet(1..n) /\ Cardinality(1..n) = n
  BY <1>1, FS_Interval
<1>8. f \in Surjection(pool, 1..n)
  <2> HIDE DEF f
  <2>1. QED BY <1>6, <1>7, FS_Injection
<1>9. \A k \in 1..n : \E p \in pool : Place(pool, p) = k
  BY <1>8 DEF Surjection
<1>10. QED BY <1>1, <1>3, <1>5, <1>9

\* The shuffled pool holds every problem once.
LEMMA ShuffledPool ==
  ASSUME NEW pool \in SUBSET Nat, IsFiniteSet(pool),
         Cardinality(pool) # 0 =>
           Shuffle[Cardinality(pool)] \in Bijection(1..Cardinality(pool), 1..Cardinality(pool))
  PROVE  /\ \A k \in 1..Cardinality(pool) : Shuffled(pool, k) \in pool
         /\ \A j, k \in 1..Cardinality(pool) : Shuffled(pool, j) = Shuffled(pool, k) => j = k
         /\ \A p \in pool : \E k \in 1..Cardinality(pool) : Shuffled(pool, k) = p
<1> DEFINE n == Cardinality(pool)
           s == Shuffle[n]
<1>1. /\ n \in Nat
      /\ \A p \in pool : Place(pool, p) \in 1..n
      /\ \A p, q \in pool : Place(pool, p) = Place(pool, q) => p = q
      /\ \A k \in 1..n : \E p \in pool : Place(pool, p) = k
  BY PlacesAreDistinct
<1>2. ASSUME NEW k \in 1..n
      PROVE  /\ s[k] \in 1..n
             /\ \A j \in 1..n : s[j] = s[k] => j = k
             /\ \A m \in 1..n : \E j \in 1..n : s[j] = m
  <2>1. n # 0
    BY <1>1
  <2>2. s \in Bijection(1..n, 1..n)
    BY <2>1
  <2> HIDE DEF s, n
  <2>3. QED BY <2>2 DEF Bijection, Injection, Surjection, IsInjective
<1>3. \A k : Shuffled(pool, k) = CHOOSE p \in pool : Place(pool, p) = s[k]
  BY DEF Shuffled, Place
<1> HIDE DEF s, n
<1>4. ASSUME NEW k \in 1..n
      PROVE  Shuffled(pool, k) \in pool /\ Place(pool, Shuffled(pool, k)) = s[k]
  <2>1. \E p \in pool : Place(pool, p) = s[k]
    BY <1>1, <1>2
  <2>2. QED BY <1>3, <2>1
<1>5. ASSUME NEW j \in 1..n, NEW k \in 1..n, Shuffled(pool, j) = Shuffled(pool, k) PROVE j = k
  <2>1. s[j] = s[k]
    BY <1>4, <1>5
  <2>2. QED BY <1>2, <2>1
<1>6. ASSUME NEW p \in pool PROVE \E k \in 1..n : Shuffled(pool, k) = p
  <2>1. Place(pool, p) \in 1..n
    BY <1>1
  <2>2. PICK k \in 1..n : s[k] = Place(pool, p)
    BY <1>2, <2>1
  <2>3. QED BY <1>1, <1>4, <2>2
<1>7. QED BY <1>4, <1>5, <1>6 DEF n

\* The sizes of the splits.
LEMMA SplitSizes ==
  ASSUME NEW n \in Nat
  PROVE  /\ TrainSize(n) \in 0..n /\ ValidationSize(n) \in 0..(n - TrainSize(n))
         /\ n # 0 => TrainSize(n) >= 1
<1>1. n * TrainPercent \in Nat /\ n * ValidationPercent \in Nat
  BY PercentAssumption
<1>2. (n * TrainPercent) \div 100 \in Nat /\ (n * ValidationPercent) \div 100 \in Nat
  BY <1>1
<1>3. TrainSize(n) \in 0..n /\ (n # 0 => TrainSize(n) >= 1)
  BY <1>2 DEF TrainSize, Smallest
<1>4. ValidationSize(n) \in 0..(n - TrainSize(n))
  BY <1>2, <1>3 DEF ValidationSize, Smallest
<1>5. QED BY <1>3, <1>4

\* Every problem of the pool is in exactly one split, and train is not empty.
LEMMA SplitIsPartition ==
  ASSUME NEW pool \in SUBSET Nat, IsFiniteSet(pool),
         Cardinality(pool) # 0 =>
           Shuffle[Cardinality(pool)] \in Bijection(1..Cardinality(pool), 1..Cardinality(pool))
  PROVE  /\ pool = UNION {Split(pool)[s] : s \in SplitNames}
         /\ \A s, t \in SplitNames : s # t => Split(pool)[s] \cap Split(pool)[t] = {}
         /\ pool # {} => Split(pool).train # {}
<1> DEFINE n == Cardinality(pool)
           a == TrainSize(n)
           b == ValidationSize(n)
           At(lo, hi) == {Shuffled(pool, k) : k \in lo..hi}
<1>1. n \in Nat /\ (pool # {} => n # 0)
  BY FS_CardinalityType, FS_EmptySet
<1>2. a \in 0..n /\ b \in 0..(n - a) /\ (n # 0 => a >= 1)
  BY <1>1, SplitSizes
<1>3. /\ \A k \in 1..n : Shuffled(pool, k) \in pool
      /\ \A j, k \in 1..n : Shuffled(pool, j) = Shuffled(pool, k) => j = k
      /\ \A p \in pool : \E k \in 1..n : Shuffled(pool, k) = p
  BY ShuffledPool
<1>4. /\ Split(pool).train = At(1, a)
      /\ Split(pool).validation = At(a + 1, a + b)
      /\ Split(pool).test = At(a + b + 1, n)
  BY DEF Split
<1> HIDE DEF n, a, b
<1>5. /\ 1..a \subseteq 1..n /\ (a + 1)..(a + b) \subseteq 1..n /\ (a + b + 1)..n \subseteq 1..n
      /\ \A k \in 1..n : k \in 1..a \/ k \in (a + 1)..(a + b) \/ k \in (a + b + 1)..n
      /\ (1..a) \cap ((a + 1)..(a + b)) = {} /\ (1..a) \cap ((a + b + 1)..n) = {}
      /\ ((a + 1)..(a + b)) \cap ((a + b + 1)..n) = {}
  BY <1>1, <1>2
<1> DEFINE A == At(1, a)
           B == At(a + 1, a + b)
           C == At(a + b + 1, n)
<1>6. /\ A \subseteq pool /\ B \subseteq pool /\ C \subseteq pool
  BY <1>3, <1>5
<1>7. \A p \in pool : p \in A \/ p \in B \/ p \in C
  BY <1>3, <1>5
<1>8. A \cap B = {} /\ A \cap C = {} /\ B \cap C = {}
  BY <1>3, <1>5
<1>9. pool # {} => A # {}
  BY <1>1, <1>2
<1> HIDE DEF A, B, C
<1>10. Split(pool).train = A /\ Split(pool).validation = B /\ Split(pool).test = C
  BY <1>4 DEF A, B, C
<1>11. QED BY <1>6, <1>7, <1>8, <1>9, <1>10 DEF SplitNames

---------------------------------------------------------------------------
(* SplitInv *)

Places == {"preferences", "train", "validation", "test", "end"}

LEMMA FilesUpToStay ==
  ASSUME UNCHANGED <<split, dataset>>, Lines("metadata")' = Lines("metadata")
  PROVE  \A at : FilesUpTo(at)' <=> FilesUpTo(at)
<1>1. TrainingPairs' = TrainingPairs
  BY DEF TrainingPairs
<1>2. Pool' = Pool
  BY <1>1 DEF Pool
<1>3. QED BY <1>1, <1>2 DEF FilesUpTo

\* Steps outside the end of `preferences generate`.
LEMMA SplitStays ==
  ASSUME SplitInv, UNCHANGED <<split, dataset>>, Lines("metadata")' = Lines("metadata"),
         proc'.at \notin Places, proc'.at = "split" => proc'.cmd = "pair",
         prefRun'.status = "completed" => prefRun.status = "completed" /\ proc'.cmd # "pair"
  PROVE  SplitInv'
BY FilesUpToStay DEF SplitInv, Places

LEMMA SplitStepAppend ==
  ASSUME IInv, AtWork, SplitInv, AppendLine
  PROVE  SplitInv'
<1>1. PICK l \in proc.lines : Appends(l)
  BY DEF AppendLine, Appends
<1>2. /\ proc'.cmd = proc.cmd /\ proc'.at = proc.at
      /\ \A f : f # l.file => Lines(f)' = Lines(f)
  BY <1>1, AppendFacts
<1>3. UNCHANGED <<split, dataset, prefRun>>
  BY DEF AppendLine
<1>4. proc.at \in {"loop", "assessed"} /\ (l.file = "metadata" => proc.cmd = "pair")
  BY DEF AtWork, Open
<1>5. CASE l.file = "metadata"
  <2>1. prefRun.status # "completed" /\ proc.at \notin Places
    BY <1>4, <1>5 DEF SplitInv, Places
  <2>2. QED BY <1>2, <1>3, <1>4, <2>1 DEF SplitInv, Places
<1>6. CASE l.file # "metadata"
  <2>1. Lines("metadata")' = Lines("metadata")
    BY <1>2, <1>6
  <2>2. prefRun.status = "completed" => proc.cmd # "pair"
    BY DEF SplitInv
  <2>3. QED BY <1>2, <1>3, <1>4, <2>1, <2>2, SplitStays DEF Places
<1>7. QED BY <1>5, <1>6

LEMMA SplitStepLoop ==
  ASSUME IInv, AtWork, SplitInv,
         \/ StartRanking \/ BeginRanking \/ ResumeRanking \/ ScoreProblem \/ RankProblem \/ EndRanking
         \/ StartPairing \/ BeginPairing \/ ResumePairing \/ BuildProblem \/ RefuseProblem \/ Finalize
  PROVE  SplitInv'
<1>1. UNCHANGED <<split, dataset>> /\ Lines("metadata")' = Lines("metadata")
  BY FilesSay DEF StartRanking, BeginRanking, ResumeRanking, RunRanking, ScoreProblem, RankProblem,
         EndRanking, StartPairing, BeginPairing, ResumePairing, RunPairing, BuildProblem,
         RefuseProblem, Finalize
<1>2. Idle.at = "idle" /\ Idle.cmd = "none"
  BY DEF Idle
<1>3. ProcTyped
  BY DEF IInv
<1>4. prefRun.status = "completed" => proc.cmd # "pair"
  BY DEF SplitInv
<1>5. CASE StartRanking \/ BeginRanking \/ ResumeRanking
  <2>1. prefRun' = prefRun /\ proc'.at \in {"start", "loop"} /\ proc'.cmd = "rank"
    BY <1>5 DEF StartRanking, BeginRanking, ResumeRanking, RunRanking, Idle
  <2>2. QED BY <1>1, <2>1, SplitStays DEF Places
<1>6. CASE ScoreProblem
  <2>1. PICK p \in Problems :
          proc' = IF \A c \in Of(p) : Assessable(given.evidence[c])
                  THEN [proc EXCEPT !.todo = @ \ {p}, !.problem = p, !.at = "assessed",
                                    !.lines = AssessmentLines(p)]
                  ELSE Idle
    BY <1>6 DEF ScoreProblem
  <2>2. prefRun' = prefRun /\ proc.cmd = "rank"
    BY <1>6 DEF ScoreProblem, AtLoop
  <2>3. proc'.at \in {"assessed", "idle"} /\ proc'.cmd \in {"rank", "none"}
    BY <1>2, <1>3, <2>1, <2>2 DEF ProcTyped
  <2>4. QED BY <1>1, <2>2, <2>3, SplitStays DEF Places
<1>7. CASE RankProblem \/ EndRanking \/ RefuseProblem
  <2>1. /\ prefRun' = prefRun
        /\ \/ proc' = Idle
           \/ /\ proc.at = "assessed"
              /\ proc' = [proc EXCEPT !.at = "loop",
                            !.lines = RankingLines(proc.problem) \cup ComparisonLines(proc.problem)]
    BY <1>7 DEF RankProblem, EndRanking, RefuseProblem
  <2>2. proc.at = "assessed" => proc.cmd = "rank"
    BY DEF AtWork
  <2>3. proc'.at \in {"loop", "idle"} /\ proc'.cmd \in {"rank", "none"}
    BY <1>2, <1>3, <2>1, <2>2 DEF ProcTyped
  <2>4. QED BY <1>1, <2>1, <2>3, SplitStays DEF Places
<1>8. CASE StartPairing
  <2>0. PICK r : /\ prefRun' = [status |-> "created", policy |-> r[1], cap |-> r[2]]
                 /\ proc' = [Idle EXCEPT !.cmd = "pair", !.at = "start", !.policy = r[1], !.cap = r[2]]
    BY <1>8 DEF StartPairing
  <2>1. prefRun'.status = "created" /\ proc'.at = "start"
    BY <2>0 DEF Idle
  <2>2. QED BY <1>1, <2>1, SplitStays DEF Places
<1>9. CASE BeginPairing \/ ResumePairing
  <2>1. PICK policy, cap : RunPairing(policy, cap)
    BY <1>9 DEF BeginPairing, ResumePairing
  <2>2. prefRun'.status = "running" /\ proc'.at = "loop"
    BY <2>1 DEF RunPairing, Idle, IInv, ManifestsTyped
  <2>3. QED BY <1>1, <2>2, SplitStays DEF Places
<1>10. CASE BuildProblem
  <2>1. PICK p \in Problems : \E new : proc' = [proc EXCEPT !.todo = @ \ {p}, !.problem = p, !.lines = new]
    BY <1>10 DEF BuildProblem
  <2>2. prefRun' = prefRun /\ proc.cmd = "pair" /\ proc.at = "loop"
    BY <1>10 DEF BuildProblem, AtLoop
  <2>3. proc'.at = "loop"
    BY <1>3, <2>1, <2>2 DEF ProcTyped
  <2>4. QED BY <1>1, <1>4, <2>2, <2>3, SplitStays DEF Places
<1>11. CASE Finalize
  <2>1. /\ prefRun' = prefRun /\ proc.cmd = "pair" /\ proc' = [proc EXCEPT !.at = "split"]
    BY <1>11 DEF Finalize, AtLoop
  <2>2. proc'.at = "split" /\ proc'.cmd = "pair"
    BY <1>3, <2>1 DEF ProcTyped
  <2>3. QED BY <1>1, <1>4, <2>1, <2>2, SplitStays DEF Places
<1>12. QED BY <1>5, <1>6, <1>7, <1>8, <1>9, <1>10, <1>11

LEMMA SplitStepFault ==
  ASSUME IInv, AtWork, SplitInv, Interrupt \/ Die
  PROVE  SplitInv'
<1>1. UNCHANGED <<split, dataset>> /\ Lines("metadata")' = Lines("metadata")
  BY FilesSay DEF Interrupt, Die
<1>2. Idle.at = "idle" /\ Idle.cmd = "none"
  BY DEF Idle
<1>3. CASE proc' = Idle
  <2>1. prefRun' = prefRun \/ prefRun'.status = "interrupted"
    BY DEF Interrupt, Die, IInv, ManifestsTyped
  <2>2. QED BY <1>1, <1>2, <1>3, <2>1, SplitStays DEF Places
<1>4. CASE proc' # Idle
  <2>1. /\ proc.cmd = "pair"
        /\ proc' = [proc EXCEPT !.at = "split", !.lines = {}, !.todo = {}, !.signalled = TRUE]
        /\ prefRun' = [prefRun EXCEPT !.status = "interrupted"]
    BY <1>4 DEF Interrupt, Die
  <2>2. proc'.at = "split" /\ proc'.cmd = "pair" /\ prefRun'.status = "interrupted"
    BY <2>1 DEF IInv, ProcTyped, ManifestsTyped
  <2>3. QED BY <1>1, <2>2, SplitStays DEF Places
<1>5. QED BY <1>3, <1>4

\* The steps that derive the dataset files, in their order.
LEMMA SplitStepWrite ==
  ASSUME IInv, AtWork, SplitInv,
         WriteSplit \/ WritePreferences \/ WriteSplitFile \/ EndPairing
  PROVE  SplitInv'
<1>1. TrainingPairs' = TrainingPairs /\ Pool' = Pool
  <2>1. Lines("metadata")' = Lines("metadata")
    BY FilesSay DEF WriteSplit, WritePreferences, WriteSplitFile, EndPairing
  <2>2. TrainingPairs' = TrainingPairs
    BY <2>1 DEF TrainingPairs
  <2>3. QED BY <2>2 DEF Pool
<1>2. ProcTyped
  BY DEF IInv
<1>3. /\ DOMAIN dataset = SplitNames \cup {"preferences"}
      /\ proc.at \in Places \cup {"split"} => proc.cmd = "pair" /\ prefRun.status # "completed"
      /\ proc.at \in Places => FilesUpTo(proc.at)
  BY DEF SplitInv, Places
<1>4. ASSUME NEW at \in Places, proc' = [proc EXCEPT !.at = at], proc.at \in Places \cup {"split"},
             prefRun' = prefRun, DOMAIN dataset' = DOMAIN dataset, FilesUpTo(at)'
      PROVE  SplitInv'
  <2>1. proc'.at = at /\ proc'.cmd = proc.cmd
    BY <1>2, <1>4 DEF ProcTyped
  <2>2. QED BY <1>3, <1>4, <2>1 DEF SplitInv
<1>5. CASE WriteSplit
  <2>1. split' = Split(Pool)
    BY <1>5 DEF WriteSplit, Pool
  <2>2. FilesUpTo("preferences")'
    BY <1>1, <2>1 DEF FilesUpTo, Behind
  <2>3. QED BY <1>4, <1>5, <2>2 DEF WriteSplit, Places
<1>6. CASE WritePreferences
  <2>1. /\ split' = split /\ proc.at = "preferences"
        /\ dataset' = [dataset EXCEPT !.preferences = TrainingPairs]
    BY <1>6 DEF WritePreferences
  <2>2. split = Split(Pool)
    BY <1>3, <2>1 DEF FilesUpTo, Places
  <2>3. DOMAIN dataset' = DOMAIN dataset /\ dataset'.preferences = TrainingPairs
    BY <1>3, <2>1
  <2>4. FilesUpTo("train")'
    BY <1>1, <2>1, <2>2, <2>3 DEF FilesUpTo, Behind, SplitNames
  <2>5. QED BY <1>4, <1>6, <2>3, <2>4 DEF WritePreferences, Places
<1>7. CASE WriteSplitFile
  <2>1. PICK at \in SplitNames :
          /\ proc.at = at /\ proc' = [proc EXCEPT !.at = After[at]]
          /\ dataset' = [dataset EXCEPT ![at] = {ab \in TrainingPairs : ab[1][1] \in split[at]}]
          /\ prefRun' = prefRun /\ split' = split
    BY <1>7 DEF WriteSplitFile
  <2> DEFINE next == After[at]
  <2>2. FilesUpTo(at) /\ at \in Places
    BY <1>3, <2>1 DEF SplitNames, Places
  <2>3. /\ DOMAIN dataset' = DOMAIN dataset
        /\ dataset'[at] = {ab \in TrainingPairs : ab[1][1] \in split[at]}
        /\ \A f \in DOMAIN dataset : f # at => dataset'[f] = dataset[f]
    BY <1>3, <2>1
  <2>4. next \in Places /\ Behind(next) = Behind(at) \cup {at} /\ at # "preferences"
    BY DEF After, SplitNames, Places, Behind
  <2> HIDE DEF next
  <2>5. FilesUpTo(next)'
    <3>1. split' = Split(Pool')
      BY <1>1, <2>1, <2>2 DEF FilesUpTo
    <3>2. "preferences" \in Behind(next) => dataset'.preferences = TrainingPairs'
      BY <1>1, <1>3, <2>2, <2>3, <2>4 DEF FilesUpTo
    <3>3. ASSUME NEW s \in SplitNames \cap Behind(next)
          PROVE  dataset'[s] = {ab \in TrainingPairs' : ab[1][1] \in split'[s]}
      <4>1. CASE s = at
        BY <1>1, <2>1, <2>3, <4>1
      <4>2. CASE s # at
        BY <1>1, <1>3, <2>1, <2>2, <2>3, <2>4, <4>2 DEF FilesUpTo
      <4>3. QED BY <4>1, <4>2
    <3>4. QED BY <3>1, <3>2, <3>3 DEF FilesUpTo
  <2>6. QED BY <1>4, <2>1, <2>2, <2>3, <2>4, <2>5 DEF next
<1>8. CASE EndPairing
  <2>1. /\ proc.at = "end" /\ proc' = Idle /\ UNCHANGED <<split, dataset>>
    BY <1>8 DEF EndPairing
  <2>2. FilesUpTo("end")
    BY <1>3, <2>1 DEF Places
  <2>3. FilesUpTo("end")'
    BY <1>1, <2>1, <2>2 DEF FilesUpTo
  <2>4. proc'.at = "idle" /\ proc'.cmd = "none"
    BY <2>1 DEF Idle
  <2>5. QED BY <1>3, <2>1, <2>3, <2>4 DEF SplitInv
<1>9. QED BY <1>5, <1>6, <1>7, <1>8
LEMMA SplitStep == IInv /\ AtWork /\ SplitInv /\ [Next]_vars => SplitInv'
<1> SUFFICES ASSUME IInv, AtWork, SplitInv, [Next]_vars PROVE SplitInv'
  OBVIOUS
<1>1. CASE UNCHANGED vars
  <2>1. UNCHANGED <<files, split, dataset, prefRun, proc>>
    BY <1>1 DEF vars
  <2>2. Lines("metadata")' = Lines("metadata")
    BY <2>1 DEF Lines
  <2>3. QED BY <2>1, <2>2, FilesUpToStay DEF SplitInv
<1>2. CASE AppendLine
  BY <1>2, SplitStepAppend
<1>3. CASE \/ StartRanking \/ BeginRanking \/ ResumeRanking \/ ScoreProblem \/ RankProblem \/ EndRanking
           \/ StartPairing \/ BeginPairing \/ ResumePairing \/ BuildProblem \/ RefuseProblem \/ Finalize
  BY <1>3, SplitStepLoop
<1>4. CASE WriteSplit \/ WritePreferences \/ WriteSplitFile \/ EndPairing
  BY <1>4, SplitStepWrite
<1>5. CASE Interrupt \/ Die
  BY <1>5, SplitStepFault
<1>6. QED BY <1>1, <1>2, <1>3, <1>4, <1>5 DEF Next, Work

LEMMA InitSplit == Init => SplitInv
BY DEF Init, SplitInv, Idle, SplitNames

LEMMA SplitInvariance == Spec => []SplitInv
<1>1. IInv /\ LogInv /\ SplitInv /\ [Next]_vars => SplitInv'
  BY SplitStep DEF LogInv
<1>2. QED BY <1>1, InitSplit, Invariance, LogInvariance, PTL DEF Spec

\* The problems with training records are few enough to be shuffled.
LEMMA PoolIsShuffled ==
  ASSUME IInv
  PROVE  /\ Pool \in SUBSET Nat /\ IsFiniteSet(Pool)
         /\ Cardinality(Pool) # 0 =>
              Shuffle[Cardinality(Pool)] \in Bijection(1..Cardinality(Pool), 1..Cardinality(Pool))
<1>1. given \in Scenarios
  BY DEF IInv, ManifestsTyped
<1>2. IsFiniteSet(Candidates)
  BY <1>1, GivenEvidence
<1>3. IsFiniteSet(Problems)
  <2> DEFINE f == [c \in Candidates |-> c[1]]
  <2>1. f \in Surjection(Candidates, Problems)
    BY DEF Surjection, Problems
  <2> HIDE DEF f
  <2>2. QED BY <1>2, <2>1, FS_Surjection
<1>4. Problems \subseteq Nat
  BY <1>1, CandidatesAreNumbers DEF Problems
<1>5. Pool \subseteq Problems
  <2>1. \A l \in Lines("metadata") : l.chosen \in Candidates
    BY LinesOfFiles DEF Rows, FileNames
  <2>2. QED BY <2>1 DEF Pool, TrainingPairs, Problems
<1>6. /\ IsFiniteSet(Pool) /\ Cardinality(Pool) <= Cardinality(Problems)
      /\ Cardinality(Pool) \in Nat /\ Cardinality(Problems) \in Nat
  BY <1>3, <1>5, FS_Subset, FS_CardinalityType
<1>7. Cardinality(Pool) # 0 => Cardinality(Pool) \in 1..Cardinality(Problems)
  BY <1>6
<1>8. \A n \in 1..Cardinality(Problems) : Shuffle[n] \in Bijection(1..n, 1..n)
  BY <1>1, ShuffleAssumption DEF Problems, Candidates
<1>9. QED BY <1>4, <1>5, <1>6, <1>7, <1>8

\* A completed preference run has written its four dataset files from the
\* records that are there, every problem of them in one split, after whatever
\* was interrupted, killed and resumed before; and train.jsonl has a record as
\* soon as there is one.
THEOREM CompletedStaysSplit == Spec => []CompletedIsSplit
<1>1. IInv /\ SplitInv => CompletedIsSplit
  <2> SUFFICES ASSUME IInv, SplitInv, prefRun.status = "completed"
               PROVE  /\ dataset.preferences = TrainingPairs
                      /\ TrainingPairs = UNION {dataset[s] : s \in SplitNames}
                      /\ \A s \in SplitNames : \A ab \in dataset[s] : ab[1][1] \in split[s]
                      /\ \A s, t \in SplitNames : s # t => split[s] \cap split[t] = {}
                      /\ TrainingPairs # {} => dataset.train # {}
    BY DEF CompletedIsSplit
  <2>1. FilesUpTo("end")
    BY DEF SplitInv
  <2>2. /\ split = Split(Pool) /\ dataset.preferences = TrainingPairs
        /\ \A s \in SplitNames : dataset[s] = {ab \in TrainingPairs : ab[1][1] \in split[s]}
    BY <2>1 DEF FilesUpTo, Behind, SplitNames
  <2>3. /\ Pool = UNION {split[s] : s \in SplitNames}
        /\ \A s, t \in SplitNames : s # t => split[s] \cap split[t] = {}
        /\ Pool # {} => split.train # {}
    BY <2>2, PoolIsShuffled, SplitIsPartition
  <2>4. \A ab \in TrainingPairs : ab[1][1] \in Pool
    BY DEF Pool
  <2>5. TrainingPairs = UNION {dataset[s] : s \in SplitNames}
    BY <2>2, <2>3, <2>4
  <2>6. TrainingPairs # {} => dataset.train # {}
    <3>1. SUFFICES ASSUME TrainingPairs # {} PROVE dataset.train # {}
      OBVIOUS
    <3>2. Pool # {}
      BY <2>4, <3>1
    <3>3. PICK p \in split.train : p \in Pool
      BY <2>3, <3>2 DEF SplitNames
    <3>4. PICK ab \in TrainingPairs : ab[1][1] = p
      BY <3>3 DEF Pool
    <3>5. ab \in dataset.train
      BY <2>2, <3>3, <3>4 DEF SplitNames
    <3>6. QED BY <3>5
  <2>7. QED BY <2>2, <2>3, <2>5, <2>6
<1>2. QED BY <1>1, Invariance, SplitInvariance, PTL

---------------------------------------------------------------------------
(* JudgedInv: what the two commands report agrees with what the files hold *)

\* What is ranked, or will be.
RankLines == Lines("rankings") \cup {l \in proc.lines : l.file = "rankings"}

\* A ranking command that died or raised leaves the run running for ever.
Abandoned == rankRun.status = "running" /\ proc.cmd # "rank"

ManifestFollows ==
  /\ proc.cmd = "none" => proc.at = "idle"
  /\ proc.cmd = "rank" => proc.at \in {"start", "loop", "assessed"}
  /\ proc.cmd = "rank" /\ proc.at \in {"loop", "assessed"} => rankRun.status = "running"
  /\ rankRun.status = "completed" => proc.cmd # "rank" /\ rankRun.requested \subseteq RankedProblems

\* Only what is assessed is ranked, and a problem that was not cut short is ranked as a whole.
RankedIsAssessed ==
  /\ proc.at = "assessed" => Of(proc.problem) \subseteq Scored
  /\ \A l \in RankLines : l.candidate \in Assessed
  /\ \A p : <<"rank", p>> \notin torn /\ (\E l \in RankLines : Topic(l) = p) =>
       Of(p) \subseteq {l.candidate : l \in RankLines}

\* Only a problem that was cut short is assessed again.
Settled(p) ==
  \/ <<"rank", p>> \in torn
  \/ \E l \in RankLines : Topic(l) = p
  \/ proc.at = "assessed" /\ proc.problem = p
  \/ Abandoned

AssessedOnce ==
  /\ \A p \in AssessedProblems : Settled(p)
  /\ \A i, j \in DOMAIN files.assessments :
       files.assessments[i].candidate = files.assessments[j].candidate =>
         i = j \/ <<"rank", files.assessments[i].candidate[1]>> \in torn
  /\ \A l \in proc.lines : l.file = "assessments" /\ l.candidate \in Assessed =>
       <<"rank", Topic(l)>> \in torn

\* Pairs are made of what is assessed, and no two training records of a problem have one text.
PairsAreNew ==
  \A l \in Written : l.file = "metadata" =>
    /\ l.chosen \in Assessed /\ l.rejected \in Assessed
    /\ \A m \in Written :
         m.file = "metadata" /\ Topic(m) = Topic(l) /\ ~(l.duplicate \/ m.duplicate) /\ Text(m) = Text(l) =>
           m.chosen = l.chosen /\ m.rejected = l.rejected

JudgedInv == ManifestFollows /\ RankedIsAssessed /\ AssessedOnce /\ PairsAreNew

LEMMA FilesGrow ==
  ASSUME IInv, AtWork, [Next]_vars
  PROVE  /\ RankedProblems \subseteq RankedProblems'
         /\ Assessed \subseteq Assessed'
<1>1. CASE files' = files
  BY <1>1, FilesSay
<1>2. ASSUME NEW l \in proc.lines, Appends(l)
      PROVE  RankedProblems \subseteq RankedProblems' /\ Assessed \subseteq Assessed'
  BY <1>2, AppendedTopic
<1>3. Stops \/ Enters => files' = files
  BY DEF Stops, Enters
<1>4. \A p \in Problems : Scores(p) \/ Compares(p) \/ Builds(p) => files' = files
  BY NewLinesOfStep
<1>5. QED BY <1>1, <1>2, <1>3, <1>4, Shapes

\* What a step does to the manifest of the ranking run, and where it leaves a problem that is
\* assessed but not ranked.
LEMMA ManifestStep ==
  ASSUME IInv, AtWork, ManifestFollows, [Next]_vars
  PROVE  /\ ManifestFollows'
         /\ Abandoned => Abandoned'
         /\ proc.at = "assessed" =>
              \/ proc'.at = "assessed" /\ proc'.problem = proc.problem
              \/ Compares(proc.problem)
              \/ <<"rank", proc.problem>> \in torn'
              \/ Abandoned'
<1> DEFINE Leaves == \/ proc'.at = "assessed" /\ proc'.problem = proc.problem
                     \/ Compares(proc.problem)
                     \/ <<"rank", proc.problem>> \in torn'
                     \/ Abandoned'
<1>1. /\ Idle.at = "idle" /\ Idle.cmd = "none"
      /\ ProcTyped
      /\ rankRun \in [status : Statuses, requested : SUBSET Problems]
  BY DEF Idle, IInv, ManifestsTyped
<1>2. RankedProblems \subseteq RankedProblems'
  BY FilesGrow
<1>3. proc.at = "assessed" => proc.cmd = "rank"
  BY DEF AtWork
<1>4. ASSUME rankRun' = rankRun, proc'.cmd = proc.cmd, proc'.at = proc.at, proc'.problem = proc.problem
      PROVE  ManifestFollows' /\ (Abandoned => Abandoned') /\ (proc.at = "assessed" => Leaves)
  BY <1>2, <1>4 DEF ManifestFollows, Abandoned
<1>5. CASE UNCHANGED vars
  BY <1>4, <1>5 DEF vars
<1>6. CASE AppendLine
  <2>1. rankRun' = rankRun /\ proc'.cmd = proc.cmd /\ proc'.at = proc.at /\ proc'.problem = proc.problem
    BY <1>1, <1>6 DEF AppendLine, ProcTyped
  <2>2. QED BY <1>4, <2>1
<1>7. CASE StartRanking \/ BeginRanking \/ ResumeRanking
  <2>1. proc.at # "assessed" /\ rankRun.status # "completed" /\ ~Abandoned
    BY <1>1, <1>7 DEF StartRanking, BeginRanking, ResumeRanking, Resumable, ManifestFollows, Abandoned
  <2>2. /\ proc'.cmd = "rank" /\ proc'.at \in {"start", "loop"}
        /\ rankRun'.status \in {"created", "running"}
        /\ proc'.at = "loop" => rankRun'.status = "running"
    <3>1. CASE StartRanking
      <4>1. PICK S : rankRun' = [status |-> "created", requested |-> S]
        BY <3>1 DEF StartRanking
      <4>2. proc'.cmd = "rank" /\ proc'.at = "start"
        BY <3>1 DEF StartRanking, Idle
      <4>3. QED BY <4>1, <4>2
    <3>2. CASE BeginRanking \/ ResumeRanking
      <4>1. rankRun'.status = "running"
        BY <1>1, <3>2 DEF BeginRanking, ResumeRanking, RunRanking
      <4>2. proc'.cmd = "rank" /\ proc'.at = "loop"
        BY <3>2 DEF BeginRanking, ResumeRanking, RunRanking, Idle
      <4>3. QED BY <4>1, <4>2
    <3>3. QED BY <1>7, <3>1, <3>2
  <2>3. QED BY <2>1, <2>2 DEF ManifestFollows
<1>8. CASE ScoreProblem
  <2>1. /\ proc.cmd = "rank" /\ proc.at = "loop" /\ rankRun' = rankRun
        /\ rankRun.status = "running" /\ ~Abandoned
    BY <1>8 DEF ScoreProblem, AtLoop, ManifestFollows, Abandoned
  <2>2. PICK p : proc' = IF \A c \in Of(p) : Assessable(given.evidence[c])
                         THEN [proc EXCEPT !.todo = @ \ {p}, !.problem = p, !.at = "assessed",
                                           !.lines = AssessmentLines(p)]
                         ELSE Idle
    BY <1>8 DEF ScoreProblem
  <2>3. (proc'.cmd = "rank" /\ proc'.at = "assessed") \/ (proc'.cmd = "none" /\ proc'.at = "idle")
    BY <1>1, <2>1, <2>2 DEF ProcTyped
  <2>4. QED BY <2>1, <2>3 DEF ManifestFollows
<1>9. CASE RankProblem
  <2>1. /\ proc.cmd = "rank" /\ proc.at = "assessed" /\ proc.lines = {} /\ UNCHANGED <<rankRun, files, torn>>
        /\ rankRun.status = "running" /\ ~Abandoned /\ proc.problem \in Problems \ proc.todo
    BY <1>9 DEF RankProblem, AtWork, ManifestFollows, Abandoned
  <2> DEFINE new == RankingLines(proc.problem) \cup ComparisonLines(proc.problem)
  <2>2. proc' = [proc EXCEPT !.at = "loop", !.lines = new] \/ proc' = Idle
    BY <1>9 DEF RankProblem
  <2> HIDE DEF new
  <2>3. CASE proc' = [proc EXCEPT !.at = "loop", !.lines = new]
    <3>1. /\ proc'.cmd = "rank" /\ proc'.at = "loop" /\ proc'.lines = new
          /\ proc'.problem = proc.problem /\ proc'.todo = proc.todo
      BY <1>1, <2>1, <2>3 DEF ProcTyped
    <3>2. Compares(proc.problem)
      BY <2>1, <3>1 DEF Compares, Writes, new
    <3>3. QED BY <2>1, <3>1, <3>2 DEF ManifestFollows
  <2>4. CASE proc' = Idle
    BY <1>1, <2>1, <2>4 DEF ManifestFollows, Abandoned
  <2>5. QED BY <2>2, <2>3, <2>4
<1>10. CASE EndRanking
  <2>1. /\ proc.cmd = "rank" /\ proc.at = "loop" /\ proc' = Idle /\ RankedProblems' = RankedProblems
    BY <1>10, FilesSay DEF EndRanking, AtLoop
  <2>2. /\ rankRun'.requested = rankRun.requested
        /\ rankRun'.status = IF rankRun.requested \subseteq RankedProblems
                             THEN "completed" ELSE "interrupted"
    BY <1>1, <1>10 DEF EndRanking
  <2>3. QED BY <1>1, <2>1, <2>2 DEF ManifestFollows, Abandoned
<1>11. CASE \/ StartPairing \/ BeginPairing \/ ResumePairing \/ BuildProblem \/ RefuseProblem
            \/ Finalize \/ WriteSplit \/ WritePreferences \/ WriteSplitFile \/ EndPairing
  <2>1. rankRun' = rankRun
    BY <1>11 DEF StartPairing, BeginPairing, ResumePairing, RunPairing, BuildProblem, RefuseProblem,
                 Finalize, WriteSplit, WritePreferences, WriteSplitFile, EndPairing
  <2>2. proc.at # "assessed" /\ proc.cmd # "rank"
    BY <1>1, <1>11 DEF StartPairing, BeginPairing, ResumePairing, RunPairing, BuildProblem, RefuseProblem,
                       Finalize, WriteSplit, WritePreferences, WriteSplitFile, EndPairing,
                       AtLoop, SplitNames, ManifestFollows
  <2>3. proc'.cmd = "pair" \/ (proc'.cmd = "none" /\ proc'.at = "idle")
    <3>1. CASE StartPairing \/ BeginPairing \/ ResumePairing
      BY <3>1 DEF StartPairing, BeginPairing, ResumePairing, RunPairing, Idle
    <3>2. CASE BuildProblem \/ Finalize
      BY <1>1, <3>2 DEF BuildProblem, Finalize, AtLoop, ProcTyped
    <3>3. CASE RefuseProblem \/ EndPairing
      BY <1>1, <3>3 DEF RefuseProblem, EndPairing
    <3>4. CASE WriteSplit \/ WritePreferences \/ WriteSplitFile
      <4>1. proc.at \notin {"idle"}
        BY <3>4 DEF WriteSplit, WritePreferences, WriteSplitFile, SplitNames
      <4>2. proc.cmd = "pair"
        BY <1>1, <2>2, <4>1 DEF ManifestFollows, ProcTyped
      <4>3. \E at : proc' = [proc EXCEPT !.at = at]
        BY <3>4 DEF WriteSplit, WritePreferences, WriteSplitFile
      <4>4. QED BY <1>1, <4>2, <4>3 DEF ProcTyped
    <3>5. QED BY <1>11, <3>1, <3>2, <3>3, <3>4
  <2>4. QED BY <1>2, <2>1, <2>2, <2>3 DEF ManifestFollows, Abandoned
<1>12. CASE Interrupt \/ Die
  <2>1. proc.at = "assessed" => <<"rank", proc.problem>> \in torn'
    BY <1>3, <1>12 DEF Interrupt, Die, CutShort
  <2>2. \/ /\ rankRun' = rankRun /\ proc' = Idle
        \/ /\ rankRun' = [rankRun EXCEPT !.status = "interrupted"] /\ proc.cmd = "rank" /\ proc' = Idle
        \/ /\ rankRun' = rankRun /\ proc.cmd = "pair"
           /\ proc' = [proc EXCEPT !.at = "split", !.lines = {}, !.todo = {}, !.signalled = TRUE]
    BY <1>12 DEF Interrupt, Die
  <2>3. /\ (Abandoned => Abandoned')
        /\ ManifestFollows'
    <3>1. CASE rankRun' = rankRun /\ proc' = Idle
      BY <1>1, <1>2, <3>1 DEF ManifestFollows, Abandoned
    <3>2. CASE rankRun' = [rankRun EXCEPT !.status = "interrupted"] /\ proc.cmd = "rank" /\ proc' = Idle
      BY <1>1, <3>2 DEF ManifestFollows, Abandoned
    <3>3. CASE /\ rankRun' = rankRun /\ proc.cmd = "pair"
               /\ proc' = [proc EXCEPT !.at = "split", !.lines = {}, !.todo = {}, !.signalled = TRUE]
      <4>1. proc'.cmd = "pair"
        BY <1>1, <3>3 DEF ProcTyped
      <4>2. QED BY <1>2, <3>3, <4>1 DEF ManifestFollows, Abandoned
    <3>4. QED BY <2>2, <3>1, <3>2, <3>3
  <2>4. QED BY <2>1, <2>3
<1>13. QED
  BY <1>5, <1>6, <1>7, <1>8, <1>9, <1>10, <1>11, <1>12 DEF Next, Work

LEMMA LinesOfRanking ==
  ASSUME NEW p
  PROVE  /\ {l \in RankingLines(p) \cup ComparisonLines(p) : l.file = "rankings"} = RankingLines(p)
         /\ {l.candidate : l \in RankingLines(p)} = Of(p)
<1> DEFINE R(c) == [file |-> "rankings", candidate |-> c, rank |-> RankOf(given.evidence, Of(p), c),
                    group |-> TieGroup(given.evidence, Of(p), c)]
<1>1. RankingLines(p) = {R(c) : c \in Of(p)}
  BY DEF RankingLines
<1>2. \A c : R(c).file = "rankings" /\ R(c).candidate = c
  OBVIOUS
<1>3. \A l \in ComparisonLines(p) : l.file = "comparisons"
  BY DEF ComparisonLines
<1> HIDE DEF R
<1>4. QED BY <1>1, <1>2, <1>3

\* What is ranked, after each shape of a step.
LEMMA RankLinesStep ==
  ASSUME IInv, AtWork, [Next]_vars
  PROVE  \/ RankLines' = RankLines
         \/ Stops /\ RankLines' = Lines("rankings")
         \/ \E p \in Problems : /\ Compares(p) /\ RankLines = Lines("rankings")
                                /\ RankLines' = RankLines \cup RankingLines(p)
<1>1. ASSUME files' = files, proc'.lines = {} PROVE RankLines' = Lines("rankings")
  BY <1>1, FilesSay DEF RankLines
<1>2. CASE UNCHANGED <<files, proc, torn>>
  BY <1>2, FilesSay DEF RankLines
<1>3. ASSUME NEW l \in proc.lines, Appends(l) PROVE RankLines' = RankLines
  <2>1. /\ proc'.lines = proc.lines \ {l}
        /\ \A f : f # l.file => Lines(f)' = Lines(f)
        /\ Lines(l.file)' = Lines(l.file) \cup {l}
    BY <1>3, AppendFacts
  <2>2. CASE l.file = "rankings"
    <3>1. Lines("rankings")' = Lines("rankings") \cup {l}
      BY <2>1, <2>2
    <3>2. QED BY <2>1, <2>2, <3>1 DEF RankLines
  <2>3. CASE l.file # "rankings"
    <3>1. Lines("rankings")' = Lines("rankings")
      BY <2>1, <2>3
    <3>2. QED BY <2>1, <2>3, <3>1 DEF RankLines
  <2>4. QED BY <2>2, <2>3
<1>4. Stops => RankLines' = Lines("rankings")
  BY <1>1 DEF Stops
<1>5. Enters => RankLines' = RankLines
  <2>1. proc.lines = {} => RankLines = Lines("rankings")
    BY DEF RankLines
  <2>2. QED BY <1>1, <2>1 DEF Enters
<1>6. ASSUME NEW p \in Problems, Scores(p) \/ Compares(p) \/ Builds(p)
      PROVE  /\ RankLines = Lines("rankings")
             /\ RankLines' = Lines("rankings") \cup {l \in proc'.lines : l.file = "rankings"}
  <2>1. files' = files /\ proc.lines = {}
    BY <1>6, NewLinesOfStep
  <2>2. QED BY <2>1, FilesSay DEF RankLines
<1>7. ASSUME NEW p \in Problems, Scores(p) \/ Builds(p) PROVE RankLines' = RankLines
  <2>1. \A l \in proc'.lines : l.file # "rankings"
    BY <1>7, NewLinesOfStep
  <2>2. QED BY <1>6, <1>7, <2>1
<1>8. ASSUME NEW p \in Problems, Compares(p) PROVE RankLines' = RankLines \cup RankingLines(p)
  <2>1. proc'.lines = RankingLines(p) \cup ComparisonLines(p)
    BY <1>8 DEF Compares, Writes
  <2>2. QED BY <1>6, <1>8, <2>1, LinesOfRanking
<1>9. QED BY <1>2, <1>3, <1>4, <1>5, <1>6, <1>7, <1>8, Shapes

\* A ranking command that stops leaves nothing unsaved of another problem.
LEMMA StopsAtRank ==
  ASSUME IInv, AtWork, ManifestFollows, Stops, NEW l \in RankLines, l \notin Lines("rankings")
  PROVE  <<"rank", Topic(l)>> \in torn'
<1>1. l \in proc.lines /\ l.file = "rankings"
  BY DEF RankLines
<1>2. proc.cmd # "pair" /\ proc.cmd # "none" /\ Topic(l) = proc.problem
  BY <1>1 DEF AtWork, Open, ManifestFollows
<1>3. proc.cmd = "rank"
  BY <1>2 DEF IInv, ProcTyped
<1>4. QED BY <1>1, <1>2, <1>3 DEF Stops

LEMMA RankedAssessedStep ==
  ASSUME IInv, AtWork, ManifestFollows, RankedIsAssessed, [Next]_vars
  PROVE  RankedIsAssessed'
<1>1. given' = given /\ \A p : Of(p)' = Of(p)
  BY Shapes, GivenStays
<1>2. Assessed \subseteq Assessed' /\ torn \subseteq torn'
  BY FilesGrow, TornGrows
<1>3. proc'.at = "assessed" => Of(proc'.problem) \subseteq Scored'
  <2>1. CASE UNCHANGED <<files, proc, torn>>
    BY <2>1, FilesSay DEF RankedIsAssessed, Scored
  <2>2. ASSUME NEW l \in proc.lines, Appends(l), proc'.at = "assessed"
        PROVE  Of(proc'.problem) \subseteq Scored'
    <3>1. /\ proc'.at = proc.at /\ proc'.problem = proc.problem /\ proc'.lines = proc.lines \ {l}
      BY <2>2, AppendFacts
    <3>2. Assessed' = Assessed \cup (IF l.file = "assessments" THEN {l.candidate} ELSE {})
      BY <2>2, AppendedTopic
    <3>3. Scored' = Scored
      BY <3>1, <3>2 DEF Scored
    <3>4. QED BY <2>2, <3>1, <3>3 DEF RankedIsAssessed
  <2>3. Stops \/ Enters => proc'.at # "assessed"
    BY DEF Stops, Enters
  <2>4. \A p \in Problems : Compares(p) \/ Builds(p) => proc'.at # "assessed"
    BY DEF Compares, Builds, Writes
  <2>5. ASSUME NEW p \in Problems, Scores(p) PROVE Of(proc'.problem) \subseteq Scored'
    <3>1. proc'.problem = p /\ proc'.lines = AssessmentLines(p)
      BY <2>5 DEF Scores, Writes
    <3>2. \A c \in Of(p) : \E l \in AssessmentLines(p) : l.file = "assessments" /\ l.candidate = c
      BY LinesOfAssessment
    <3>3. QED BY <3>1, <3>2 DEF Scored
  <2>6. QED BY <2>1, <2>2, <2>3, <2>4, <2>5, Shapes
<1>4. \A l \in RankLines' : l.candidate \in Assessed'
  <2>1. \A l \in Lines("rankings") : l \in RankLines
    BY DEF RankLines
  <2>2. ASSUME NEW p \in Problems, Compares(p), NEW l \in RankingLines(p) PROVE l.candidate \in Assessed
    <3>1. proc.at = "assessed" /\ proc.problem = p /\ proc.lines = {}
      BY <2>2 DEF Compares, Writes
    <3>2. Of(p) \subseteq Assessed
      BY <3>1 DEF RankedIsAssessed, Scored
    <3>3. QED BY <3>2, LinesOfRanking
  <2>3. QED BY <1>2, <2>1, <2>2, RankLinesStep DEF RankedIsAssessed
<1>5. ASSUME NEW p, <<"rank", p>> \notin torn', NEW l \in RankLines', Topic(l) = p
      PROVE  Of(p) \subseteq {m.candidate : m \in RankLines'}
  <2>0. <<"rank", p>> \notin torn
    BY <1>2, <1>5
  <2>1. CASE RankLines' = RankLines
    BY <1>5, <2>0, <2>1 DEF RankedIsAssessed
  <2>2. CASE Stops /\ RankLines' = Lines("rankings")
    <3>1. l \in RankLines
      BY <1>5, <2>2 DEF RankLines
    <3>2. Of(p) \subseteq {m.candidate : m \in RankLines}
      BY <1>5, <2>0, <3>1 DEF RankedIsAssessed
    <3>3. ASSUME NEW m \in RankLines, m.candidate \in Of(p) PROVE m \in Lines("rankings")
      <4>1. m.file = "rankings"
        BY LinesOfFiles DEF RankLines, FileNames
      <4>2. Topic(m) = p
        BY <3>3, <4>1 DEF Topic, Of
      <4>3. QED BY <1>5, <2>2, <4>2, StopsAtRank
    <3>4. QED BY <2>2, <3>2, <3>3
  <2>3. ASSUME NEW q \in Problems, Compares(q), RankLines' = RankLines \cup RankingLines(q)
        PROVE  Of(p) \subseteq {m.candidate : m \in RankLines'}
    <3>1. \A m \in RankingLines(q) : Topic(m) = q
      BY NewTopics DEF IInv, ManifestsTyped
    <3>2. CASE l \in RankLines
      BY <1>5, <2>0, <2>3, <3>2 DEF RankedIsAssessed
    <3>3. CASE l \in RankingLines(q)
      BY <1>5, <2>3, <3>1, <3>3, LinesOfRanking
    <3>4. QED BY <2>3, <3>2, <3>3
  <2>4. QED BY <2>1, <2>2, <2>3, RankLinesStep
<1>6. QED BY <1>1, <1>3, <1>4, <1>5 DEF RankedIsAssessed, Topic

LEMMA SettledStep ==
  ASSUME IInv, AtWork, ManifestFollows, [Next]_vars, NEW p, Settled(p)
  PROVE  Settled(p)'
<1>1. torn \subseteq torn' /\ (Abandoned => Abandoned')
  BY TornGrows, ManifestStep
<1>2. CASE <<"rank", p>> \in torn \/ Abandoned
  BY <1>1, <1>2 DEF Settled
<1>3. ASSUME NEW l \in RankLines, Topic(l) = p PROVE Settled(p)'
  <2>1. CASE l \in RankLines'
    BY <1>3, <2>1 DEF Settled, Topic
  <2>2. CASE Stops /\ l \notin Lines("rankings")
    BY <1>3, <2>2, StopsAtRank DEF Settled
  <2>3. QED BY <1>3, <2>1, <2>2, RankLinesStep
<1>4. CASE proc.at = "assessed" /\ proc.problem = p
  <2>1. CASE Compares(p)
    <3>1. /\ p \in Problems /\ proc'.lines = RankingLines(p) \cup ComparisonLines(p)
      BY <2>1 DEF Compares, Writes
    <3>2. PICK c \in Of(p) : TRUE
      BY <3>1 DEF Problems, Of
    <3>3. PICK l \in RankingLines(p) : l.candidate = c
      BY <3>2, LinesOfRanking
    <3>4. l.file = "rankings" /\ l \in proc'.lines
      BY <3>1, <3>3, LinesOfRanking
    <3>5. l \in RankLines'
      BY <3>4 DEF RankLines
    <3>6. Topic(l) = p
      BY <3>2, <3>3, <3>4 DEF Topic, Of
    <3>7. QED BY <3>5, <3>6 DEF Settled, Topic
  <2>2. CASE ~Compares(p)
    BY <1>4, <2>2, ManifestStep DEF Settled
  <2>3. QED BY <2>1, <2>2
<1>5. QED BY <1>2, <1>3, <1>4 DEF Settled

\* Two assessments of one candidate are one line.
LEMMA OneAssessment ==
  ASSUME IInv, NEW l \in proc.lines, NEW m \in proc.lines,
         l.file = "assessments", m.file = "assessments", l.candidate = m.candidate
  PROVE  l = m
<1>1. l \in Rows("assessments") /\ m \in Rows("assessments")
  BY DEF IInv, LinesGood, Good
<1>2. QED BY <1>1 DEF Rows

LEMMA AssessedOnceStep ==
  ASSUME IInv, AtWork, TodoIsNew, ManifestFollows, AssessedOnce, [Next]_vars
  PROVE  AssessedOnce'
<1>1. torn \subseteq torn'
  BY TornGrows
<1>2. \A p \in AssessedProblems : Settled(p)'
  BY SettledStep DEF AssessedOnce
<1>3. ASSUME files' = files, \A l \in proc'.lines : l.file # "assessments"
      PROVE  AssessedOnce'
  <2>1. \A p \in AssessedProblems' : Settled(p)'
    BY <1>2, <1>3, FilesSay
  <2>2. \A i, j \in DOMAIN files'.assessments :
          files'.assessments[i].candidate = files'.assessments[j].candidate =>
            i = j \/ <<"rank", files'.assessments[i].candidate[1]>> \in torn'
    BY <1>1, <1>3 DEF AssessedOnce
  <2>3. QED BY <1>3, <2>1, <2>2 DEF AssessedOnce
<1>4. CASE UNCHANGED <<files, proc, torn>>
  <2>1. \A p \in AssessedProblems' : Settled(p)'
    BY <1>2, <1>4, FilesSay
  <2>2. Assessed' = Assessed
    BY <1>4, FilesSay
  <2>3. QED BY <1>4, <2>1, <2>2 DEF AssessedOnce, Topic
<1>5. ASSUME NEW l \in proc.lines, Appends(l), l.file = "assessments" PROVE AssessedOnce'
  <2> DEFINE n == Len(files[l.file]) + 1
  <2>1. /\ DOMAIN files'[l.file] = DOMAIN files[l.file] \cup {n} /\ n \notin DOMAIN files[l.file]
        /\ files'[l.file][n] = l
        /\ \A i \in DOMAIN files[l.file] : files'[l.file][i] = files[l.file][i]
        /\ proc'.lines = proc.lines \ {l} /\ proc'.at = proc.at /\ proc'.problem = proc.problem
        /\ torn' = torn
    BY <1>5, AppendFacts DEF Appends
  <2> HIDE DEF n
  <2>2. /\ AssessedProblems' = AssessedProblems \cup {Topic(l)}
        /\ Assessed' = Assessed \cup {l.candidate}
        /\ Topic(l) = l.candidate[1]
    BY <1>5, AppendedTopic DEF Topic
  <2>3. \A p \in AssessedProblems' : Settled(p)'
    <3>1. proc.at = "assessed" /\ proc.problem = Topic(l)
      BY <1>5 DEF AtWork, Open
    <3>2. \A q : q = Topic(l) => Settled(q)'
      BY <2>1, <3>1 DEF Settled
    <3>3. QED BY <1>2, <2>2, <3>2
  <2>4. \A j \in DOMAIN files.assessments : files.assessments[j].candidate \in Assessed
    BY DEF Assessed, Lines
  <2>5. ASSUME NEW i \in DOMAIN files'.assessments, NEW j \in DOMAIN files'.assessments,
               files'.assessments[i].candidate = files'.assessments[j].candidate, i # j
        PROVE  <<"rank", files'.assessments[i].candidate[1]>> \in torn'
    <3>1. \A k \in DOMAIN files'.assessments :
             \/ k \in DOMAIN files.assessments /\ files'.assessments[k] = files.assessments[k]
             \/ k = n /\ files'.assessments[k] = l
      BY <1>5, <2>1
    <3>2. l.candidate \in Assessed => <<"rank", l.candidate[1]>> \in torn
      BY <1>5, <2>2 DEF AssessedOnce
    <3>3. CASE i \in DOMAIN files.assessments /\ j \in DOMAIN files.assessments
      BY <2>1, <2>5, <3>1, <3>3, <1>5 DEF AssessedOnce
    <3>4. CASE i = n
      <4>1. j \in DOMAIN files.assessments /\ files'.assessments[j] = files.assessments[j]
        BY <2>5, <3>1, <3>4
      <4>2. files'.assessments[i] = l
        BY <1>5, <2>1, <3>4
      <4>3. QED BY <2>1, <2>4, <2>5, <3>2, <4>1, <4>2
    <3>5. CASE j = n
      <4>1. i \in DOMAIN files.assessments /\ files'.assessments[i] = files.assessments[i]
        BY <2>5, <3>1, <3>5
      <4>2. files'.assessments[j] = l
        BY <1>5, <2>1, <3>5
      <4>3. QED BY <2>1, <2>4, <2>5, <3>2, <4>1, <4>2
    <3>6. QED BY <3>1, <3>3, <3>4, <3>5
  <2>6. ASSUME NEW m \in proc'.lines, m.file = "assessments", m.candidate \in Assessed'
        PROVE  <<"rank", m.candidate[1]>> \in torn'
    <3>1. m \in proc.lines /\ m # l /\ Topic(m) = m.candidate[1]
      BY <2>1, <2>6 DEF Topic
    <3>2. m.candidate # l.candidate
      BY <1>5, <2>6, <3>1, OneAssessment
    <3>3. QED BY <2>1, <2>2, <2>6, <3>1, <3>2 DEF AssessedOnce
  <2>7. \A m \in proc'.lines : m.file = "assessments" => Topic(m) = m.candidate[1]
    BY DEF Topic
  <2>8. QED BY <2>3, <2>5, <2>6, <2>7 DEF AssessedOnce, Topic
<1>6. ASSUME NEW l \in proc.lines, Appends(l), l.file # "assessments" PROVE AssessedOnce'
  <2>0. AssessedProblems' = AssessedProblems /\ Assessed' = Assessed
    BY <1>6, AppendedTopic
  <2>1. /\ files'.assessments = files.assessments /\ proc'.lines = proc.lines \ {l} /\ torn' = torn
        /\ AssessedProblems' = AssessedProblems /\ Assessed' = Assessed
    BY <1>6, <2>0, AppendFacts DEF Appends
  <2>2. \A p \in AssessedProblems' : Settled(p)'
    BY <1>2, <2>1
  <2>3. QED BY <2>1, <2>2 DEF AssessedOnce, Topic
<1>7. CASE Stops \/ Enters
  BY <1>3, <1>7 DEF Stops, Enters
<1>8. ASSUME NEW p \in Problems, Compares(p) \/ Builds(p) PROVE AssessedOnce'
  <2>1. files' = files /\ \A l \in proc'.lines : l.file # "assessments"
    BY <1>8, NewLinesOfStep
  <2>2. QED BY <1>3, <2>1
<1>9. ASSUME NEW p \in Problems, Scores(p) PROVE AssessedOnce'
  <2>1. /\ files' = files /\ torn' = torn /\ proc.lines = {}
        /\ \A l \in proc'.lines : l.file = "assessments" /\ Topic(l) = p
    BY <1>9, NewLinesOfStep
  <2>2. AssessedProblems' = AssessedProblems /\ Assessed' = Assessed
    BY <2>1, FilesSay
  <2>3. \A q \in AssessedProblems' : Settled(q)'
    BY <1>2, <2>2
  <2>4. ASSUME NEW l \in proc'.lines, l.candidate \in Assessed PROVE <<"rank", p>> \in torn
    <3>1. l.candidate[1] = p
      BY <2>1 DEF Topic
    <3>2. p \in AssessedProblems
      BY <2>4, <3>1 DEF AssessedProblems
    <3>3. Settled(p)
      BY <3>2 DEF AssessedOnce
    <3>4. /\ proc.cmd = "rank" /\ proc.at = "loop" /\ p \in proc.todo
      BY <1>9 DEF Scores
    <3>5. p \notin RankedProblems
      BY <3>4 DEF TodoIsNew
    <3>6. \A m \in RankLines : Topic(m) # p
      <4>1. RankLines = Lines("rankings")
        BY <2>1 DEF RankLines
      <4>2. QED BY <3>5, <4>1, ProblemsOfFiles
    <3>7. QED BY <3>3, <3>4, <3>6 DEF Settled, Abandoned
  <2>5. QED BY <2>1, <2>2, <2>3, <2>4 DEF AssessedOnce, Topic
<1>10. QED BY <1>4, <1>5, <1>6, <1>7, <1>8, <1>9, Shapes

\* build_problem pairs the candidates it was given, and keeps one record of each text.
LEMMA RecordsOfLines ==
  ASSUME given \in Scenarios, NEW S \in SUBSET Candidates, NEW policy, NEW cap,
         NEW l \in LinesOf(S, policy, cap), l.file = "metadata"
  PROVE  /\ l.chosen \in S /\ l.rejected \in S
         /\ \A m \in LinesOf(S, policy, cap) :
              m.file = "metadata" /\ ~l.duplicate /\ ~m.duplicate /\ Text(m) = Text(l) =>
                m.chosen = l.chosen /\ m.rejected = l.rejected
<1> DEFINE K == Kept(given.evidence, Decided(given.evidence, given.source, S, policy), cap)
           Pair(ab) == [file |-> "metadata", chosen |-> ChosenOf(given.evidence, ab),
                        rejected |-> RejectedOf(given.evidence, ab), policy |-> policy,
                        duplicate |-> Duplicate(given.evidence, given.source, K, ab)]
<1>1. /\ K \in SUBSET (Candidates \X Candidates)
      /\ {m \in LinesOf(S, policy, cap) : m.file = "metadata"} = {Pair(ab) : ab \in K}
  BY PairsOfLines
<1>2. \A ab \in K : ab[1] \in S /\ ab[2] \in S
  BY DEF Kept, Decided, Combinations
<1>3. \A ab : /\ Pair(ab).chosen = ChosenOf(given.evidence, ab)
              /\ Pair(ab).rejected = RejectedOf(given.evidence, ab)
              /\ Pair(ab).duplicate <=> Duplicate(given.evidence, given.source, K, ab)
  OBVIOUS
<1> HIDE DEF K, Pair
<1>4. PICK ab \in K : l = Pair(ab)
  BY <1>1
<1>5. l.chosen \in S /\ l.rejected \in S
  BY <1>2, <1>3, <1>4 DEF ChosenOf, RejectedOf
<1>6. ASSUME NEW m \in LinesOf(S, policy, cap), m.file = "metadata", ~l.duplicate, ~m.duplicate,
             Text(m) = Text(l)
      PROVE  m.chosen = l.chosen /\ m.rejected = l.rejected
  <2>1. PICK cd \in K : m = Pair(cd)
    BY <1>1, <1>6
  <2>2. /\ SameTraining(given.evidence, given.source, ab, ab)
        /\ SameTraining(given.evidence, given.source, ab, cd)
    BY <1>3, <1>4, <1>6, <2>1 DEF SameTraining, Text
  <2>3. PICK u \in K :
          \A v \in K : /\ SameTraining(given.evidence, given.source, ab, v)
                       /\ ~Duplicate(given.evidence, given.source, K, v)
            => /\ ChosenOf(given.evidence, v) = ChosenOf(given.evidence, u)
               /\ RejectedOf(given.evidence, v) = RejectedOf(given.evidence, u)
    BY <1>1, OneOfEachText
  <2>4. ~Duplicate(given.evidence, given.source, K, ab) /\ ~Duplicate(given.evidence, given.source, K, cd)
    BY <1>3, <1>4, <1>6, <2>1
  <2>5. QED BY <1>3, <1>4, <2>1, <2>2, <2>3, <2>4
<1>7. QED BY <1>5, <1>6

LEMMA PairsStep ==
  ASSUME IInv, AtWork, TodoIsNew, PairsAreNew, [Next]_vars
  PROVE  PairsAreNew'
<1>1. given' = given /\ Assessed \subseteq Assessed'
  BY Shapes, FilesGrow
<1>2. ASSUME \A l \in Written' : l.file = "metadata" =>
                /\ l.chosen \in Assessed /\ l.rejected \in Assessed
                /\ \A m \in Written' :
                     m.file = "metadata" /\ Topic(m) = Topic(l) /\ ~(l.duplicate \/ m.duplicate) /\ Text(m) = Text(l)
                       => m.chosen = l.chosen /\ m.rejected = l.rejected
      PROVE  PairsAreNew'
  BY <1>1, <1>2 DEF PairsAreNew, Topic, Text
<1>3. CASE Written' \subseteq Written
  BY <1>2, <1>3 DEF PairsAreNew
<1>4. Recorded \subseteq Written
  BY DEF Written
<1>5. ASSUME NEW p \in Problems, NEW policy \in Policies, NEW cap \in Nat,
             p \notin PairedProblems, Written = Recorded,
             Written' = Recorded \cup LinesOf(Of(p) \cap Assessed, policy, cap)
      PROVE  PairsAreNew'
  <2> DEFINE S == Of(p) \cap Assessed
             New == LinesOf(S, policy, cap)
  <2>1. given \in Scenarios /\ S \in SUBSET Of(p) /\ S \in SUBSET Candidates
    BY DEF IInv, ManifestsTyped, Of
  <2>2. \A l \in New : Topic(l) = p
    <3> HIDE DEF S
    <3>1. QED BY <2>1, NewTopics
  <2>3. \A l \in Recorded : Topic(l) # p
    BY <1>5, TopicOfSides
  <2>4. ASSUME NEW l \in New, l.file = "metadata"
        PROVE  /\ l.chosen \in S /\ l.rejected \in S
               /\ \A m \in New : m.file = "metadata" /\ ~l.duplicate /\ ~m.duplicate /\ Text(m) = Text(l) =>
                    m.chosen = l.chosen /\ m.rejected = l.rejected
    <3> HIDE DEF S
    <3>1. QED BY <2>1, <2>4, RecordsOfLines
  <2>5. Written' = Recorded \cup New /\ S \subseteq Assessed
    BY <1>5
  <2> HIDE DEF New, S
  <2>6. QED BY <1>2, <1>5, <2>2, <2>3, <2>4, <2>5 DEF PairsAreNew
<1>6. QED BY <1>3, <1>4, <1>5, WrittenStep

LEMMA InitJudged == Init => JudgedInv
<1> SUFFICES ASSUME Init PROVE JudgedInv
  OBVIOUS
<1>1. /\ proc.lines = {} /\ proc.at = "idle" /\ proc.cmd = "none" /\ rankRun.status = "none"
      /\ \A f \in FileNames : files[f] = <<>>
  BY DEF Init, Idle
<1>2. \A f \in FileNames : DOMAIN files[f] = {} /\ Lines(f) = {}
  BY <1>1 DEF Lines
<1>3. Written = {} /\ Assessed = {} /\ RankLines = {} /\ AssessedProblems = {}
  BY <1>1, <1>2 DEF Written, Recorded, Pending, RankLines, Assessed, AssessedProblems, FileNames
<1>4. DOMAIN files.assessments = {}
  BY <1>2 DEF FileNames
<1>5. ManifestFollows /\ RankedIsAssessed
  BY <1>1, <1>3 DEF ManifestFollows, RankedIsAssessed
<1>6. AssessedOnce
  BY <1>1, <1>3, <1>4 DEF AssessedOnce
<1>7. PairsAreNew
  BY <1>3 DEF PairsAreNew
<1>8. QED BY <1>5, <1>6, <1>7 DEF JudgedInv

LEMMA JudgedInvariance == Spec => []JudgedInv
<1>1. IInv /\ LogInv /\ JudgedInv /\ [Next]_vars => JudgedInv'
  BY ManifestStep, RankedAssessedStep, AssessedOnceStep, PairsStep DEF JudgedInv, LogInv
<1>2. QED BY <1>1, InitJudged, Invariance, LogInvariance, PTL DEF Spec

---------------------------------------------------------------------------
(* What `rankings validate` finds *)

RankingSchema ==
  /\ \A l \in Lines("rankings") : RankingResult(l)
  /\ \A l \in Lines("comparisons") : ComparisonResult(l)

LEMMA RankingChecks ==
  ValidateRankingRun = {} <=>
    /\ rankRun.status # "none" /\ RankingSchema /\ NoDuplicateAssessments /\ KnownProblems
    /\ AssessmentRankingPairing /\ Ranks /\ NoTiedPairHasAWinner /\ AgainstEvaluationRun
<1> DEFINE checks == [manifest |-> rankRun.status # "none",
                      schema |-> RankingSchema,
                      duplicate_assessment |-> NoDuplicateAssessments,
                      problem_id |-> KnownProblems,
                      missing_ranking |-> AssessmentRankingPairing,
                      rank_consistency |-> Ranks,
                      artificial_preference |-> NoTiedPairHasAWinner,
                      missing_assessment |-> AgainstEvaluationRun]
<1>1. ValidateRankingRun = {c \in DOMAIN checks : ~checks[c]}
  BY Zenon DEF ValidateRankingRun, RankingSchema
<1>2. DOMAIN checks = {"manifest", "schema", "duplicate_assessment", "problem_id", "missing_ranking",
                       "rank_consistency", "artificial_preference", "missing_assessment"}
  OBVIOUS
<1>3. /\ checks["manifest"] <=> rankRun.status # "none"
      /\ checks["schema"] <=> RankingSchema
      /\ checks["duplicate_assessment"] <=> NoDuplicateAssessments
      /\ checks["problem_id"] <=> KnownProblems
      /\ checks["missing_ranking"] <=> AssessmentRankingPairing
      /\ checks["rank_consistency"] <=> Ranks
      /\ checks["artificial_preference"] <=> NoTiedPairHasAWinner
      /\ checks["missing_assessment"] <=> AgainstEvaluationRun
  OBVIOUS
<1> HIDE DEF checks
<1>4. QED BY <1>1, <1>2, <1>3

\* The line of rankings.jsonl that candidate c gets.
RankLine(c) == [file |-> "rankings", candidate |-> c, rank |-> RankOf(given.evidence, Of(c[1]), c),
                group |-> TieGroup(given.evidence, Of(c[1]), c)]

LEMMA RankLineIsNew ==
  /\ \A c : RankLine(c).candidate = c
  /\ \A c : RankLine(c).rank = RankOf(given.evidence, Of(c[1]), c)
  /\ \A c : RankLine(c).group = TieGroup(given.evidence, Of(c[1]), c)
  /\ \A p : RankingLines(p) = {RankLine(c) : c \in Of(p)}
<1>1. \A p : \A c \in Of(p) : c[1] = p
  BY DEF Of
<1>2. ASSUME NEW p PROVE RankingLines(p) = {RankLine(c) : c \in Of(p)}
  BY <1>1 DEF RankingLines, RankLine
<1>3. QED BY <1>2 DEF RankLine

LEMMA RankLineIsWritten ==
  ASSUME IInv, NEW l \in Lines("rankings")
  PROVE  /\ l.candidate \in Candidates /\ l = RankLine(l.candidate)
         /\ Comparable(l.candidate[1])
<1>1. l \in Rows("rankings") /\ Says(l) /\ l.file = "rankings"
  BY LinesOfFiles DEF FileNames
<1>2. l \in [file : {"rankings"}, candidate : Candidates, rank : Nat, group : Nat]
  BY <1>1 DEF Rows
<1>3. /\ l.rank = RankOf(given.evidence, Of(l.candidate[1]), l.candidate)
      /\ l.group = TieGroup(given.evidence, Of(l.candidate[1]), l.candidate)
      /\ Comparable(l.candidate[1])
  BY <1>1 DEF Says
<1>4. QED BY <1>2, <1>3 DEF RankLine

\* A ranking that has every candidate has the right line of every candidate, and no other.
LEMMA RankingIsWhole ==
  ASSUME IInv, Candidates \subseteq {l.candidate : l \in Lines("rankings")}
  PROVE  /\ Lines("rankings") = {RankLine(c) : c \in Candidates}
         /\ Lines("rankings") = UNION {RankingLines(p) : p \in Problems}
         /\ \A p \in Problems : Comparable(p)
<1>1. \A l \in Lines("rankings") : /\ l.candidate \in Candidates /\ l = RankLine(l.candidate)
                                   /\ Comparable(l.candidate[1])
  BY RankLineIsWritten
<1>2. Lines("rankings") = {RankLine(c) : c \in Candidates}
  BY <1>1
<1>3. UNION {RankingLines(p) : p \in Problems} = {RankLine(c) : c \in Candidates}
  BY RankLineIsNew DEF Problems, Of
<1>4. \A p \in Problems : Comparable(p)
  BY <1>1 DEF Problems
<1>5. QED BY <1>2, <1>3, <1>4

\* Lines of rankings.jsonl are as many as their candidates.
LEMMA CountRankLines ==
  ASSUME NEW D, IsFiniteSet(D)
  PROVE  Cardinality({RankLine(c) : c \in D}) = Cardinality(D)
<1> DEFINE f == [c \in D |-> RankLine(c)]
           T == {RankLine(c) : c \in D}
<1>1. f \in [D -> T] /\ \A t \in T : \E c \in D : f[c] = t
  OBVIOUS
<1>2. \A c, d \in D : f[c] = f[d] => c = d
  BY RankLineIsNew
<1> HIDE DEF f, T
<1>3. f \in Bijection(D, T)
  <2>1. f \in Injection(D, T)
    BY <1>1, <1>2 DEF Injection, IsInjective
  <2>2. f \in Surjection(D, T)
    BY <1>1 DEF Surjection
  <2>3. QED BY <2>1, <2>2 DEF Bijection
<1>4. QED BY <1>3, FS_Bijection DEF ExistsBijection, T

\* Of two ranked candidates of a comparable problem, the smaller rank is the better score, and the
\* same tie group is the same rank.
LEMMA RanksSayScores ==
  ASSUME NEW ev, NEW S, Rankable(ev, S), NEW c \in Ranked(ev, S), NEW d \in Ranked(ev, S)
  PROVE  /\ d \in Above(ev, S, c) <=> RankOf(ev, S, d) < RankOf(ev, S, c)
         /\ TieGroup(ev, S, d) = TieGroup(ev, S, c) =>
              RankOf(ev, S, d) = RankOf(ev, S, c) /\ ~Outscores(ev[d], ev[c])
<1>1. /\ Counts(ev[c]) /\ Counts(ev[d]) /\ Assessable(ev[c]) /\ Assessable(ev[d])
      /\ ~Indeterminate(ev[c]) /\ ~Indeterminate(ev[d]) /\ ev[d].total = ev[c].total
      /\ IsFiniteSet(S)
  BY DEF Rankable, Ranked, SameTotals
<1>2. /\ RankOf(ev, S, c) \in Nat /\ TieGroup(ev, S, c) \in Nat
      /\ RankOf(ev, S, d) \in Nat /\ TieGroup(ev, S, d) \in Nat
  BY <1>1, RanksAreNumbers
<1>3. d \in Above(ev, S, c) <=> Outscores(ev[d], ev[c])
  BY <1>1, KeyIsScore DEF Above
<1>4. CASE Outscores(ev[d], ev[c])
  <2>1. RankOf(ev, S, d) < RankOf(ev, S, c) /\ TieGroup(ev, S, d) < TieGroup(ev, S, c)
    BY <1>4, BetterRanksFirst
  <2>2. QED BY <1>2, <1>3, <1>4, <2>1
<1>5. CASE ~Outscores(ev[d], ev[c]) /\ Outscores(ev[c], ev[d])
  <2>1. RankOf(ev, S, c) < RankOf(ev, S, d) /\ TieGroup(ev, S, c) < TieGroup(ev, S, d)
    BY <1>5, BetterRanksFirst
  <2>2. QED BY <1>2, <1>3, <1>5, <2>1
<1>6. CASE ~Outscores(ev[d], ev[c]) /\ ~Outscores(ev[c], ev[d])
  <2>1. RankOf(ev, S, c) = RankOf(ev, S, d)
    BY <1>6, TiesRankTogether
  <2>2. QED BY <1>2, <1>3, <1>6, <2>1
<1>7. QED BY <1>4, <1>5, <1>6

LEMMA RankIsNull ==
  ASSUME IInv, NEW c \in Candidates
  PROVE  /\ c \in Ranked(given.evidence, Of(c[1])) <=> ~Indeterminate(given.evidence[c])
         /\ ~Indeterminate(given.evidence[c]) => RankLine(c).rank >= 1 /\ RankLine(c).group >= 1
         /\ Indeterminate(given.evidence[c]) => RankLine(c).rank = 0 /\ RankLine(c).group = 0
<1> DEFINE ev == given.evidence
           S == Of(c[1])
<1>1. IsFiniteSet(S)
  BY GivenEvidence DEF IInv, ManifestsTyped
<1>2. c \in S
  BY DEF Of
<1> HIDE DEF ev, S
<1>3. c \in Ranked(ev, S) <=> ~Indeterminate(ev[c])
  BY <1>2 DEF Ranked
<1>4. Cardinality(Above(ev, S, c)) \in Nat /\ Cardinality(Keys(ev, S, c)) \in Nat
  BY <1>1, FiniteAbove, FiniteKeys
<1>5. RankLine(c).rank = RankOf(ev, S, c) /\ RankLine(c).group = TieGroup(ev, S, c)
  BY RankLineIsNew DEF ev, S
<1>6. ~Indeterminate(ev[c]) => RankOf(ev, S, c) >= 1 /\ TieGroup(ev, S, c) >= 1
  BY <1>3, <1>4, GroupCountsKeys DEF RankOf
<1>7. Indeterminate(ev[c]) => RankOf(ev, S, c) = 0 /\ TieGroup(ev, S, c) = 0
  BY <1>3, GroupCountsKeys DEF RankOf
<1>8. QED BY <1>3, <1>5, <1>6, <1>7 DEF ev, S

\* A ranking that has every candidate is one of competition ranks with whole tie groups.
LEMMA RanksAreRight ==
  ASSUME IInv, Candidates \subseteq {l.candidate : l \in Lines("rankings")}
  PROVE  Ranks
<1> SUFFICES ASSUME NEW l \in Lines("rankings"), l.rank # 0
             PROVE  LET ranked  == {r \in Lines("rankings") : r.rank # 0 /\ r.candidate[1] = l.candidate[1]}
                        members == {r \in ranked : r.group = l.group}
                    IN  /\ \A m \in members : m.rank = l.rank /\ ~Outscores(Ev(m.candidate), Ev(l.candidate))
                        /\ Cardinality(members) = TieGroupSize(l.candidate)
                        /\ l.rank = 1 + Cardinality({r \in ranked : r.rank < l.rank})
  BY DEF Ranks
<1> DEFINE ranked  == {r \in Lines("rankings") : r.rank # 0 /\ r.candidate[1] = l.candidate[1]}
           members == {r \in ranked : r.group = l.group}
           higher  == {r \in ranked : r.rank < l.rank}
           c == l.candidate
           ev == given.evidence
           S == Of(c[1])
<1>1. Lines("rankings") = {RankLine(d) : d \in Candidates} /\ \A p \in Problems : Comparable(p)
  BY RankingIsWhole
<1>2. c \in Candidates /\ l = RankLine(c) /\ c[1] \in Problems
  BY RankLineIsWritten DEF Problems
<1>3. given \in Scenarios /\ Rankable(ev, S)
  BY <1>1, <1>2, ComparableIsRankable DEF IInv, ManifestsTyped
<1>4. c \in Ranked(ev, S)
  BY <1>2, RankIsNull
<1>5. \A d \in S : /\ d \in Candidates /\ d[1] = c[1]
                   /\ RankLine(d).candidate = d
                   /\ RankLine(d).rank = RankOf(ev, S, d)
                   /\ RankLine(d).group = TieGroup(ev, S, d)
                   /\ RankLine(d).rank # 0 <=> d \in Ranked(ev, S)
  <2> SUFFICES ASSUME NEW d \in S
               PROVE  /\ d \in Candidates /\ d[1] = c[1]
                      /\ RankLine(d).candidate = d
                      /\ RankLine(d).rank = RankOf(ev, S, d)
                      /\ RankLine(d).group = TieGroup(ev, S, d)
                      /\ RankLine(d).rank # 0 <=> d \in Ranked(ev, S)
    OBVIOUS
  <2>1. d \in Candidates /\ d[1] = c[1]
    BY DEF Of
  <2>2. d \in Ranked(ev, S) <=> ~Indeterminate(ev[d])
    BY <2>1, RankIsNull
  <2>3. RankLine(d).rank # 0 <=> ~Indeterminate(ev[d])
    BY <2>1, RankIsNull
  <2>4. QED BY <2>1, <2>2, <2>3, RankLineIsNew
<1>6. \A d \in Candidates : d[1] = c[1] => d \in S
  BY DEF Of
<1>7. /\ Ranked(ev, S) \subseteq S
      /\ IsFiniteSet(Ranked(ev, S))
  <2>1. Ranked(ev, S) \subseteq S
    BY DEF Ranked
  <2>2. QED BY <1>3, <2>1, FS_Subset DEF Rankable
<1> HIDE DEF ev, S, c
<1>8. ranked = {RankLine(d) : d \in Ranked(ev, S)}
  <2>1. \A d \in Candidates : RankLine(d).candidate = d
    BY RankLineIsNew
  <2>2. \A r \in ranked : \E d \in Ranked(ev, S) : r = RankLine(d)
    BY <1>1, <1>5, <1>6, <2>1 DEF c
  <2>3. \A d \in Ranked(ev, S) : RankLine(d) \in ranked
    BY <1>1, <1>5, <1>7 DEF c
  <2> HIDE DEF ranked
  <2>4. QED BY <2>2, <2>3
<1>9. \A d \in Ranked(ev, S) :
        /\ d \in Above(ev, S, c) <=> RankOf(ev, S, d) < RankOf(ev, S, c)
        /\ TieGroup(ev, S, d) = TieGroup(ev, S, c) =>
             RankOf(ev, S, d) = RankOf(ev, S, c) /\ ~Outscores(ev[d], ev[c])
  BY <1>3, <1>4, RanksSayScores
<1>10. l.rank = RankOf(ev, S, c) /\ l.group = TieGroup(ev, S, c)
  BY <1>2, <1>4, <1>5, <1>7
<1> HIDE DEF ranked
<1>11. \A m \in members : m.rank = l.rank /\ ~Outscores(Ev(m.candidate), Ev(l.candidate))
  BY <1>5, <1>7, <1>8, <1>9, <1>10 DEF Ev, ev, c
<1>12. Cardinality(members) = TieGroupSize(l.candidate)
  <2> DEFINE D == {d \in Ranked(ev, S) : TieGroup(ev, S, d) = TieGroup(ev, S, c)}
  <2>1. members = {RankLine(d) : d \in D}
    BY <1>5, <1>7, <1>8, <1>10
  <2>2. IsFiniteSet(D)
    BY <1>7, FS_Subset
  <2>3. TieGroupSize(l.candidate) = Cardinality(D)
    BY DEF TieGroupSize, ev, S, c
  <2> HIDE DEF D, members
  <2>4. QED BY <2>1, <2>2, <2>3, CountRankLines
<1>13. l.rank = 1 + Cardinality(higher)
  <2>1. Above(ev, S, c) \subseteq Ranked(ev, S)
    BY DEF Above
  <2>2. higher = {RankLine(d) : d \in Above(ev, S, c)}
    BY <1>5, <1>7, <1>8, <1>9, <1>10, <2>1
  <2>3. IsFiniteSet(Above(ev, S, c))
    BY <1>7, <2>1, FS_Subset
  <2> HIDE DEF higher
  <2>4. Cardinality(higher) = Cardinality(Above(ev, S, c))
    BY <2>2, <2>3, CountRankLines
  <2>5. QED BY <1>4, <1>10, <2>4 DEF RankOf
<1>14. QED BY <1>11, <1>12, <1>13 DEF ranked

\* A ranking that the validator accepts is the right one.
LEMMA AcceptedIsRight ==
  ASSUME IInv, ValidateRankingRun = {}
  PROVE  Lines("rankings") = UNION {RankingLines(p) : p \in Problems}
<1>1. Candidates \subseteq {l.candidate : l \in Lines("rankings")}
  <2>1. Candidates \subseteq given.requested
    BY ScenariosAssumption DEF IInv, ManifestsTyped, Candidates
  <2>2. QED BY <2>1, RankingChecks DEF AssessmentRankingPairing, AgainstEvaluationRun
<1>2. QED BY <1>1, RankingIsWhole

\* A completed ranking of every problem that was not cut short has every candidate.
LEMMA CompletedHasAll ==
  ASSUME IInv, AtWork, JudgedInv, rankRun.status = "completed", Undamaged
  PROVE  /\ Candidates \subseteq {l.candidate : l \in Lines("rankings")}
         /\ Assessed = Candidates
<1>1. /\ proc.cmd # "rank" /\ Problems \subseteq RankedProblems
      /\ \A p \in Problems : <<"rank", p>> \notin torn
  BY DEF JudgedInv, ManifestFollows, Undamaged
<1>2. \A l \in proc.lines : l.file # "rankings"
  <2>1. proc.cmd \in {"none", "pair"}
    BY <1>1 DEF IInv, ProcTyped
  <2>2. CASE proc.cmd = "pair"
    BY <2>2 DEF AtWork, Open
  <2>3. CASE proc.cmd = "none"
    <3>1. proc.at = "idle"
      BY <2>3 DEF JudgedInv, ManifestFollows
    <3>2. proc.lines = {}
      BY <3>1 DEF AtWork
    <3>3. QED BY <3>2
  <2>4. QED BY <2>1, <2>2, <2>3
<1>3. RankLines = Lines("rankings")
  BY <1>2 DEF RankLines
<1>4. \A l \in Lines("rankings") : Topic(l) = l.candidate[1] /\ l.candidate \in Assessed
  <2>1. \A l \in Lines("rankings") : l.file = "rankings"
    BY LinesOfFiles DEF FileNames
  <2>2. \A l \in Lines("rankings") : l.candidate \in Assessed
    BY <1>3 DEF JudgedInv, RankedIsAssessed
  <2>3. QED BY <2>1, <2>2 DEF Topic
<1>5. ASSUME NEW c \in Candidates PROVE c \in {l.candidate : l \in Lines("rankings")}
  <2>1. c[1] \in Problems /\ c \in Of(c[1])
    BY DEF Problems, Of
  <2>2. PICK l \in Lines("rankings") : l.candidate[1] = c[1]
    BY <1>1, <2>1 DEF RankedProblems
  <2>3. Of(c[1]) \subseteq {m.candidate : m \in RankLines}
    BY <1>1, <1>3, <1>4, <2>1, <2>2 DEF JudgedInv, RankedIsAssessed
  <2>4. QED BY <1>3, <2>1, <2>3
<1>6. Assessed \subseteq Candidates
  BY LinesOfFiles DEF Assessed, Rows, FileNames
<1>7. Candidates \subseteq Assessed
  BY <1>4, <1>5
<1>8. QED BY <1>5, <1>6, <1>7

\* Its lines can be read back.
LEMMA SchemaHolds ==
  ASSUME IInv
  PROVE  RankingSchema
<1>1. ASSUME NEW l \in Lines("rankings") PROVE RankingResult(l)
  <2>1. l.candidate \in Candidates /\ l = RankLine(l.candidate)
    BY RankLineIsWritten
  <2>2. QED BY <2>1, RankIsNull DEF RankingResult, Ev
<1>2. ASSUME NEW l \in Lines("comparisons") PROVE ComparisonResult(l)
  <2>1. /\ l \in [file : {"comparisons"}, a : Candidates, b : Candidates, relation : Relations]
        /\ l.file = "comparisons" /\ Says(l)
    BY LinesOfFiles DEF Rows, FileNames
  <2>2. Before(l.a, l.b) /\ l.relation = Compare(Ev(l.a), Ev(l.b))
    BY <2>1 DEF Says, Ev
  <2>3. l.a # l.b
    BY <2>1, <2>2, CandidatesAreNumbers DEF Before, IInv, ManifestsTyped
  <2>4. l.relation = "INDETERMINATE" <=> Indeterminate(Ev(l.a)) \/ Indeterminate(Ev(l.b))
    BY <2>2 DEF Compare
  <2>5. QED BY <2>1, <2>3, <2>4 DEF ComparisonResult
<1>3. QED BY <1>1, <1>2 DEF RankingSchema

LEMMA TiedIsNotWon == IInv => NoTiedPairHasAWinner
<1> SUFFICES ASSUME IInv, NEW k \in Lines("comparisons"),
                    NEW l \in Lines("rankings"), NEW m \in Lines("rankings"),
                    l.candidate = k.a, m.candidate = k.b, l.group # 0, l.group = m.group
             PROVE  k.relation = "TIE"
  BY DEF NoTiedPairHasAWinner
<1>1. /\ k \in [file : {"comparisons"}, a : Candidates, b : Candidates, relation : Relations]
      /\ l \in [file : {"rankings"}, candidate : Candidates, rank : Nat, group : Nat]
      /\ m \in [file : {"rankings"}, candidate : Candidates, rank : Nat, group : Nat]
  BY LinesOfFiles DEF Rows, FileNames
<1>2. /\ k.relation = "A_BETTER" => l.group < m.group
      /\ k.relation = "B_BETTER" => m.group < l.group
      /\ k.relation \in Relations
      /\ k.relation = "INDETERMINATE" => 0 \in {l.rank, m.rank}
  BY <1>1, LinesAgreeOnRanks DEF RanksAgree
<1>3. RankingResult(l) /\ RankingResult(m)
  BY SchemaHolds DEF RankingSchema
<1>4. l.rank # 0 /\ m.rank # 0
  BY <1>1, <1>3 DEF RankingResult
<1>5. QED BY <1>1, <1>2, <1>4 DEF Relations

\* A completed ranking that was not cut short and has every problem is accepted.
LEMMA CompletedIsAccepted ==
  ASSUME IInv, AtWork, JudgedInv, rankRun.status = "completed", Undamaged
  PROVE  ValidateRankingRun = {}
<1>1. /\ Candidates \subseteq {l.candidate : l \in Lines("rankings")}
      /\ Assessed = Candidates
  BY CompletedHasAll
<1>2. {l.candidate : l \in Lines("rankings")} \subseteq Candidates
  BY RankLineIsWritten
<1>3. AssessmentRankingPairing
  BY <1>1, <1>2 DEF AssessmentRankingPairing
<1>4. NoDuplicateAssessments
  <2>1. \A p \in Problems : <<"rank", p>> \notin torn
    BY DEF Undamaged
  <2>2. \A i, j \in DOMAIN files.assessments :
          files.assessments[i].candidate = files.assessments[j].candidate =>
            i = j \/ <<"rank", files.assessments[i].candidate[1]>> \in torn
    BY DEF JudgedInv, AssessedOnce
  <2>3. QED BY <2>1, <2>2 DEF NoDuplicateAssessments, Repeated
<1>5. KnownProblems
  BY <1>1 DEF KnownProblems, AssessedProblems, Problems, Undamaged
<1>6. AgainstEvaluationRun
  <2>1. \A l \in Lines("assessments") : Assessable(given.evidence[l.candidate])
    BY LinesOfFiles DEF Says, FileNames
  <2>2. given.requested = Candidates
    BY DEF Undamaged
  <2>3. QED BY <1>1, <2>1, <2>2 DEF AgainstEvaluationRun, Ev, Assessed
<1>7. rankRun.status # "none"
  OBVIOUS
<1>8. QED BY <1>1, <1>3, <1>4, <1>5, <1>6, <1>7, RanksAreRight, SchemaHolds, TiedIsNotWon, RankingChecks

---------------------------------------------------------------------------
(* What `preferences validate` finds *)

\* The checks that do not read the ranking run.
SoundPreferences ==
  /\ prefRun.status # "none"
  /\ \A l \in Lines("metadata") : PreferencePair(l)
  /\ \A l \in Lines("rejections") : PreferenceRejection(l)
  /\ NoDuplicateMetadata /\ NoReversePairs /\ TrainingFile /\ CandidateProvenance
  /\ SplitManifestIsThere /\ SplitMembership /\ SplitReproducibility

LEMMA PreferenceChecks ==
  /\ SoundPreferences => ValidatePreferenceRun \subseteq {"ranking_run"}
  /\ "ranking_run" \in ValidatePreferenceRun <=> ~AgainstRankingRun(prefRun.policy)
<1> DEFINE checks == [manifest |-> prefRun.status # "none",
                      schema |-> /\ \A l \in Lines("metadata") : PreferencePair(l)
                                 /\ \A l \in Lines("rejections") : PreferenceRejection(l),
                      duplicate_metadata |-> NoDuplicateMetadata,
                      reverse_pair |-> NoReversePairs,
                      training_file |-> TrainingFile,
                      candidate_run |-> CandidateProvenance,
                      ranking_run |-> AgainstRankingRun(prefRun.policy),
                      split_manifest |-> SplitManifestIsThere,
                      split_membership |-> SplitManifestIsThere => SplitMembership,
                      split_reproducibility |-> SplitManifestIsThere => SplitReproducibility]
<1>1. ValidatePreferenceRun = {c \in DOMAIN checks : ~checks[c]}
  BY Zenon DEF ValidatePreferenceRun
<1>2. DOMAIN checks = {"manifest", "schema", "duplicate_metadata", "reverse_pair", "training_file",
                       "candidate_run", "ranking_run", "split_manifest", "split_membership",
                       "split_reproducibility"}
  OBVIOUS
<1>3. checks["ranking_run"] <=> AgainstRankingRun(prefRun.policy)
  OBVIOUS
<1>4. SoundPreferences => /\ checks["manifest"] /\ checks["schema"] /\ checks["duplicate_metadata"]
                          /\ checks["reverse_pair"] /\ checks["training_file"]
                          /\ checks["candidate_run"] /\ checks["split_manifest"]
                          /\ checks["split_membership"] /\ checks["split_reproducibility"]
  BY Zenon DEF SoundPreferences
<1> HIDE DEF checks
<1>5. QED BY <1>1, <1>2, <1>3, <1>4

\* What metadata.jsonl says of a pair.
LEMMA PairOnRecord ==
  ASSUME IInv, NEW l \in Lines("metadata")
  PROVE  /\ l \in [file : {"metadata"}, chosen : Candidates, rejected : Candidates,
                   policy : Policies, duplicate : BOOLEAN]
         /\ l.file = "metadata" /\ Topic(l) = l.chosen[1]
         /\ SoundPair(l) /\ l.chosen # l.rejected
         /\ ~Indeterminate(Ev(l.chosen)) /\ ~Indeterminate(Ev(l.rejected))
         /\ Outscores(Ev(l.chosen), Ev(l.rejected))
         /\ Compare(Ev(l.chosen), Ev(l.rejected)) = "A_BETTER"
<1>1. /\ l \in [file : {"metadata"}, chosen : Candidates, rejected : Candidates,
                policy : Policies, duplicate : BOOLEAN]
      /\ l.file = "metadata" /\ SoundPair(l)
  BY LinesOfFiles DEF Rows, FileNames, Says
<1>2. Compare(Ev(l.chosen), Ev(l.rejected)) = "A_BETTER"
  BY <1>1 DEF SoundPair, Ev
<1>3. /\ ~Indeterminate(Ev(l.chosen)) /\ ~Indeterminate(Ev(l.rejected))
      /\ Outscores(Ev(l.chosen), Ev(l.rejected))
  BY <1>2 DEF Compare
<1>4. l.chosen # l.rejected
  BY <1>1 DEF SoundPair
<1>5. QED BY <1>1, <1>2, <1>3, <1>4 DEF Topic

LEMMA PreferenceSchema ==
  ASSUME IInv
  PROVE  /\ \A l \in Lines("metadata") : PreferencePair(l)
         /\ \A l \in Lines("rejections") : PreferenceRejection(l)
         /\ CandidateProvenance
<1>1. ASSUME NEW l \in Lines("metadata") PROVE PreferencePair(l)
  BY PairOnRecord DEF PreferencePair, SoundPair
<1>2. ASSUME NEW l \in Lines("rejections") PROVE PreferenceRejection(l)
  <2>1. /\ l \in [file : {"rejections"}, a : Candidates, b : Candidates, reason : Reasons]
        /\ Before(l.a, l.b)
    BY LinesOfFiles DEF Rows, FileNames, Says
  <2>2. l.a # l.b
    BY <2>1, CandidatesAreNumbers DEF Before, IInv, ManifestsTyped
  <2>3. QED BY <2>1, <2>2 DEF PreferenceRejection
<1>3. CandidateProvenance
  BY PairOnRecord DEF CandidateProvenance, SoundPair
<1>4. QED BY <1>1, <1>2, <1>3

\* No pair is there twice, in either direction.
LEMMA NoPairTwice ==
  ASSUME IInv, KeysAreNew
  PROVE  NoDuplicateMetadata /\ NoReversePairs
<1>1. \A i, j \in DOMAIN files.metadata :
        Sides(files.metadata[i]) = Sides(files.metadata[j]) => i = j
  BY KeysRecordOnce DEF RecordedOnce
<1>2. ASSUME NEW l \in Lines("metadata"), NEW m \in Lines("metadata"),
             l.chosen = m.rejected, l.rejected = m.chosen
      PROVE  FALSE
  <2>1. /\ l.file = "metadata" /\ m.file = "metadata"
        /\ l.chosen \in Candidates /\ l.rejected \in Candidates /\ l.chosen # l.rejected
    BY PairOnRecord
  <2>2. Before(l.chosen, l.rejected) <=> ~Before(l.rejected, l.chosen)
    BY <2>1, CandidatesAreNumbers DEF Before, IInv, ManifestsTyped
  <2>3. Sides(l) = Sides(m)
    BY <1>2, <2>1, <2>2 DEF Sides
  <2>4. l = m
    BY <1>1, <2>3 DEF Lines
  <2>5. QED BY <1>2, <2>1, <2>4
<1>3. QED BY <1>1, <1>2 DEF NoDuplicateMetadata, NoReversePairs

\* The training records of a completed run are those of metadata.jsonl.
LEMMA TrainingFileIsSound ==
  ASSUME IInv, PairsAreNew, dataset.preferences = TrainingPairs
  PROVE  TrainingFile
<1>1. ASSUME NEW r \in TrainingPairs, NEW s \in TrainingPairs
      PROVE  /\ given.source[r[1]] # given.source[r[2]]
             /\ <<r[1][1], given.source[r[1]], given.source[r[2]]>>
                  = <<s[1][1], given.source[s[1]], given.source[s[2]]>> => r = s
  <2>1. PICK l \in Lines("metadata") : ~l.duplicate /\ r = <<l.chosen, l.rejected>>
    BY DEF TrainingPairs
  <2>2. PICK m \in Lines("metadata") : ~m.duplicate /\ s = <<m.chosen, m.rejected>>
    BY DEF TrainingPairs
  <2>3. /\ l.file = "metadata" /\ Topic(l) = l.chosen[1] /\ SoundPair(l)
        /\ m.file = "metadata" /\ Topic(m) = m.chosen[1]
    BY PairOnRecord
  <2>4. l \in Written /\ m \in Written
    BY DEF Written, Recorded
  <2>5. r[1] = l.chosen /\ r[2] = l.rejected /\ s[1] = m.chosen /\ s[2] = m.rejected
    BY <2>1, <2>2
  <2>6. given.source[r[1]] # given.source[r[2]]
    BY <2>3, <2>5 DEF SoundPair
  <2>7. ASSUME r[1][1] = s[1][1], given.source[r[1]] = given.source[s[1]],
               given.source[r[2]] = given.source[s[2]]
        PROVE  r = s
    <3>1. Topic(m) = Topic(l) /\ Text(m) = Text(l)
      BY <2>3, <2>5, <2>7 DEF Text
    <3>2. m.chosen = l.chosen /\ m.rejected = l.rejected
      BY <2>1, <2>2, <2>3, <2>4, <3>1 DEF PairsAreNew
    <3>3. QED BY <2>1, <2>2, <3>2
  <2>8. QED BY <2>6, <2>7
<1>2. QED BY <1>1 DEF TrainingFile

\* Once the dataset files are written, the split manifest is there and is the one that the
\* training records ask for.
LEMMA SplitIsAccepted ==
  ASSUME IInv, split = Split(Pool), dataset.preferences = TrainingPairs
  PROVE  SplitManifestIsThere /\ SplitMembership /\ SplitReproducibility
<1>1. TrainingProblems = Pool
  BY DEF TrainingProblems, Pool
<1>2. SplitMembership
  BY <1>1, PoolIsShuffled, SplitIsPartition DEF SplitMembership
<1>3. TrainingPairs \in SUBSET {ab \in Candidates \X Candidates : ab[1] # ab[2] /\ ab[1][1] = ab[2][1]}
  <2>1. ASSUME NEW ab \in TrainingPairs
        PROVE  ab \in Candidates \X Candidates /\ ab[1] # ab[2] /\ ab[1][1] = ab[2][1]
    <3>1. PICK l \in Lines("metadata") : ab = <<l.chosen, l.rejected>>
      BY DEF TrainingPairs
    <3>2. /\ l.chosen \in Candidates /\ l.rejected \in Candidates /\ l.chosen # l.rejected
          /\ l.chosen[1] = l.rejected[1]
      BY PairOnRecord DEF SoundPair
    <3>3. QED BY <3>1, <3>2
  <2>2. QED BY <2>1
<1>4. TrainingPairs # NoFile
  BY <1>3, NoFileAssumption DEF IInv, ManifestsTyped, Candidates
<1>5. QED BY <1>1, <1>2, <1>4 DEF SplitManifestIsThere, SplitReproducibility

\* What the ranking run says of the pairs, all but the policy holds of itself.
LEMMA OnlyThePolicy ==
  ASSUME IInv, PairsAreNew, NEW policy
  PROVE  AgainstRankingRun(policy) <=>
           \A l \in Lines("metadata") : Admits(policy, Ev(l.chosen), Ev(l.rejected))
<1>1. ASSUME NEW l \in Lines("metadata")
      PROVE  /\ {l.chosen, l.rejected} \subseteq Assessed
             /\ Compare(Ev(l.chosen), Ev(l.rejected)) = "A_BETTER"
  <2>1. l.file = "metadata" /\ l \in Written
    BY PairOnRecord DEF Written, Recorded
  <2>2. QED BY <2>1, PairOnRecord DEF PairsAreNew
<1>2. QED BY <1>1 DEF AgainstRankingRun

\* Whatever was interrupted, killed and resumed: `rankings validate` accepts nothing but the
\* right ranking and accepts every completed one that is whole, and `preferences validate` finds
\* nothing in a completed run but pairs that the policy of the manifest would not have admitted.
THEOREM ValidatorsAlwaysAgree == Spec => []ValidatorsAgree
<1>1. IInv /\ LogInv /\ SplitInv /\ JudgedInv => ValidatorsAgree
  <2> SUFFICES ASSUME IInv, LogInv, SplitInv, JudgedInv PROVE ValidatorsAgree
    OBVIOUS
  <2>1. AtWork /\ KeysAreNew /\ PairsAreNew
    BY DEF LogInv, JudgedInv
  <2>2. ValidateRankingRun = {} => Lines("rankings") = UNION {RankingLines(p) : p \in Problems}
    BY AcceptedIsRight
  <2>3. rankRun.status = "completed" /\ Undamaged => ValidateRankingRun = {}
    BY <2>1, CompletedIsAccepted
  <2>4. ASSUME prefRun.status = "completed"
        PROVE  /\ ValidatePreferenceRun \subseteq {"ranking_run"}
               /\ "ranking_run" \in ValidatePreferenceRun <=>
                    \E l \in Lines("metadata") : ~Admits(prefRun.policy, Ev(l.chosen), Ev(l.rejected))
    <3>1. split = Split(Pool) /\ dataset.preferences = TrainingPairs
      BY <2>4 DEF SplitInv, FilesUpTo, Behind
    <3>2. SoundPreferences
      BY <2>1, <2>4, <3>1, PreferenceSchema, NoPairTwice, TrainingFileIsSound, SplitIsAccepted
         DEF SoundPreferences
    <3>3. ValidatePreferenceRun \subseteq {"ranking_run"}
      BY <3>2, PreferenceChecks
    <3>4. "ranking_run" \in ValidatePreferenceRun <=> ~AgainstRankingRun(prefRun.policy)
      BY PreferenceChecks
    <3>5. AgainstRankingRun(prefRun.policy) <=>
            \A l \in Lines("metadata") : Admits(prefRun.policy, Ev(l.chosen), Ev(l.rejected))
      BY <2>1, OnlyThePolicy
    <3>6. QED BY <3>3, <3>4, <3>5
  <2>5. QED BY <2>2, <2>3, <2>4 DEF ValidatorsAgree
<1>2. QED BY <1>1, Invariance, LogInvariance, SplitInvariance, JudgedInvariance, PTL
=============================================================================

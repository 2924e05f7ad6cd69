------------------------- MODULE JudgingProperties -------------------------
(***************************************************************************)
(* What the files of a ranking run and of a preference run must say at     *)
(* every step of Judging, whatever was interrupted or resumed.             *)
(***************************************************************************)
EXTENDS Judging

Ats == {"idle", "start", "loop", "assessed", "split", "preferences", "end"} \cup SplitNames

\* The lines that file f may hold.
Rows(f) ==
  CASE f = "assessments" -> [file : {f}, candidate : Candidates]
    [] f = "rankings"    -> [file : {f}, candidate : Candidates, rank : Nat, group : Nat]
    [] f = "comparisons" -> [file : {f}, a : Candidates, b : Candidates, relation : Relations]
    [] f = "metadata"    -> [file : {f}, chosen : Candidates, rejected : Candidates,
                             policy : Policies, duplicate : BOOLEAN]
    [] f = "rejections"  -> [file : {f}, a : Candidates, b : Candidates, reason : Reasons]

\* The type of the manifests, the append-only files and the process.
RunsTyped ==
  /\ given \in Scenarios
  /\ files = [f \in FileNames |-> files[f]]
  /\ \A f \in FileNames : files[f] \in Seq(Rows(f))
  /\ rankRun \in [status : Statuses, requested : SUBSET Problems]
  /\ prefRun \in [status : Statuses, policy : Policies, cap : Nat]
  /\ proc \in [cmd : {"none", "rank", "pair"}, at : Ats, todo : SUBSET Problems,
               problem : Problems \cup {0}, lines : {proc.lines},
               policy : Policies, cap : Nat, signalled : BOOLEAN]
  /\ \A l \in proc.lines : l.file \in FileNames /\ l \in Rows(l.file)
  /\ faults \in Nat

Recorded == Lines("metadata") \cup Lines("rejections")
About(p) == {l \in Recorded : Sides(l)[1][1] = p}

\* Problem p was saved whole, as far as the ghost knows.
Whole(p) ==
  /\ {<<"rank", p>>, <<"pair", p>>} \cap torn = {}
  /\ ~(proc.cmd = "pair" /\ proc.problem = p /\ proc.lines # {})

---------------------------------------------------------------------------
(* Ranking *)

\* The ranks in rankings.jsonl, made from integer test counts and correctness,
\* say the same as the relations in comparisons.jsonl, made from scores: better
\* means a smaller rank, a tie one rank and one tie group, indeterminate no rank.
RanksAgree ==
  \A k \in Lines("comparisons") : \A l, m \in Lines("rankings") :
    (l.candidate = k.a /\ m.candidate = k.b) =>
      CASE k.relation = "A_BETTER" -> 0 < l.rank /\ l.rank < m.rank /\ l.group < m.group
        [] k.relation = "B_BETTER" -> 0 < m.rank /\ m.rank < l.rank /\ m.group < l.group
        [] k.relation = "TIE"      -> 0 < l.rank /\ l.rank = m.rank /\ l.group = m.group
        [] OTHER                   -> 0 \in {l.rank, m.rank}

---------------------------------------------------------------------------
(* Preferences *)

\* What makes l a preference: both sides are records of one known problem with
\* verified prompts and different code, the comparator finds the chosen side
\* better, and the policy of the invocation that wrote the line admits it.
SoundPair(l) ==
  LET e == given.evidence[l.chosen]
      f == given.evidence[l.rejected]
  IN /\ l.chosen[1] = l.rejected[1]
     /\ {given.source[l.chosen], given.source[l.rejected]} \cap {Gone, Stale} = {}
     /\ given.source[l.chosen] # given.source[l.rejected]
     /\ Compare(e, f) = "A_BETTER"
     /\ Admits(l.policy, e, f)

\* Every line of metadata.jsonl is a sound preference.
PairsAreSound == \A l \in Lines("metadata") : SoundPair(l)

\* However often the runs are interrupted and resumed, no candidate is ranked
\* twice (its assessment may well be there twice), and no two lines of
\* metadata.jsonl and rejections.jsonl are about the same two candidates: neither
\* a pair twice, nor both its directions, nor a pair that was also rejected.
RecordedOnce ==
  /\ \A i, j \in DOMAIN files.rankings :
       files.rankings[i].candidate = files.rankings[j].candidate => i = j
  /\ \A f, g \in {"metadata", "rejections"} :
       \A i \in DOMAIN files[f], j \in DOMAIN files[g] :
         Sides(files[f][i]) = Sides(files[g][j]) => (f = g /\ i = j)

Text(l) == <<given.source[l.chosen], given.source[l.rejected]>>

\* A problem that was settled and not cut short has every combination of its
\* candidates on record, as a pair or as a rejection with a reason, and every
\* pair is represented among the training records by exactly one that has its
\* text, however many pairs share it and whichever of them the cap removed.
NothingDropped ==
  \A p \in PairedProblems : Whole(p) =>
    /\ {Sides(l) : l \in About(p)} = Combinations(Of(p))
    /\ \A l \in Lines("metadata") : l.chosen[1] = p =>
         Cardinality({m \in Lines("metadata") :
                        m.chosen[1] = p /\ ~m.duplicate /\ Text(m) = Text(l)}) = 1

\* max_pairs_per_problem drops the narrow margins: no dropped pair is wider
\* than a pair that was kept.
CapKeepsTheWidest ==
  \A x \in Lines("rejections") : Truncated(x) =>
    \A l \in Lines("metadata") : l.chosen[1] = x.a[1] =>
      ~WiderMargin(given.evidence, Sides(x), Sides(l))

\* When a preference run is completed, its four dataset files hold exactly its
\* training records, each in the one split its problem belongs to, and there is
\* something to train on if there is anything at all.
CompletedIsSplit ==
  prefRun.status = "completed" =>
    /\ dataset.preferences = TrainingPairs
    /\ TrainingPairs = UNION {dataset[s] : s \in SplitNames}
    /\ \A s \in SplitNames : \A ab \in dataset[s] : ab[1][1] \in split[s]
    /\ \A s, t \in SplitNames : s # t => split[s] \cap split[t] = {}
    /\ TrainingPairs # {} => dataset.train # {}

---------------------------------------------------------------------------
(* Liveness *)

\* An operator who resumes whatever may be resumed.
ResumingSpec == LiveSpec /\ SF_vars(ResumeRanking) /\ SF_vars(ResumePairing)

\* Lone(p): p has one assessed candidate, so nothing a preference run could
\* write of it would settle it.
Lone(p) == Cardinality(Of(p) \cap Assessed) = 1

\* Resuming brings every run to rest: completed, or dead with status running,
\* or, for preferences, held up for ever by a problem with a single candidate.
ResumingSettles ==
  /\ <>[](rankRun.status \notin {"created", "interrupted"})
  /\ <>[](prefRun.status \in {"created", "interrupted"} => \E p \in AssessedProblems : Lone(p))

---------------------------------------------------------------------------
(* What the documentation says and the code does not do *)

\* What load_training_dataset accepts: it reads the files that are there,
\* without regard to the status of the run.
Loadable == \A s \in SplitNames : dataset[s] # NoFile

\* training/dataset.py: "training aborts if a problem appears in more than one
\* split".  No problem that train.jsonl holds is in the test split.
TestIsHeldOut == (Loadable /\ dataset.train # {}) => \A ab \in dataset.train : ab[1][1] \notin split.test
=============================================================================

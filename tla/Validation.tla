----------------------------- MODULE Validation -----------------------------
(***************************************************************************)
(* `rankings validate` and `preferences validate`: what they find in the   *)
(* directories that Judging leaves, at any moment, and how that relates to *)
(* what the commands report as completed.                                  *)
(*                                                                         *)
(* A check is TRUE when it raises no issue.  A line keeps of an assessment *)
(* or a pair only what it is about; its numbers are those of the evidence, *)
(* so that the checks which compute a number again compare the evidence    *)
(* with itself.  statistics.json is left out.                              *)
(***************************************************************************)
EXTENDS JudgingProperties

Ev(c) == given.evidence[c]

-----------------------------------------------------------------------------
(* The schema of a line that is read back. *)

RankingResult(l) ==
  IF Indeterminate(Ev(l.candidate)) THEN l.rank = 0 /\ l.group = 0 ELSE l.rank >= 1 /\ l.group >= 1

ComparisonResult(l) ==
  /\ l.a # l.b
  /\ l.relation \in Relations
  /\ l.relation = "INDETERMINATE" <=> Indeterminate(Ev(l.a)) \/ Indeterminate(Ev(l.b))

\* Only code of one problem whose outcome is known makes a pair, and its better side is chosen.
PreferencePair(l) ==
  /\ l.policy \in Policies
  /\ ~Indeterminate(Ev(l.chosen)) /\ ~Indeterminate(Ev(l.rejected))
  /\ l.chosen # l.rejected /\ l.chosen[1] = l.rejected[1]
  /\ given.source[l.chosen] # given.source[l.rejected]
  /\ Outscores(Ev(l.chosen), Ev(l.rejected))

PreferenceRejection(l) == l.a # l.b /\ l.reason \in Reasons

-----------------------------------------------------------------------------
(* rankings validate *)

NoDuplicateAssessments == \A p \in Problems : ~Repeated(p)

KnownProblems == AssessedProblems \subseteq given.known

\* Every assessment has a ranking, every ranking an assessment.
AssessmentRankingPairing == Assessed = {l.candidate : l \in Lines("rankings")}

\* How many candidates share c's bucket, as its ranking records it.
TieGroupSize(c) ==
  Cardinality({d \in Ranked(given.evidence, Of(c[1])) :
                 TieGroup(given.evidence, Of(c[1]), d) = TieGroup(given.evidence, Of(c[1]), c)})

\* Competition ranks: a tie group is complete and has one rank and one score, which follows
\* those of the groups above it.
Ranks ==
  \A l \in {r \in Lines("rankings") : r.rank # 0} :
    LET ranked  == {r \in Lines("rankings") : r.rank # 0 /\ r.candidate[1] = l.candidate[1]}
        members == {r \in ranked : r.group = l.group}
    IN  /\ \A m \in members :
             /\ m.rank = l.rank
             /\ ~Outscores(Ev(m.candidate), Ev(l.candidate))
        /\ Cardinality(members) = TieGroupSize(l.candidate)
        /\ l.rank = 1 + Cardinality({r \in ranked : r.rank < l.rank})

\* No two candidates that are tied are told apart by a comparison.
NoTiedPairHasAWinner ==
  \A k \in Lines("comparisons") : \A l, m \in Lines("rankings") :
    (l.candidate = k.a /\ m.candidate = k.b /\ l.group # 0 /\ l.group = m.group)
      => k.relation = "TIE"

\* What the evaluation run was asked for, which it may not have come to.
AgainstEvaluationRun ==
  /\ given.requested \subseteq Assessed
  /\ \A c \in Assessed : Assessable(Ev(c))

\* The issues of validate_ranking_run, by check.
ValidateRankingRun ==
  LET checks == [manifest |-> rankRun.status # "none",
                 schema |-> /\ \A l \in Lines("rankings") : RankingResult(l)
                            /\ \A l \in Lines("comparisons") : ComparisonResult(l),
                 duplicate_assessment |-> NoDuplicateAssessments,
                 problem_id |-> KnownProblems,
                 missing_ranking |-> AssessmentRankingPairing,
                 rank_consistency |-> Ranks,
                 artificial_preference |-> NoTiedPairHasAWinner,
                 missing_assessment |-> AgainstEvaluationRun]
  IN  {c \in DOMAIN checks : ~checks[c]}

-----------------------------------------------------------------------------
(* preferences validate *)

NoDuplicateMetadata ==
  \A i, j \in DOMAIN files.metadata :
    Sides(files.metadata[i]) = Sides(files.metadata[j])
      /\ files.metadata[i].chosen = files.metadata[j].chosen => i = j

NoReversePairs ==
  \A l, m \in Lines("metadata") : ~(l.chosen = m.rejected /\ l.rejected = m.chosen)

\* preferences.jsonl; a file that is not there has no records.
TrainingFile ==
  LET pairs   == IF dataset.preferences = NoFile THEN {} ELSE dataset.preferences
      text(r) == <<r[1][1], given.source[r[1]], given.source[r[2]]>>
  IN  \A r, s \in pairs : given.source[r[1]] # given.source[r[2]] /\ (text(r) = text(s) => r = s)

CandidateProvenance ==
  \A l \in Lines("metadata") : Gone \notin {given.source[l.chosen], given.source[l.rejected]}

\* Mutant: the pair is looked at under the policy it says it was made with.
AgainstRankingRunAsMade(policy) ==
  \A l \in Lines("metadata") :
    /\ {l.chosen, l.rejected} \subseteq Assessed
    /\ Compare(Ev(l.chosen), Ev(l.rejected)) = "A_BETTER"

\* Compared once more, and put to the policy of the manifest.
AgainstRankingRun(policy) ==
  \A l \in Lines("metadata") :
    /\ {l.chosen, l.rejected} \subseteq Assessed
    /\ Compare(Ev(l.chosen), Ev(l.rejected)) = "A_BETTER"
    /\ Admits(policy, Ev(l.chosen), Ev(l.rejected))

TrainingProblems == {ab[1][1] : ab \in TrainingPairs}

\* An empty split stands for no split manifest until the dataset files are written.
SplitManifestIsThere == dataset.preferences # NoFile \/ split # [s \in SplitNames |-> {}]

SplitMembership == UNION {split[s] : s \in SplitNames} \subseteq TrainingProblems

SplitReproducibility == split = Split(TrainingProblems)

ValidatePreferenceRun ==
  LET checks == [manifest |-> prefRun.status # "none",
                 schema |-> /\ \A l \in Lines("metadata") : PreferencePair(l)
                            /\ \A l \in Lines("rejections") : PreferenceRejection(l),
                 duplicate_metadata |-> NoDuplicateMetadata,
                 reverse_pair |-> NoReversePairs,
                 training_file |-> TrainingFile,
                 candidate_run |-> CandidateProvenance,
                 ranking_run |-> AgainstRankingRun(prefRun.policy),
                 split_manifest |-> SplitManifestIsThere,
                 split_membership |-> SplitManifestIsThere => SplitMembership,
                 split_reproducibility |-> SplitManifestIsThere => SplitReproducibility]
  IN  {c \in DOMAIN checks : ~checks[c]}

-----------------------------------------------------------------------------
(* Properties. *)

\* A ranking run over every problem of the dataset and of a whole evaluation run, none of them
\* cut short.
Undamaged ==
  /\ given.requested = Candidates
  /\ rankRun.requested = Problems /\ Problems \subseteq given.known
  /\ \A p \in Problems : <<"rank", p>> \notin torn

\* ranking/validation.py, preferences/validation.py: the validators and the commands agree.
\* A ranking that the validator accepts has every candidate on its right rank; a completed one
\* is accepted unless it was cut short, covers a part of the problems, a problem is gone, or the
\* evaluation run has not come to every candidate it was asked for.  A completed preference run
\* is accepted, even one that lost lines of a problem, as long as every invocation used the
\* policy and margin of the manifest; and what is accepted otherwise is admitted by them.
ValidatorsAgree ==
  /\ ValidateRankingRun = {} =>
       Lines("rankings") = UNION {RankingLines(p) : p \in Problems}
  /\ rankRun.status = "completed" /\ Undamaged => ValidateRankingRun = {}
  /\ prefRun.status = "completed" =>
       /\ ValidatePreferenceRun \subseteq {"ranking_run"}
       /\ "ranking_run" \in ValidatePreferenceRun <=>
            \E l \in Lines("metadata") :
              ~Admits(prefRun.policy, Ev(l.chosen), Ev(l.rejected))
=============================================================================

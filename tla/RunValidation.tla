--------------------------- MODULE RunValidation ---------------------------
(***************************************************************************)
(* `runs validate` without --repair: what it finds in the directory of a   *)
(* generation run, at any moment of Generation.  A check is TRUE when it   *)
(* raises no issue; a file that cannot be read as JSONL counts as empty    *)
(* for the checks that follow.  The problem dataset does not change.       *)
(***************************************************************************)
EXTENDS Generation

\* Candidate.__post_init__: one of the run's slots, linked to another candidate or to none.
Candidate(c) == c.slot \in Slots /\ c.duplicate_of # c.slot

LoadCandidates ==
  IF CandidatesReadable THEN {candidates.lines[i] : i \in {j \in DOMAIN candidates.lines : Candidate(candidates.lines[j])}}
  ELSE {}

LoadFailures == IF FailuresReadable THEN Failed ELSE {}

PromptsReadable == ~prompts.torn /\ Broken \notin prompts.lines

\* No candidate_id is there twice.
NoDuplicateIds ==
  CandidatesReadable =>
    Cardinality({c.slot : c \in LoadCandidates}) = Cardinality({j \in DOMAIN candidates.lines : Candidate(candidates.lines[j])})

\* A link leads to a candidate of the run that has the same code.
DuplicateLinks ==
  \A c \in LoadCandidates : c.duplicate_of # 0 =>
    \E d \in LoadCandidates : d.slot = c.duplicate_of /\ d.code = c.code

\* Every candidate's prompt was written down; an unreadable file is reported once, as such.
PromptsThere == PromptsReadable => {c.slot : c \in LoadCandidates} \subseteq prompts.lines

\* statistics.json once more, from what could be read; it is not there before a handler wrote it.
StatisticsRecomputed ==
  LET slots == {c.slot : c \in LoadCandidates} IN
  [candidates_generated |-> Cardinality(LoadCandidates),
   generation_failures  |-> Cardinality(LoadFailures \ slots),
   problems_completed   |-> Cardinality({q \in Problems : \A s \in Slots :
                              ProblemOf[s] = q => s \in slots \cup LoadFailures})]

Completeness ==
  status = "completed" => {c.slot : c \in LoadCandidates} \cup LoadFailures = Slots

\* The issues of validate_run, by check.
ValidateRun ==
  LET checks == [manifest     |-> status # "none",
                 jsonl        |-> CandidatesReadable /\ FailuresReadable /\ PromptsReadable,
                 schema       |-> \A c \in Saved : Candidate(c),
                 duplicate_id |-> NoDuplicateIds,
                 duplicate_of |-> DuplicateLinks,
                 prompt       |-> PromptsThere,
                 statistics   |-> statistics = StatisticsRecomputed,
                 incomplete   |-> Completeness]
  IN  {c \in DOMAIN checks : ~checks[c]}

-----------------------------------------------------------------------------
(* Property. *)

\* cli.py, runs/validation.py: a completed run owes nothing.  Its records are readable, every
\* pair asked for has a candidate or a recorded failure, statistics.json is what those records
\* say, and `runs validate` has nothing to say against it but that prompts.jsonl cannot be
\* read: no invocation reads that file and no repair mends it, so a fragment in it stays.
CompletedIsValid ==
  status = "completed" =>
    /\ Countable
    /\ Slotted \cup Failed = Slots
    /\ statistics = FromRecords
    /\ ValidateRun = IF PromptsReadable THEN {} ELSE {"jsonl"}
=============================================================================

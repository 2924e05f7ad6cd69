------------------------------ MODULE Judging ------------------------------
(***************************************************************************)
(* Stages 7 and 8 of python_dpo as they run: one evaluation run, a ranking *)
(* run over it (`rank run`) and a preference run over that (`preferences   *)
(* generate`), each with the --resume of both.                             *)
(*                                                                         *)
(* A command is a process that appends the lines of one problem at a time  *)
(* to JSONL files and, for preferences, then rewrites the dataset files.   *)
(* Every append, every rewrite of a file and every rewrite of a manifest   *)
(* is one step.  Ctrl-C (Interrupt) and the death of the process (Die) may *)
(* come between any two.  The commands of one operator follow each other;  *)
(* what a command loads when it starts does not change while it runs, so   *)
(* it is read where it is used.                                            *)
(***************************************************************************)
EXTENDS Preferences

CONSTANTS
  Scenarios,   \* what evaluation may have left: values of given
  Requests,    \* what an operator may ask of preferences: <<policy, cap>>
  NoFile       \* a dataset file that was never written

VARIABLES
  given,       \* evidence and source of every candidate, the candidates that evaluation
               \* was asked for, problems the dataset has
  files,       \* the append-only files of both runs: sequences of lines
  rankRun,     \* manifest of the ranking run: status, requested problems
  prefRun,     \* manifest of the preference run: status, policy, cap
  split,       \* split_manifest.json
  dataset,     \* preferences.jsonl and the three split files: sets of pairs
  proc,        \* the command that runs
  faults,      \* signals and deaths still to come
  torn         \* ghost: <<command, problem>> left with lines unsaved

vars == <<given, files, rankRun, prefRun, split, dataset, proc, faults, torn>>

ASSUME ScenariosAssumption ==
  \A s \in Scenarios :
    /\ DOMAIN s.evidence = DOMAIN s.source
    /\ IsFiniteSet(DOMAIN s.evidence)
    /\ DOMAIN s.evidence \subseteq Nat \X Nat
    /\ \A c \in DOMAIN s.evidence : s.evidence[c] \in Evidence(s.tests)
    /\ s.tests \in Nat /\ s.faults \in Nat
    /\ DOMAIN s.evidence \subseteq s.requested    \* nothing was evaluated unasked
ASSUME RequestsAssumption == Requests \subseteq Policies \X Nat
\* A shuffle loses no problem and has none twice.
ASSUME ShuffleAssumption ==
  \A s \in Scenarios : \A n \in 1..Cardinality({c[1] : c \in DOMAIN s.evidence}) :
    Shuffle[n] \in Bijection(1..n, 1..n)
\* A file that is not there is not mistaken for records.
ASSUME NoFileAssumption ==
  \A s \in Scenarios :
    \A T \in SUBSET {ab \in (DOMAIN s.evidence) \X (DOMAIN s.evidence) :
                      ab[1] # ab[2] /\ ab[1][1] = ab[2][1]} : T # NoFile

Candidates == DOMAIN given.evidence
Of(p)      == {c \in Candidates : c[1] = p}
Problems   == {c[1] : c \in Candidates}

Lines(file) == {files[file][i] : i \in DOMAIN files[file]}
FileNames   == {"assessments", "rankings", "comparisons", "metadata", "rejections"}
SplitNames  == {"train", "validation", "test"}

Statuses  == {"none", "created", "running", "completed", "interrupted"}
\* Mutant of Resumable: a run that never started may not be resumed.
ResumableStarted == {"interrupted"}
Resumable    == {"created", "interrupted"}

\* Stands for the policy where there is no preference run or no command yet.
NoPolicy == [name |-> "strict", margin |-> 0]

Idle == [cmd |-> "none", at |-> "idle", todo |-> {}, problem |-> 0, lines |-> {},
         policy |-> NoPolicy, cap |-> NoCap, signalled |-> FALSE]

\* p is the next problem of the loop.
First(p) == p \in proc.todo /\ \A q \in proc.todo : p <= q

---------------------------------------------------------------------------
(* What the files say *)

Assessed         == {l.candidate : l \in Lines("assessments")}
AssessedProblems == {c[1] : c \in Assessed}

\* More than one assessment of one candidate of p: the comparator then meets a
\* candidate twice, which ComparisonResult and PreferenceRejection both refuse.
Repeated(p) ==
  \E i, j \in DOMAIN files.assessments :
    /\ i # j
    /\ files.assessments[i].candidate = files.assessments[j].candidate
    /\ files.assessments[i].candidate[1] = p

RankedProblems == {l.candidate[1] : l \in Lines("rankings")}

\* Mutant of PairedProblems: a problem that has only rejections is not settled.
PairedWithPairs == {l.chosen[1] : l \in Lines("metadata")}

PairedProblems ==
  {l.chosen[1] : l \in Lines("metadata")} \cup {l.a[1] : l \in Lines("rejections")}

TrainingPairs == {<<l.chosen, l.rejected>> : l \in {m \in Lines("metadata") : ~m.duplicate}}

---------------------------------------------------------------------------
(* The lines of one problem, and the order in which they are appended *)

AssessmentLines(p) == {[file |-> "assessments", candidate |-> c] : c \in Of(p)}

RankingLines(p) ==
  {[file |-> "rankings", candidate |-> c, rank |-> RankOf(given.evidence, Of(p), c),
    group |-> TieGroup(given.evidence, Of(p), c)] : c \in Of(p)}

ComparisonLines(p) ==
  {[file |-> "comparisons", a |-> ab[1], b |-> ab[2],
    relation |-> Compare(given.evidence[ab[1]], given.evidence[ab[2]])] : ab \in Combinations(Of(p))}

Truncated(l) == l.file = "rejections" /\ l.reason = "max_pairs_per_problem"

Turn(l) ==
  CASE l.file = "assessments" -> 1
    [] l.file = "rankings"    -> 2
    [] l.file = "comparisons" -> 3
    [] l.file = "metadata"    -> 4
    [] l.file = "rejections"  -> IF Truncated(l) THEN 6 ELSE 5

\* The combination a pair or rejection is about.
Sides(l) ==
  IF l.file # "metadata" THEN <<l.a, l.b>>
  ELSE IF Before(l.chosen, l.rejected) THEN <<l.chosen, l.rejected>>
  ELSE <<l.rejected, l.chosen>>

\* Ranked candidates by rank, then the others; pairs by combination, but by
\* margin when some were truncated.
Precedes(l, m) ==
  CASE l.file = "assessments" -> Before(l.candidate, m.candidate)
    [] l.file = "rankings" ->
         \/ l.rank # 0 /\ (m.rank = 0 \/ l.rank < m.rank)
         \/ l.rank = m.rank /\ Before(l.candidate, m.candidate)
    [] OTHER ->
         IF Truncated(l) \/ (l.file = "metadata" /\ \E x \in proc.lines : Truncated(x))
         THEN KeptFirst(given.evidence, Sides(l), Sides(m))
         ELSE BeforePair(Sides(l)[1], Sides(l)[2], Sides(m)[1], Sides(m)[2])

IsNext(l) ==
  \A m \in proc.lines \ {l} : Turn(l) < Turn(m) \/ (Turn(l) = Turn(m) /\ Precedes(l, m))

---------------------------------------------------------------------------
Init ==
  /\ \E s \in Scenarios : given = s /\ faults = s.faults
  /\ files = [f \in FileNames |-> <<>>]
  /\ rankRun = [status |-> "none", requested |-> {}]
  /\ prefRun = [status |-> "none", policy |-> NoPolicy, cap |-> NoCap]
  /\ split = [s \in SplitNames |-> {}]
  /\ dataset = [f \in SplitNames \cup {"preferences"} |-> NoFile]
  /\ proc = Idle
  /\ torn = {}

AppendLine ==
  /\ \E l \in proc.lines :
       /\ IsNext(l)
       /\ files' = [files EXCEPT ![l.file] = Append(@, l)]
       /\ proc' = [proc EXCEPT !.lines = @ \ {l}]
  /\ UNCHANGED <<given, rankRun, prefRun, split, dataset, faults, torn>>

\* The process is at the head of the loop over the problems still to do.
AtLoop(cmd) == proc.cmd = cmd /\ proc.at = "loop" /\ proc.lines = {}

---------------------------------------------------------------------------
(* rank run *)

\* --problem-id, --limit, or neither.
Selections ==
  {{p} : p \in Problems} \cup {{q \in Problems : q <= p} : p \in Problems}

StartRanking ==
  /\ proc = Idle /\ rankRun.status = "none"
  /\ \E S \in Selections : rankRun' = [status |-> "created", requested |-> S]
  /\ proc' = [Idle EXCEPT !.cmd = "rank", !.at = "start"]
  /\ UNCHANGED <<given, files, prefRun, split, dataset, faults, torn>>

\* start_run, and the index of ranked problems that resuming relies on.
RunRanking ==
  /\ rankRun' = [rankRun EXCEPT !.status = "running"]
  /\ proc' = [Idle EXCEPT !.cmd = "rank", !.at = "loop",
                          !.todo = rankRun.requested \ RankedProblems]
  /\ UNCHANGED <<given, files, prefRun, split, dataset, faults, torn>>

BeginRanking  == proc.cmd = "rank" /\ proc.at = "start" /\ RunRanking
ResumeRanking == proc = Idle /\ rankRun.status \in Resumable /\ RunRanking

\* Score every candidate of the next problem; an assessment that its own model
\* refuses ends the command and leaves the status running.
ScoreProblem ==
  /\ AtLoop("rank")
  /\ \E p \in Problems :
       /\ First(p)
       /\ proc' = IF \A c \in Of(p) : Assessable(given.evidence[c])
                  THEN [proc EXCEPT !.todo = @ \ {p}, !.problem = p, !.at = "assessed",
                                    !.lines = AssessmentLines(p)]
                  ELSE Idle
  /\ UNCHANGED <<given, files, rankRun, prefRun, split, dataset, faults, torn>>

\* Once the assessments are saved, rank and compare; rank_problem raises when
\* the tests_total of the candidates differ.
RankProblem ==
  /\ proc.at = "assessed" /\ proc.lines = {}
  /\ proc' = IF SameTotals(given.evidence, Of(proc.problem))
             THEN [proc EXCEPT !.at = "loop",
                     !.lines = RankingLines(proc.problem) \cup ComparisonLines(proc.problem)]
             ELSE Idle
  /\ UNCHANGED <<given, files, rankRun, prefRun, split, dataset, faults, torn>>

EndRanking ==
  /\ AtLoop("rank") /\ proc.todo = {}
  /\ rankRun' = [rankRun EXCEPT !.status =
                   IF rankRun.requested \subseteq RankedProblems THEN "completed" ELSE "interrupted"]
  /\ proc' = Idle
  /\ UNCHANGED <<given, files, prefRun, split, dataset, faults, torn>>

---------------------------------------------------------------------------
(* preferences generate *)

StartPairing ==
  /\ proc = Idle /\ prefRun.status = "none" /\ Assessed # {}
  /\ \E r \in Requests :
       /\ prefRun' = [status |-> "created", policy |-> r[1], cap |-> r[2]]
       /\ proc' = [Idle EXCEPT !.cmd = "pair", !.at = "start", !.policy = r[1], !.cap = r[2]]
  /\ UNCHANGED <<given, files, rankRun, split, dataset, faults, torn>>

RunPairing(policy, cap) ==
  /\ prefRun' = [prefRun EXCEPT !.status = "running"]
  /\ proc' = [Idle EXCEPT !.cmd = "pair", !.at = "loop", !.policy = policy, !.cap = cap,
                          !.todo = AssessedProblems \ PairedProblems]
  /\ UNCHANGED <<given, files, rankRun, split, dataset, faults, torn>>

BeginPairing == proc.cmd = "pair" /\ proc.at = "start" /\ RunPairing(proc.policy, proc.cap)

\* Policy, margin and cap are those of this invocation, not of the manifest.
ResumePairing ==
  /\ proc = Idle /\ prefRun.status \in Resumable
  /\ \E r \in Requests : RunPairing(r[1], r[2])

Buildable(p) == p \in given.known /\ ~Repeated(p)

BuildProblem ==
  /\ AtLoop("pair")
  /\ \E p \in Problems :
       LET S == Of(p) \cap Assessed IN
       /\ First(p) /\ Buildable(p)
       /\ proc' = [proc EXCEPT !.todo = @ \ {p}, !.problem = p,
            !.lines = PairLines(given.evidence, given.source, S, proc.policy, proc.cap)
                        \cup RejectionLines(given.evidence, given.source, S, proc.policy, proc.cap)]
  /\ UNCHANGED <<given, files, rankRun, prefRun, split, dataset, faults, torn>>

\* An unknown problem ends the command with exit code 1, a repeated candidate
\* with an exception; both leave the status running.
RefuseProblem ==
  /\ AtLoop("pair")
  /\ \E p \in Problems : First(p) /\ ~Buildable(p)
  /\ proc' = Idle
  /\ UNCHANGED <<given, files, rankRun, prefRun, split, dataset, faults, torn>>

Finalize ==
  /\ AtLoop("pair") /\ proc.todo = {}
  /\ proc' = [proc EXCEPT !.at = "split"]
  /\ UNCHANGED <<given, files, rankRun, prefRun, split, dataset, faults, torn>>

WriteSplit ==
  /\ proc.at = "split"
  /\ split' = Split({ab[1][1] : ab \in TrainingPairs})
  /\ proc' = [proc EXCEPT !.at = "preferences"]
  /\ UNCHANGED <<given, files, rankRun, prefRun, dataset, faults, torn>>

WritePreferences ==
  /\ proc.at = "preferences"
  /\ dataset' = [dataset EXCEPT !.preferences = TrainingPairs]
  /\ proc' = [proc EXCEPT !.at = "train"]
  /\ UNCHANGED <<given, files, rankRun, prefRun, split, faults, torn>>

After == [train |-> "validation", validation |-> "test", test |-> "end"]

WriteSplitFile ==
  /\ proc.at \in SplitNames
  /\ dataset' = [dataset EXCEPT ![proc.at] = {ab \in TrainingPairs : ab[1][1] \in split[proc.at]}]
  /\ proc' = [proc EXCEPT !.at = After[proc.at]]
  /\ UNCHANGED <<given, files, rankRun, prefRun, split, faults, torn>>

\* After a Ctrl-C the status was written before the files and stays.
EndPairing ==
  /\ proc.at = "end"
  /\ prefRun' = IF proc.signalled THEN prefRun
                ELSE [prefRun EXCEPT !.status =
                        IF AssessedProblems \subseteq PairedProblems THEN "completed" ELSE "interrupted"]
  /\ proc' = Idle
  /\ UNCHANGED <<given, files, rankRun, split, dataset, faults, torn>>

---------------------------------------------------------------------------
(* Faults *)

CutShort == IF proc.lines # {} \/ proc.at = "assessed" THEN {<<proc.cmd, proc.problem>>} ELSE {}

\* Ctrl-C inside the loop is caught: the status becomes interrupted and, for
\* preferences, the derived files are written before the command ends.
Interrupt ==
  /\ faults > 0 /\ proc.at \in {"loop", "assessed"}
  /\ faults' = faults - 1
  /\ torn' = torn \cup CutShort
  /\ \/ /\ proc.cmd = "rank"
        /\ rankRun' = [rankRun EXCEPT !.status = "interrupted"]
        /\ proc' = Idle
        /\ UNCHANGED prefRun
     \/ /\ proc.cmd = "pair"
        /\ prefRun' = [prefRun EXCEPT !.status = "interrupted"]
        /\ proc' = [proc EXCEPT !.at = "split", !.lines = {}, !.todo = {}, !.signalled = TRUE]
        /\ UNCHANGED rankRun
  /\ UNCHANGED <<given, files, split, dataset>>

\* A kill, a crash, or Ctrl-C where it is not caught.
Die ==
  /\ faults > 0 /\ proc # Idle
  /\ faults' = faults - 1
  /\ torn' = torn \cup CutShort
  /\ proc' = Idle
  /\ UNCHANGED <<given, files, rankRun, prefRun, split, dataset>>

---------------------------------------------------------------------------
\* What a command does once it is started.
Work ==
  \/ AppendLine
  \/ BeginRanking \/ ScoreProblem \/ RankProblem \/ EndRanking
  \/ BeginPairing \/ BuildProblem \/ RefuseProblem \/ Finalize
  \/ WriteSplit \/ WritePreferences \/ WriteSplitFile \/ EndPairing

Next ==
  \/ StartRanking \/ ResumeRanking \/ StartPairing \/ ResumePairing
  \/ Work \/ Interrupt \/ Die

Spec == Init /\ [][Next]_vars

\* A process that is not stopped goes on.
LiveSpec == Spec /\ WF_vars(Work)
=============================================================================

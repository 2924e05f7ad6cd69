----------------------------- MODULE Evaluation -----------------------------
(***************************************************************************)
(* One evaluation run: `evaluate run` takes the candidates of a generation *)
(* run in order, has each one's tests run in the sandbox, and appends the  *)
(* outcome to evaluations.jsonl, its details to test_results.jsonl, or a   *)
(* reason to failures.jsonl.  The latest run of a generation run is taken  *)
(* up again by every further invocation until it is completed.             *)
(*                                                                         *)
(* proc[p] is the process, job[p] and box[p] (module Sandbox) its job in   *)
(* the sandbox.  The candidate_execution stage is an invocation that never *)
(* takes up an earlier run.                                                *)
(***************************************************************************)
EXTENDS Sandbox

CONSTANTS
  Candidates,   \* 1..n: requested_candidate_ids, in file order
  Unbuildable,  \* those for which TestGenerator.build raises
  MaxRuns       \* bound: invocations

ASSUME CandidatesAssumption ==
  /\ IsFiniteSet(Candidates) /\ Candidates # {} /\ Candidates = 1..Cardinality(Candidates)
  /\ Unbuildable \subseteq Candidates
ASSUME RunsAssumption == MaxRuns \in Nat

VARIABLES
  status,      \* manifest.json: "none" before create_run
  results,     \* evaluations.jsonl: records in file order
  failures,    \* failures.jsonl: candidates in file order
  details,     \* test_results.jsonl: how many lines each candidate has
  spoilt,      \* lines of test_results.jsonl that were glued to a fragment
  torn,        \* files that end in a fragment
  statistics,  \* statistics.json
  proc,
  runs,        \* invocations so far
  derailed     \* invocations that an exception ended

files == <<results, failures, details, spoilt, torn>>
vars  == <<svars, status, files, statistics, proc, runs, derailed>>

Idle == [pc |-> "idle", existing |-> {}, cur |-> 0, result |-> <<>>]

EVALUATION_RESULT_STATUSES == {"passed", "failed", "timeout", "syntax_error", "infrastructure_error"}

EVALUATION_RUN_STATUS_TRANSITIONS(s) ==
  CASE s = "created"     -> {"running", "cancelled"}
    [] s = "running"     -> {"running", "completed", "failed", "interrupted", "cancelled"}
    [] s = "interrupted" -> {"running", "cancelled"}
    [] s = "failed"      -> {"running"}
    [] OTHER             -> {}

\* Mutant: a result of the machinery is tried again on resume, and then has two records.
EvaluatedKeysJudged ==
  {results[i].cand : i \in {j \in DOMAIN results : results[j].status # "infrastructure_error"}}
    \cup {failures[i] : i \in DOMAIN failures}

EvaluatedKeys ==
  {results[i].cand : i \in DOMAIN results} \cup {failures[i] : i \in DOMAIN failures}

Readable == torn \cap {"evaluations", "failures"} = {}

Past == Cardinality(Candidates) + 1

-----------------------------------------------------------------------------
(* Judging one execution. *)

Count(tests, s) == Cardinality({t \in DOMAIN tests : tests[t] = s})

\* EvaluationResult.__post_init__: passed is never assumed, and the counts partition the total.
ValidResult(r) ==
  /\ r.status \in EVALUATION_RESULT_STATUSES
  /\ r.status = "passed" => r.tests # <<>> /\ Count(r.tests, "passed") = Len(r.tests)
  /\ \A t \in DOMAIN r.tests : r.tests[t] \in TEST_CASE_STATUSES

\* Mutant: only the tests that reported are counted.
ReconcileReported(b) == IF b.collect # "no" THEN <<>> ELSE b.said

\* reconcile: a declared test that reported nothing is an error, and none ran if candidate.py
\* could not be collected.
Reconcile(b) ==
  [t \in Tests |-> IF b.collect = "no" /\ t \in DOMAIN b.said THEN b.said[t] ELSE "error"]

\* PytestResultParser.parse raises on a tagged line that is not JSON, and TestCaseResult
\* refuses an error_message that is the empty string.
Unparsable(b) ==
  \/ b.cut
  \/ b.collect = "no" /\ \E t \in DOMAIN b.said : b.said[t] = Silent

\* An exit code never decides: every test must have reported that it passed.
Verdict(j, b) ==
  LET tests == Reconcile(b) IN
  CASE b.collect = "syntax" -> "syntax_error"
    [] b.collect = "other"  -> "failed"
    [] b.collect = "no" /\ j.timedOut -> "timeout"
    [] OTHER -> IF tests # <<>> /\ \A t \in DOMAIN tests : tests[t] = "passed"
                THEN "passed" ELSE "failed"

\* CandidateEvaluator._classify: the machinery outranks everything.
Judged(c, j, b) ==
  IF j.status = "infrastructure_error"
  THEN [cand |-> c, status |-> j.status, tests |-> <<>>]
  ELSE [cand |-> c, status |-> Verdict(j, b), tests |-> Reconcile(b)]

\* EvaluationStatistics.from_records.
FromRecords ==
  LET Having(s) == Cardinality({i \in DOMAIN results : results[i].status \in s}) IN
  [evaluated |-> Len(results), failures |-> Len(failures),
   passed    |-> Having({"passed"}),
   failed    |-> Having({"failed", "timeout", "syntax_error"}),
   faulty    |-> Having({"infrastructure_error"}),
   tests     |-> Cardinality({line \in (DOMAIN results) \X Tests :
                                line[2] \in DOMAIN results[line[1]].tests})]

NoStatistics == [evaluated |-> 0, failures |-> 0, passed |-> 0, failed |-> 0, faulty |-> 0,
                 tests |-> 0]

-----------------------------------------------------------------------------
(* The process. *)

GoTo(p, pc) == proc' = [proc EXCEPT ![p].pc = pc]
Onward(p)   == proc' = [proc EXCEPT ![p].pc = "loop", ![p].cur = @ + 1, ![p].result = <<>>]
Leave(p)    == proc' = [proc EXCEPT ![p] = Idle]
At(p, pc)   == proc[p].pc = pc

\* An exception nobody catches: the process leaves, and the manifest says what it said.
Derail(p) == Leave(p) /\ derailed' = derailed + 1

\* with_status allows staying, whatever the table says.
UpdateStatus(p, s, pc) ==
  IF s = status \/ s \in EVALUATION_RUN_STATUS_TRANSITIONS(status)
  THEN status' = s /\ GoTo(p, pc) /\ UNCHANGED derailed
  ELSE Derail(p) /\ UNCHANGED status

Init ==
  /\ SandboxInit
  /\ status = "none"
  /\ results = <<>> /\ failures = <<>>
  /\ details = [c \in Candidates |-> 0] /\ spoilt = 0 /\ torn = {}
  /\ statistics = NoStatistics
  /\ proc = [p \in Procs |-> Idle]
  /\ runs = 0 /\ derailed = 0

Invoke(p) ==
  /\ At(p, "idle")
  /\ runs < MaxRuns
  /\ runs' = runs + 1
  /\ GoTo(p, "starting")

\* The first invocation, or the stage: the image is there and was probed; create_run.
Create(p) ==
  /\ status = "none"
  /\ Invoke(p)
  /\ status' = "created"
  /\ UNCHANGED <<svars, files, statistics, derailed>>

\* Mutant: only the statuses that resume_run of the run repository accepts are taken up.
TakeUpStopped(p) ==
  /\ status \in {"created", "interrupted", "failed"}
  /\ Invoke(p)
  /\ UNCHANGED <<svars, status, files, statistics, derailed>>

\* latest_run_for_candidate_run: taken up unless it is completed, whatever else its status is.
TakeUp(p) ==
  /\ status \notin {"none", "completed"}
  /\ Invoke(p)
  /\ UNCHANGED <<svars, status, files, statistics, derailed>>

StartRun(p) ==
  /\ At(p, "starting")
  /\ UpdateStatus(p, "running", "loading")
  /\ UNCHANGED <<svars, files, statistics, runs>>

\* evaluated_keys, once per invocation.
LoadKeys(p) ==
  /\ At(p, "loading")
  /\ IF Readable
     THEN /\ proc' = [proc EXCEPT ![p].pc = "loop", ![p].existing = EvaluatedKeys, ![p].cur = 1]
          /\ UNCHANGED derailed
     ELSE Derail(p)
  /\ UNCHANGED <<svars, status, files, statistics, runs>>

Skip(p) ==
  /\ At(p, "loop")
  /\ proc[p].cur \in proc[p].existing
  /\ Onward(p)
  /\ UNCHANGED <<svars, status, files, statistics, runs, derailed>>

Due(p) == /\ At(p, "loop")
          /\ proc[p].cur \in Candidates \ proc[p].existing

\* TestGenerator.build, then PytestRunner.run.
BeginJob(p) ==
  /\ Due(p)
  /\ proc[p].cur \notin Unbuildable
  /\ job' = [job EXCEPT ![p] = [NoJob EXCEPT !.at = "ready"]]
  /\ box' = [box EXCEPT ![p] = NoBox]
  /\ GoTo(p, "job")
  /\ UNCHANGED <<leftover, faults, status, files, statistics, runs, derailed>>

\* InvalidProblemError or TestGenerationError: _record_failure.
RecordFailure(p) ==
  /\ Due(p)
  /\ proc[p].cur \in Unbuildable
  /\ failures' = Append(failures, proc[p].cur)
  /\ Onward(p)
  /\ UNCHANGED <<svars, status, results, details, spoilt, torn, statistics, runs, derailed>>

\* What came back from execute_job.
Judge(p) ==
  /\ At(p, "job")
  /\ job[p].at = "done"
  /\ job' = [job EXCEPT ![p] = NoJob]
  /\ box' = [box EXCEPT ![p] = NoBox]
  /\ LET r == Judged(proc[p].cur, job[p], box[p]) IN
     CASE job[p].status = "interrupted" -> GoTo(p, "stopping") /\ UNCHANGED derailed
       [] job[p].status = "raised"      -> Derail(p)
       [] OTHER ->
            IF \/ job[p].status # "infrastructure_error" /\ Unparsable(box[p])
               \/ ~ValidResult(r)
            THEN Derail(p)
            ELSE /\ proc' = [proc EXCEPT ![p].pc = "saving", ![p].result = r]
                 /\ UNCHANGED derailed
  /\ UNCHANGED <<leftover, faults, status, files, statistics, runs>>

\* Mutant: the file is opened for writing, not for appending.
SaveResultAnew(p) ==
  /\ At(p, "saving")
  /\ results' = <<proc[p].result>>
  /\ IF proc[p].result.tests = <<>> THEN Onward(p) ELSE GoTo(p, "detailing")
  /\ UNCHANGED <<svars, status, failures, details, spoilt, torn, statistics, runs, derailed>>

\* save(result).
SaveResult(p) ==
  /\ At(p, "saving")
  /\ results' = Append(results, proc[p].result)
  /\ IF proc[p].result.tests = <<>> THEN Onward(p) ELSE GoTo(p, "detailing")
  /\ UNCHANGED <<svars, status, failures, details, spoilt, torn, statistics, runs, derailed>>

\* Mutant: the loop over the tests is left after the first one.
SaveTestOnce(p) ==
  /\ At(p, "detailing")
  /\ details' = [details EXCEPT ![proc[p].result.cand] = @ + 1]
  /\ Onward(p)
  /\ UNCHANGED <<svars, status, results, failures, spoilt, torn, statistics, runs, derailed>>

\* append_test_results writes one line at a time; after a fragment the line is lost in it.
SaveTest(p) ==
  /\ At(p, "detailing")
  /\ LET r    == proc[p].result
         glue == "test_results" \in torn
     IN  /\ details' = IF glue THEN details ELSE [details EXCEPT ![r.cand] = @ + 1]
         /\ spoilt' = IF glue THEN spoilt + 1 ELSE spoilt
         /\ torn' = torn \ {"test_results"}
         /\ IF Len(r.tests) = 1 THEN Onward(p)
            ELSE proc' = [proc EXCEPT ![p].result.tests = Tail(@)]
  /\ UNCHANGED <<svars, status, results, failures, statistics, runs, derailed>>

\* _write_statistics, after the loop or after interrupt_run; it reads both files.
WriteStatistics(p) ==
  /\ (At(p, "loop") /\ proc[p].cur = Past) \/ At(p, "counting")
  /\ statistics' = IF Readable THEN FromRecords ELSE statistics
  /\ IF At(p, "counting") THEN Leave(p) /\ UNCHANGED derailed
     ELSE IF Readable THEN GoTo(p, "settling") /\ UNCHANGED derailed
     ELSE Derail(p)
  /\ UNCHANGED <<svars, status, files, runs>>

\* complete iff candidates_evaluated + evaluation_failures >= requested_candidates.
Settle(p) ==
  /\ At(p, "settling")
  /\ LET s == IF statistics.evaluated + statistics.failures >= Cardinality(Candidates)
              THEN "completed" ELSE "interrupted"
     IN  UpdateStatus(p, s, "idle")
  /\ UNCHANGED <<svars, files, statistics, runs>>

\* except KeyboardInterrupt: interrupt_run first, the statistics after.
InterruptRun(p) ==
  /\ At(p, "stopping")
  /\ UpdateStatus(p, "interrupted", "counting")
  /\ UNCHANGED <<svars, files, statistics, runs>>

\* Ctrl-C inside evaluate_many.
Interrupt(p) ==
  /\ proc[p].pc \in {"loading", "loop", "job", "saving", "detailing"}
  /\ Fault
  /\ IF At(p, "job") THEN Signalled(p) /\ UNCHANGED proc
     ELSE GoTo(p, "stopping") /\ UNCHANGED <<job, box, leftover>>
  /\ UNCHANGED <<status, files, statistics, runs, derailed>>

\* What an append that does not finish leaves behind.
CutShort(p) ==
  \/ UNCHANGED torn
  \/ Due(p) /\ proc[p].cur \in Unbuildable /\ torn' = torn \cup {"failures"}
  \/ At(p, "saving") /\ torn' = torn \cup {"evaluations"}
  \/ At(p, "detailing") /\ torn' = torn \cup {"test_results"}

\* SIGKILL, a power loss, a full disk, or a Ctrl-C outside of the try block.
Die(p) ==
  /\ ~At(p, "idle")
  /\ Fault
  /\ CutShort(p)
  /\ Abandoned(p)
  /\ Leave(p)
  /\ UNCHANGED <<status, results, failures, details, spoilt, statistics, runs, derailed>>

InSandbox(p, A) == A /\ UNCHANGED <<status, files, statistics, proc, runs, derailed>>

Evaluate(p) ==
  \/ StartRun(p) \/ LoadKeys(p) \/ Skip(p) \/ BeginJob(p) \/ RecordFailure(p) \/ Judge(p)
  \/ SaveResult(p) \/ SaveTest(p) \/ WriteStatistics(p) \/ Settle(p) \/ InterruptRun(p)
  \/ InSandbox(p, Executor(p))

Surroundings(p) ==
  \/ InSandbox(p, Container(p)) \/ InSandbox(p, DockerFails(p)) \/ Interrupt(p) \/ Die(p)

Next == \E p \in Procs : Create(p) \/ TakeUp(p) \/ Evaluate(p) \/ Surroundings(p)

Spec == Init /\ [][Next]_vars

\* The host process goes on, and the operator takes an unfinished run up again.  Nothing is
\* assumed of the container: it may hang for ever.
LiveSpec == Spec /\ \A p \in Procs : WF_vars(Evaluate(p)) /\ WF_vars(TakeUp(p))
-----------------------------------------------------------------------------
(* Properties. *)

\* Every variable has its type.
TypeOK ==
  /\ status \in {"none", "created", "running", "interrupted", "completed"}
  /\ \A i \in DOMAIN results : results[i].cand \in Candidates /\ ValidResult(results[i])
  /\ \A i \in DOMAIN failures : failures[i] \in Unbuildable
  /\ details \in [Candidates -> 0..Cardinality(Tests)]
  /\ torn \subseteq {"evaluations", "failures", "test_results"}
  /\ \A p \in Procs : /\ job[p].at \in InFlight \cup {"none", "ready", "done"}
                       /\ Len(box[p].said) <= Cardinality(Tests)

\* evaluation/repository.py: a candidate that has an outcome is settled.  No candidate gets a
\* second one, over all interruptions, kills, broken jobs and resumes.
OneOutcomeEach ==
  /\ \A i, j \in DOMAIN results : results[i].cand = results[j].cand => i = j
  /\ \A i, j \in DOMAIN failures : failures[i] = failures[j] => i = j
  /\ \A i \in DOMAIN results, j \in DOMAIN failures : results[i].cand # failures[j]

\* A candidate is passed only if each of its tests ran and passed: never by its exit code, by
\* output that was cut, or by Docker's failure.
PassedIsEarned ==
  \A i \in DOMAIN results :
    /\ results[i].status = "passed" => results[i].tests = [t \in Tests |-> "passed"]
    /\ results[i].tests = <<>> <=> results[i].status = "infrastructure_error"

\* append_test_results: details are of recorded candidates only, no test of a candidate is
\* recorded twice, and only a fault costs a candidate its details: one candidate each, and
\* one more for a line that was glued to a fragment.
DetailsFollow ==
  LET Written(c) == \E p \in Procs : At(p, "detailing") /\ proc[p].result.cand = c
      Lacking    == {i \in DOMAIN results : /\ details[results[i].cand] < Len(results[i].tests)
                                           /\ ~Written(results[i].cand)}
  IN  /\ \A c \in Candidates : details[c] > 0 => c \in EvaluatedKeys
      /\ \A i \in DOMAIN results : details[results[i].cand] <= Len(results[i].tests)
      /\ Cardinality(Lacking) <= faults + spoilt

\* sandbox/executor.py: the container is removed on every path out; one is left behind only
\* where the process died or docker rm failed, and none runs without a job.
NoOrphans ==
  /\ leftover <= faults
  /\ \A p \in Procs : box[p].there => job[p].at \in InFlight

\* Whatever the program in the container does, or does not do, the job comes to an end.
JobsEnd == \A p \in Procs : job[p].at = "ready" ~> job[p].at = "none"

\* Taking the run up again completes it, unless a file is torn: an invocation that does not
\* complete it met a fault or was derailed.
ResumingCompletes ==
  status = "created" ~> \/ status = "completed"
                        \/ ~Readable
                        \/ faults + derailed >= MaxRuns

\* evaluation/executor.py: evaluate raises for problems of the machinery only, "never for
\* anything the candidate itself did".  When the program ended by itself and its output came
\* back whole, it can be judged.
CrashesAreResults ==
  \A p \in Procs :
    /\ At(p, "job") /\ job[p].at = "done"
    /\ job[p].status \in {"success", "runtime_error"}
    /\ ~box[p].cut
    => ~Unparsable(box[p])

\* The run directory is a RunDirectory: each outcome is recorded once and stays.
Directory ==
  INSTANCE RunDirectory WITH
    Work     <- Candidates,
    phase    <- IF status = "none" THEN "absent"
                ELSE IF status = "completed" THEN "settled" ELSE "open",
    recorded <- EvaluatedKeys

IsDirectory == Directory!DirSpec
=============================================================================

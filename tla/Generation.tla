----------------------------- MODULE Generation -----------------------------
(***************************************************************************)
(* One candidate-generation run of python_dpo: the run directory (manifest *)
(* status, candidates.jsonl, failures.jsonl, prompts.jsonl and             *)
(* statistics.json), the `generate` process that fills it, and `runs      *)
(* validate --repair`.                                                     *)
(*                                                                         *)
(* A slot is a (problem, generation_index) pair; slots are numbered in the *)
(* order generate() visits them.  Every append to a JSONL file and every   *)
(* rewrite of a JSON file is one step; an append that the process or the   *)
(* disk cuts short leaves a torn tail.                                     *)
(***************************************************************************)
EXTENDS Naturals, Sequences, FiniteSets

CONSTANTS
  Slots,        \* 1..n, in generation order
  ProblemOf,    \* the problem of each slot
  Codes,        \* code hashes a model may produce
  MaxAttempts,  \* retry.max_attempts
  Broken,       \* a complete line that is not JSON
  MaxRuns,      \* bound: invocations of generate
  MaxFaults     \* bound: signals, kills, model load errors and disk errors

ASSUME SlotsAssumption   == IsFiniteSet(Slots) /\ Slots # {} /\ Slots = 1..Cardinality(Slots)
ASSUME ProblemAssumption == DOMAIN ProblemOf = Slots
ASSUME NumberAssumption  == MaxAttempts \in Nat \ {0} /\ MaxRuns \in Nat /\ MaxFaults \in Nat
ASSUME BrokenAssumption  ==
  Broken \notin Slots \cup [slot : Slots, code : Codes, duplicate_of : Slots \cup {0}]

VARIABLES
  status,      \* status of manifest.json, "none" before create_run
  candidates,  \* candidates.jsonl
  failures,    \* failures.jsonl
  prompts,     \* prompts/prompts.jsonl
  statistics,  \* statistics.json
  proc,        \* the memory of the generate process
  runs,        \* invocations so far
  faults       \* faults so far

files == <<candidates, failures, prompts>>
vars  == <<status, candidates, failures, prompts, statistics, proc, runs, faults>>

Problems == {ProblemOf[s] : s \in Slots}
Past     == Cardinality(Slots) + 1      \* cur when the loop is over

-----------------------------------------------------------------------------
(* JSONL files: complete lines and a tail. *)

\* candidates.jsonl is a sequence of lines.  What prompts.jsonl and failures.jsonl decide
\* depends only on which slots they mention, so their lines are a set of slots.
NoFile == [there |-> FALSE, lines |-> <<>>, torn |-> FALSE]
NoLog  == [there |-> FALSE, lines |-> {}, torn |-> FALSE]

\* append_jsonl opens with "a": after a torn tail the new line is glued to it.
Glued(f, line)    == IF f.torn THEN Broken ELSE line
Appended(f, line) == [there |-> TRUE, torn |-> FALSE, lines |-> Append(f.lines, Glued(f, line))]
Logged(f, slot)   == [there |-> TRUE, torn |-> FALSE, lines |-> f.lines \cup {Glued(f, slot)}]

\* An append cut short.
Torn(f) == [f EXCEPT !.there = TRUE, !.torn = TRUE]

Saved   == {candidates.lines[i] : i \in 1..Len(candidates.lines)} \ {Broken}
Slotted == {c.slot : c \in Saved}
Failed  == failures.lines \ {Broken}

\* iter_jsonl raises on a torn tail and on any line that is not a JSON object.
CandidatesReadable == ~candidates.torn /\ \A i \in 1..Len(candidates.lines) :
                                             candidates.lines[i] # Broken
FailuresReadable   == ~failures.torn /\ Broken \notin failures.lines

\* Mutant: the repair drops the last complete line as well.
TruncatedTooMuch(f) ==
  [f EXCEPT !.torn = FALSE,
            !.lines = IF f.torn /\ f = candidates /\ f.lines # <<>>
                      THEN SubSeq(f.lines, 1, Len(f.lines) - 1) ELSE f.lines]

\* repair_truncated_tail.
Truncated(f) == [f EXCEPT !.torn = FALSE]

-----------------------------------------------------------------------------
(* The manifest. *)

\* Mutant: an interrupted run is over.
TransitionsNoReturn(s) ==
  CASE s = "created" -> {"running", "cancelled"}
    [] s = "running" -> {"running", "completed", "failed", "interrupted", "cancelled"}
    [] s = "failed"  -> {"running"}
    [] OTHER         -> {}

RUN_STATUS_TRANSITIONS(s) ==
  CASE s = "created"     -> {"running", "cancelled"}
    [] s = "running"     -> {"running", "completed", "failed", "interrupted", "cancelled"}
    [] s = "interrupted" -> {"running", "cancelled"}
    [] s = "failed"      -> {"running"}
    [] OTHER             -> {}

\* with_status: staying is always allowed.
May(s) == s = status \/ s \in RUN_STATUS_TRANSITIONS(status)

\* RunStatistics.from_records, for the fields that decide anything.
FromRecords ==
  [candidates_generated |-> Len(candidates.lines),
   generation_failures  |-> Cardinality(Failed \ Slotted),
   problems_completed   |-> Cardinality({q \in Problems : \A s \in Slots :
                              ProblemOf[s] = q => s \in Slotted \cup Failed})]

NoStatistics == [candidates_generated |-> 0, generation_failures |-> 0, problems_completed |-> 0]

-----------------------------------------------------------------------------
(* The process. *)

NoIndex == [q \in Problems |-> [c \in Codes |-> 0]]

Idle == [pc       |-> "idle",
         existing |-> {},        \* slots that have a candidate
         index    |-> NoIndex,   \* code_index: the first slot with this code, 0 for none
         cur      |-> 0,         \* the slot the loop is at
         attempt  |-> 0,
         complete |-> FALSE]     \* problems_completed == problems_requested

Leave    == proc' = Idle
GoTo(pc) == proc' = [proc EXCEPT !.pc = pc]
Onward   == proc' = [proc EXCEPT !.pc = "loop", !.cur = proc.cur + 1]

\* RunRepository.update_status: write and go on, or raise RunError, which nobody catches.
UpdateStatus(s, pc) ==
  IF May(s) THEN status' = s /\ GoTo(pc) ELSE Leave /\ UNCHANGED status

Fault == faults < MaxFaults /\ faults' = faults + 1

Invoke(pc) ==
  /\ proc.pc = "idle"
  /\ runs < MaxRuns
  /\ runs' = runs + 1
  /\ GoTo(pc)

Init ==
  /\ status = "none"
  /\ candidates = NoFile /\ failures = NoLog /\ prompts = NoLog
  /\ statistics = NoStatistics
  /\ proc = Idle
  /\ runs = 0
  /\ faults = 0

\* `generate`: create_run.
Create ==
  /\ status = "none"
  /\ Invoke("starting")
  /\ status' = "created"
  /\ UNCHANGED <<files, statistics, faults>>

\* `generate --resume`: resume_run reads the status and decides.
CheckResume ==
  /\ status \in {"created", "interrupted", "failed"}
  /\ Invoke("resuming")
  /\ UNCHANGED <<status, files, statistics, faults>>

\* start_run, from resume_run and again from _execute_run.
StartRun ==
  /\ proc.pc \in {"resuming", "starting"}
  /\ UpdateStatus("running", IF proc.pc = "resuming" THEN "starting" ELSE "loading")
  /\ UNCHANGED <<files, statistics, runs, faults>>

\* The slot of the first line with this problem and code, 0 if there is none.
Earliest(q, c) ==
  LET hits == {i \in 1..Len(candidates.lines) :
                 candidates.lines[i].code = c /\ ProblemOf[candidates.lines[i].slot] = q}
  IN  IF hits = {} THEN 0
      ELSE candidates.lines[CHOOSE i \in hits : \A j \in hits : i <= j].slot

\* Mutants: the resume index, or the duplicate index, starts empty.
LoadNoKeys ==
  /\ proc.pc = "loading"
  /\ proc' = [proc EXCEPT !.pc = "loop", !.cur = 1,
                          !.index = [q \in Problems |-> [c \in Codes |-> Earliest(q, c)]]]
  /\ UNCHANGED <<status, files, statistics, runs, faults>>
LoadNoIndex ==
  /\ proc.pc = "loading"
  /\ proc' = [proc EXCEPT !.pc = "loop", !.cur = 1,
                          !.existing = Slotted]
  /\ UNCHANGED <<status, files, statistics, runs, faults>>

\* load_index: an unreadable candidates.jsonl ends generate() before anything is appended.
LoadIndex ==
  /\ proc.pc = "loading"
  /\ IF CandidatesReadable
     THEN proc' = [proc EXCEPT
                     !.pc = "loop", !.cur = 1,
                     !.existing = Slotted,
                     !.index = [q \in Problems |-> [c \in Codes |-> Earliest(q, c)]]]
     ELSE GoTo("broken")
  /\ UNCHANGED <<status, files, statistics, runs, faults>>

Missing == /\ proc.pc = "loop"
           /\ proc.cur \in Slots
           /\ proc.cur \notin proc.existing

Skip ==
  /\ proc.pc = "loop"
  /\ proc.cur \in proc.existing
  /\ Onward
  /\ UNCHANGED <<status, files, statistics, runs, faults>>

AppendPrompt ==
  /\ Missing
  /\ prompts' = Logged(prompts, proc.cur)
  /\ proc' = [proc EXCEPT !.pc = "infer", !.attempt = 1]
  /\ UNCHANGED <<status, candidates, failures, statistics, runs, faults>>

RecordFailure == failures' = Logged(failures, proc.cur)

\* The model raised: recorded, and tried again while attempts remain.
InferenceFails ==
  /\ proc.pc = "infer"
  /\ RecordFailure
  /\ IF proc.attempt < MaxAttempts
     THEN proc' = [proc EXCEPT !.attempt = proc.attempt + 1]
     ELSE Onward
  /\ UNCHANGED <<status, candidates, prompts, statistics, runs, faults>>

\* empty_output or code_extraction: recorded and not retried.
Unusable ==
  /\ proc.pc = "infer"
  /\ RecordFailure
  /\ Onward
  /\ UNCHANGED <<status, candidates, prompts, statistics, runs, faults>>

ModelLoadFails ==
  /\ proc.pc = "infer"
  /\ Fault
  /\ RecordFailure
  /\ GoTo("aborting")
  /\ UNCHANGED <<status, candidates, prompts, statistics, runs>>

SaveCandidate ==
  /\ proc.pc = "infer"
  /\ \E c \in Codes :
       LET s == proc.cur
           q == ProblemOf[s]
           first == proc.index[q][c]
       IN  /\ candidates' = Appended(candidates, [slot |-> s, code |-> c, duplicate_of |-> first])
           /\ proc' = [proc EXCEPT !.pc = "loop",
                                   !.cur = s + 1,
                                   !.existing = proc.existing \cup {s},
                                   !.index[q][c] = IF first = 0 THEN s ELSE first]
  /\ UNCHANGED <<status, failures, prompts, statistics, runs, faults>>

\* What an append that does not finish leaves behind.
CutShort ==
  \/ UNCHANGED files
  \/ Missing /\ prompts' = Torn(prompts) /\ UNCHANGED <<candidates, failures>>
  \/ /\ proc.pc = "infer"
     /\ \/ candidates' = Torn(candidates) /\ UNCHANGED <<failures, prompts>>
        \/ failures' = Torn(failures) /\ UNCHANGED <<candidates, prompts>>

\* OSError out of an append: the disk is full.
DiskFails ==
  /\ Missing \/ proc.pc = "infer"
  /\ Fault
  /\ CutShort
  /\ GoTo("broken")
  /\ UNCHANGED <<status, statistics, runs>>

\* Ctrl-C inside generate(); an append under way is finished when its file is closed.
Interrupt ==
  /\ proc.pc \in {"loading", "loop", "infer"}
  /\ Fault
  /\ GoTo("interrupting")
  /\ UNCHANGED <<status, files, statistics, runs>>

\* SIGKILL, a power loss, SIGTERM, or an exception or Ctrl-C outside of _execute_run's try.
Kill ==
  /\ proc.pc # "idle"
  /\ Fault
  /\ CutShort
  /\ Leave
  /\ UNCHANGED <<status, statistics, runs>>

-----------------------------------------------------------------------------
(* _execute_run settles the status. *)

\* except KeyboardInterrupt, and except (CandidateStoreError, JsonlError, OSError).
StopRun ==
  /\ proc.pc \in {"interrupting", "broken"}
  /\ UpdateStatus(IF proc.pc = "broken" THEN "failed" ELSE "interrupted", "counting")
  /\ UNCHANGED <<files, statistics, runs, faults>>

\* except ModelLoadError: load_failures() comes first, and its error is not caught.
AbortRun ==
  /\ proc.pc = "aborting"
  /\ IF FailuresReadable THEN UpdateStatus("failed", "counting")
     ELSE Leave /\ UNCHANGED status
  /\ UNCHANGED <<files, statistics, runs, faults>>

Countable == CandidatesReadable /\ FailuresReadable

\* _write_statistics at the end of each of those handlers.
WriteStatisticsLate ==
  /\ proc.pc = "counting"
  /\ statistics' = IF Countable THEN FromRecords ELSE statistics
  /\ Leave
  /\ UNCHANGED <<status, files, runs, faults>>

\* Mutant: complete whenever generate() returns, and before the statistics are written.
SettleFirst ==
  /\ proc.pc = "loop"
  /\ proc.cur = Past
  /\ UpdateStatus("completed", "counting")
  /\ UNCHANGED <<files, statistics, runs, faults>>

\* _write_statistics after generate() returned; its errors leave the status "running".
WriteStatistics ==
  /\ proc.pc = "loop"
  /\ proc.cur = Past
  /\ IF Countable
     THEN /\ statistics' = FromRecords
          /\ proc' = [proc EXCEPT !.pc = "settling",
                                  !.complete = FromRecords.problems_completed
                                                    = Cardinality(Problems)]
     ELSE Leave /\ UNCHANGED statistics
  /\ UNCHANGED <<status, files, runs, faults>>

Settle ==
  /\ proc.pc = "settling"
  /\ LET s == IF proc.complete THEN "completed" ELSE "interrupted" IN
       status' = IF May(s) THEN s ELSE status
  /\ Leave
  /\ UNCHANGED <<files, statistics, runs, faults>>

\* `runs validate --repair`, on a run nobody is filling: candidates.jsonl, then
\* failures.jsonl; a file that does not exist ends the command.
Repair ==
  /\ proc.pc = "idle"
  /\ candidates.there
  /\ candidates' = Truncated(candidates)
  /\ failures' = IF failures.there THEN Truncated(failures) ELSE failures
  /\ UNCHANGED <<status, prompts, statistics, proc, runs, faults>>

Step ==
  \/ StartRun \/ LoadIndex \/ Skip \/ AppendPrompt
  \/ InferenceFails \/ Unusable \/ SaveCandidate
  \/ StopRun \/ AbortRun \/ WriteStatisticsLate \/ WriteStatistics \/ Settle

Trouble == ModelLoadFails \/ DiskFails \/ Interrupt \/ Kill

Next == Repair \/ Create \/ CheckResume \/ Step \/ Trouble

Spec == Init /\ [][Next]_vars

\* The process, when it is scheduled, goes on, a model that is asked answers, and an operator
\* resumes what can be resumed.
LiveSpec == Spec /\ WF_vars(Step) /\ WF_vars(CheckResume)
-----------------------------------------------------------------------------
(* Properties. *)

\* README: a pair that has a candidate is never generated again, whatever signals, errors, tears
\* and resumes came between.  A line that cannot be read is only ever a torn tail, which --repair
\* removes: no record is glued to a fragment, for every invocation reads the file first.
NeverTwice ==
  /\ \A i \in 1..Len(candidates.lines) : candidates.lines[i] # Broken
  /\ \A i, j \in 1..Len(candidates.lines) :
       candidates.lines[i].slot = candidates.lines[j].slot => i = j

\* Duplicate links survive resumes: a candidate is linked exactly when an earlier line of
\* the file has the same problem and code, and then to the earliest one, so that links
\* never chain.
LinksToEarliest ==
  CandidatesReadable =>
    \A i \in 1..Len(candidates.lines) :
      LET me == candidates.lines[i]
          same == {j \in 1..(i - 1) : /\ candidates.lines[j].code = me.code
                                      /\ ProblemOf[candidates.lines[j].slot] = ProblemOf[me.slot]}
      IN  IF same = {} THEN me.duplicate_of = 0
          ELSE \E j \in same : /\ \A k \in same : j <= k
                               /\ me.duplicate_of = candidates.lines[j].slot

\* A run that is interrupted, cannot load its model or finds no room on the disk is
\* completed by resuming it: only a kill or a torn file keeps it from completing.
Stranded == \/ proc.pc = "idle" /\ status = "running"
            \/ ~Countable

ResumingCompletes == status = "created" ~> status = "completed" \/ Stranded

\* The run directory is a RunDirectory: a pair that has a candidate or a recorded failure
\* keeps it over resumes and repairs, and only a run that owes nothing is completed.
Directory ==
  INSTANCE RunDirectory WITH
    Work     <- Slots,
    phase    <- IF status = "none" THEN "absent"
                ELSE IF status = "completed" THEN "settled" ELSE "open",
    recorded <- Slotted \cup Failed

IsDirectory == Directory!DirSpec

\* 04_CANDIDATE_PERSISTENCE.md: a run is restartable; when nobody is filling it, it is
\* completed or may be resumed.
Restartable == proc.pc = "idle" => status # "running"
=============================================================================

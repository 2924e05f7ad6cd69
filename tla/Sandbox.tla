------------------------------- MODULE Sandbox -------------------------------
(***************************************************************************)
(* One sandboxed job: SandboxExecutor.execute_job, the container it        *)
(* starts, the threads that read its output, and Docker.                   *)
(*                                                                         *)
(* job[p] is what the executor of process p knows, box[p] the container    *)
(* and what the readers kept of its output.  The container moves by        *)
(* itself; time is not counted, so that a deadline may pass at any moment. *)
(***************************************************************************)
EXTENDS Naturals, Sequences, FiniteSets

CONSTANTS
  Procs,      \* host processes, each with one job at a time
  Tests,      \* 1..n: the declared tests of a problem, in order
  Reports,    \* what a test may report: a status, or Silent
  Silent,     \* the candidate raised an exception that has no message
  None,       \* no exit code
  MaxFaults   \* bound: Docker failures, signals, kills and torn appends

TEST_CASE_STATUSES == {"passed", "failed", "error", "skipped"}

ASSUME TestsAssumption   == IsFiniteSet(Tests) /\ Tests # {} /\ Tests = 1..Cardinality(Tests)
ASSUME ReportsAssumption == Reports \subseteq TEST_CASE_STATUSES \cup {Silent}
ASSUME FaultsAssumption  == MaxFaults \in Nat

VARIABLES
  job,       \* job[p]: the executor
  box,       \* box[p]: the container
  leftover,  \* containers that nobody will remove any more
  faults

svars == <<job, box, leftover, faults>>

Docker125 == 125     \* docker run failed on its own terms
Killed    == 137

NoJob == [at |-> "none", exit |-> None, timedOut |-> FALSE, status |-> "none"]

\* What the stdout of a run says, as far as the parser tells it apart: what the tests that
\* ran reported, in order; a collection error; a tagged line that is not whole.
NoBox == [there |-> FALSE, running |-> FALSE, exit |-> None, oom |-> FALSE,
          said |-> <<>>, collect |-> "no", cut |-> FALSE, full |-> FALSE]

EXECUTION_STATUSES == {"success", "syntax_error", "runtime_error", "timeout",
                       "resource_exceeded", "infrastructure_error", "cancelled"}

Fault == faults < MaxFaults /\ faults' = faults + 1

SandboxInit ==
  /\ job = [p \in Procs |-> NoJob]
  /\ box = [p \in Procs |-> NoBox]
  /\ leftover = 0
  /\ faults = 0

-----------------------------------------------------------------------------
(* The executor. *)

\* sandbox.result.classify: infrastructure first, then limits, the deadline, the exit.
Classify(exit, compile, timedOut, oom, limit) ==
  IF exit = Docker125 THEN "infrastructure_error"
  ELSE IF oom \/ limit THEN "resource_exceeded"
  ELSE IF timedOut THEN "timeout"
  ELSE IF exit = None THEN "infrastructure_error"
  ELSE IF exit = 0 THEN "success"
  ELSE IF compile THEN "syntax_error" ELSE "runtime_error"

\* ExecutionResult.__post_init__ refuses a timed-out execution with another status.
\* ExecutionResultError is not a SandboxError: execute_job lets it out ("raised").
Result(status, timedOut) == IF timedOut /\ status # "timeout" THEN "raised" ELSE status

InFlight == {"waiting", "over", "removing"}

\* execute_job: a workspace with the files, and docker run.
StartContainer(p) ==
  /\ job[p].at = "ready"
  /\ job' = [job EXCEPT ![p].at = "waiting"]
  /\ box' = [box EXCEPT ![p] = [NoBox EXCEPT !.there = TRUE, !.running = TRUE]]
  /\ UNCHANGED <<leftover, faults>>

\* docker run cannot create the container and exits with 125.
DockerRefuses(p) ==
  /\ job[p].at = "ready"
  /\ Fault
  /\ job' = [job EXCEPT ![p].at = "waiting"]
  /\ box' = [box EXCEPT ![p] = [NoBox EXCEPT !.exit = Docker125]]
  /\ UNCHANGED leftover

\* No workspace, or no docker command: a SandboxError before there is a container.
CannotStart(p) ==
  /\ job[p].at = "ready"
  /\ Fault
  /\ job' = [job EXCEPT ![p].at = "done", ![p].status = "infrastructure_error"]
  /\ UNCHANGED <<box, leftover>>

\* _await_exit: the poll finds that the container has exited.
Exited(p) ==
  /\ job[p].at = "waiting"
  /\ ~box[p].running
  /\ job' = [job EXCEPT ![p].at = "over", ![p].exit = box[p].exit]
  /\ UNCHANGED <<box, leftover, faults>>

\* container.kill() and a last wait, which may find no exit code; a line that was being
\* written stays cut.
Terminate(p, timedOut) ==
  /\ \E exit \in {Killed, None}, cut \in {box[p].cut, Len(box[p].said) < Cardinality(Tests)} :
       /\ job' = [job EXCEPT ![p].at = "over", ![p].exit = exit, ![p].timedOut = timedOut]
       /\ box' = [box EXCEPT ![p].running = FALSE, ![p].exit = Killed, ![p].cut = cut]
  /\ UNCHANGED <<leftover, faults>>

\* Mutant: the deadline is never looked at.
ExpireNever(p) == FALSE /\ UNCHANGED svars

\* The deadline has passed, and no reader had seen the output limit.
Expire(p) ==
  /\ job[p].at = "waiting"
  /\ box[p].running
  /\ ~box[p].full
  /\ Terminate(p, TRUE)

\* A reader raised limit_reached.
Flooded(p) ==
  /\ job[p].at = "waiting"
  /\ box[p].running
  /\ box[p].full
  /\ Terminate(p, FALSE)

\* docker kill or docker inspect does not answer in time: DockerUnavailableError.
DockerHangs(p) ==
  /\ job[p].at \in {"waiting", "over"}
  /\ Fault
  /\ job' = [job EXCEPT ![p].at = "removing", ![p].status = "infrastructure_error"]
  /\ UNCHANGED <<box, leftover>>

\* inspect: what the container says of itself, or {} if it is not there.
Conclude(p) ==
  /\ job[p].at = "over"
  /\ \E compile \in BOOLEAN :
       LET j      == job[p]
           exit   == IF box[p].there /\ (j.timedOut \/ j.exit = None) THEN box[p].exit ELSE j.exit
           oom    == box[p].there /\ box[p].oom
           status == Classify(exit, compile, j.timedOut, oom, box[p].full)
       IN  job' = [job EXCEPT ![p].at = "removing", ![p].exit = exit,
                              ![p].status = Result(status, j.timedOut)]
  /\ UNCHANGED <<box, leftover, faults>>

\* Mutant: the container is removed only if there is a result.
RemoveIfFine(p) ==
  /\ job[p].at = "removing"
  /\ job' = [job EXCEPT ![p].at = "done"]
  /\ box' = [box EXCEPT ![p].there = job[p].status \in {"raised", "interrupted"},
                        ![p].running = FALSE]
  /\ UNCHANGED <<leftover, faults>>

\* The finally clause of _run: docker rm --force.
Remove(p) ==
  /\ job[p].at = "removing"
  /\ job' = [job EXCEPT ![p].at = "done"]
  /\ box' = [box EXCEPT ![p].there = FALSE, ![p].running = FALSE]
  /\ UNCHANGED <<leftover, faults>>

\* docker rm fails, which is ignored, or does not answer, which raises out of the finally
\* clause and replaces the result.
RemoveFails(p) ==
  /\ job[p].at = "removing"
  /\ box[p].there
  /\ Fault
  /\ \E status \in {job[p].status, "infrastructure_error"} :
       job' = [job EXCEPT ![p].at = "done", ![p].status = status]
  /\ box' = [box EXCEPT ![p].there = FALSE, ![p].running = FALSE]
  /\ leftover' = leftover + 1

\* KeyboardInterrupt: before there is a container; while it runs, where the finally clause
\* removes it; while docker rm is under way, which may be lost; or with the result in hand.
Signalled(p) ==
  \/ /\ job[p].at \in {"ready", "done"}
     /\ job' = [job EXCEPT ![p].at = "done", ![p].status = "interrupted"]
     /\ UNCHANGED <<box, leftover>>
  \/ /\ job[p].at \in {"waiting", "over"}
     /\ job' = [job EXCEPT ![p].at = "removing", ![p].status = "interrupted"]
     /\ UNCHANGED <<box, leftover>>
  \/ /\ job[p].at = "removing"
     /\ job' = [job EXCEPT ![p].at = "done", ![p].status = "interrupted"]
     /\ box' = [box EXCEPT ![p].there = FALSE, ![p].running = FALSE]
     /\ \E lost \in {0, IF box[p].there THEN 1 ELSE 0} : leftover' = leftover + lost

\* The process dies: nobody removes its container.
Abandoned(p) ==
  /\ leftover' = leftover + IF box[p].there THEN 1 ELSE 0
  /\ job' = [job EXCEPT ![p] = NoJob]
  /\ box' = [box EXCEPT ![p] = NoBox]

-----------------------------------------------------------------------------
(* The container. *)

Moves(p) == box[p].running /\ UNCHANGED <<job, leftover, faults>>

\* pytest_runtest_makereport prints one tagged line for the next test.
Say(p) ==
  /\ Moves(p)
  /\ ~box[p].full
  /\ box[p].collect = "no"
  /\ Len(box[p].said) < Cardinality(Tests)
  /\ \E r \in Reports : box' = [box EXCEPT ![p].said = Append(@, r)]

\* pytest_collectreport: candidate.py does not even import.
CollectFails(p) ==
  /\ Moves(p)
  /\ ~box[p].full
  /\ box[p].collect = "no"
  /\ box[p].said = <<>>
  /\ \E kind \in {"syntax", "other"} : box' = [box EXCEPT ![p].collect = kind]

\* A BoundedReader reaches its limit, while the container runs or in what is left in the
\* pipe: it keeps a prefix, and the line it was reading may be a tagged one.
Fill(p) ==
  /\ job[p].at \in {"waiting", "over"}
  /\ box[p].there
  /\ ~box[p].full
  /\ \E cut \in BOOLEAN, kept \in 0..Len(box[p].said) :
       box' = [box EXCEPT ![p].full = TRUE, ![p].cut = cut, ![p].said = SubSeq(@, 1, kept)]
  /\ UNCHANGED <<job, leftover, faults>>

\* The kernel kills a process of the container, perhaps not the first one.
OutOfMemory(p) ==
  /\ Moves(p)
  /\ ~box[p].oom
  /\ \E alive \in BOOLEAN :
       box' = [box EXCEPT ![p].oom = TRUE, ![p].running = alive,
                          ![p].exit = IF alive THEN None ELSE Killed]

\* The program ends, with an exit code of its own choice.
Finish(p) ==
  /\ Moves(p)
  /\ \E code \in {0, 1, Docker125} :
       box' = [box EXCEPT ![p].running = FALSE, ![p].exit = code]

Container(p) == Say(p) \/ CollectFails(p) \/ Fill(p) \/ OutOfMemory(p) \/ Finish(p)

Executor(p) == StartContainer(p) \/ Exited(p) \/ Expire(p) \/ Flooded(p) \/ Conclude(p) \/ Remove(p)

DockerFails(p) == DockerRefuses(p) \/ CannotStart(p) \/ DockerHangs(p) \/ RemoveFails(p)

=============================================================================

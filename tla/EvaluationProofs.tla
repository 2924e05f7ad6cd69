--------------------------- MODULE EvaluationProofs ---------------------------
(***************************************************************************)
(* An evaluation run that one process fills at a time records one outcome  *)
(* of each candidate and implements RunDirectory: for any number of        *)
(* candidates and of faults, whatever the programs in the containers do.   *)
(*                                                                         *)
(* existing was read when the process began.  It stays a faithful account  *)
(* of the disk because of what the loop has passed since: what is recorded *)
(* is what existed or is behind cur.                                       *)
(*                                                                         *)
(* The parts behind that are about the sandbox, with any number of         *)
(* processes: containers, and verdicts; and about the details of results,  *)
(* again with one process.                                                 *)
(***************************************************************************)
EXTENDS Evaluation, CommonLemmas

\* The next process takes the run up only when the one before has left.
OneAtATime == \E p : Procs = {p}

Fields == {"pc", "existing", "cur", "result"}

\* What a process knows, where S is the status and E the candidates with an outcome.
Behind(w, c, E) ==
  /\ w.cur \in Nat
  /\ w.existing \subseteq E
  /\ E \subseteq w.existing \cup 1..c
  /\ 1..c \subseteq E

Aware(w, S, E) ==
  /\ Fields \subseteq DOMAIN w
  /\ w.pc # "idle" => S \in {"created", "running", "interrupted"}
  /\ w.pc \in {"loop", "job", "saving"} => Behind(w, w.cur - 1, E)
  /\ w.pc \in {"job", "saving"} => w.cur \in Candidates \ E
  /\ w.pc = "saving" => w.result.cand = w.cur
  /\ w.pc = "detailing" => Behind(w, w.cur, E)
  /\ w.pc = "settling" => E = Candidates

FilesTyped ==
  /\ results \in Seq(Range(results)) /\ failures \in Seq(Range(failures))
  /\ EvaluatedKeys \subseteq Candidates
  /\ status \in {"none", "created", "running", "interrupted", "completed"}
  /\ proc = [p \in Procs |-> proc[p]]

IInv ==
  /\ FilesTyped
  /\ OneOutcomeEach
  /\ \A p \in Procs : Aware(proc[p], status, EvaluatedKeys)

---------------------------------------------------------------------------

LEMMA CandidateNumbers ==
  /\ Cardinality(Candidates) \in Nat
  /\ Candidates = 1..Cardinality(Candidates)
  /\ Past = Cardinality(Candidates) + 1
BY CandidatesAssumption, FS_CardinalityType DEF Past

\* An outcome of a candidate that has none.
LEMMA NewResult ==
  ASSUME IInv, NEW r, r.cand \in Candidates \ EvaluatedKeys,
         results' = Append(results, r), UNCHANGED failures
  PROVE  /\ results' \in Seq(Range(results')) /\ failures' \in Seq(Range(failures'))
         /\ EvaluatedKeys' = EvaluatedKeys \cup {r.cand}
         /\ OneOutcomeEach'
<1>1. /\ results' \in Seq(Range(results'))
      /\ DOMAIN results \subseteq DOMAIN results'
      /\ \A i \in DOMAIN results : results'[i] = results[i]
  BY AppendKeeps DEF IInv, FilesTyped
<1>2. \E n \in DOMAIN results' :
        results'[n] = r /\ \A i \in DOMAIN results' : i # n => i \in DOMAIN results
  BY AppendKeeps DEF IInv, FilesTyped
<1>3. QED BY <1>1, <1>2 DEF IInv, FilesTyped, EvaluatedKeys, OneOutcomeEach

LEMMA NewFailure ==
  ASSUME IInv, NEW c \in Candidates \ EvaluatedKeys,
         failures' = Append(failures, c), UNCHANGED results
  PROVE  /\ results' \in Seq(Range(results')) /\ failures' \in Seq(Range(failures'))
         /\ EvaluatedKeys' = EvaluatedKeys \cup {c}
         /\ OneOutcomeEach'
<1>1. /\ failures' \in Seq(Range(failures'))
      /\ DOMAIN failures \subseteq DOMAIN failures'
      /\ \A i \in DOMAIN failures : failures'[i] = failures[i]
  BY AppendKeeps DEF IInv, FilesTyped
<1>2. \E n \in DOMAIN failures' :
        failures'[n] = c /\ \A i \in DOMAIN failures' : i # n => i \in DOMAIN failures
  BY AppendKeeps DEF IInv, FilesTyped
<1>3. QED BY <1>1, <1>2 DEF IInv, FilesTyped, EvaluatedKeys, OneOutcomeEach

---------------------------------------------------------------------------
(* Steps, and what each is to RunDirectory. *)

Phase == IF status = "none" THEN "absent" ELSE IF status = "completed" THEN "settled" ELSE "open"

Opens   == Phase = "absent" /\ Phase' = "open" /\ UNCHANGED EvaluatedKeys
Records == /\ Phase = "open" /\ Phase' = "open"
           /\ \E c \in Candidates \ EvaluatedKeys : EvaluatedKeys' = EvaluatedKeys \cup {c}
Settles == /\ Phase = "open" /\ Phase' = "settled"
           /\ EvaluatedKeys = Candidates /\ UNCHANGED EvaluatedKeys

Kind == UNCHANGED <<Phase, EvaluatedKeys>> \/ Opens \/ Records \/ Settles

\* A step that records nothing.
LEMMA NothingNew ==
  ASSUME OneAtATime, IInv, UNCHANGED <<results, failures>>, NEW p \in Procs, NEW w,
         proc' = [proc EXCEPT ![p] = w],
         status' \in {"created", "running", "interrupted", "completed"},
         Aware(w, status', EvaluatedKeys)
  PROVE  IInv' /\ UNCHANGED EvaluatedKeys
<1>1. EvaluatedKeys' = EvaluatedKeys /\ OneOutcomeEach'
  BY DEF IInv, EvaluatedKeys, OneOutcomeEach
<1>2. FilesTyped'
  BY <1>1 DEF IInv, FilesTyped
<1>3. \A q \in Procs : q = p /\ proc'[q] = w
  BY DEF IInv, FilesTyped, OneAtATime
<1>4. ASSUME NEW q \in Procs PROVE Aware(proc[q], status, EvaluatedKeys)'
  BY <1>1, <1>3 DEF Aware, Behind
<1>5. QED BY <1>1, <1>2, <1>4 DEF IInv

\* One that leaves the status as it is, too.
LEMMA Quiet ==
  ASSUME OneAtATime, IInv, UNCHANGED <<results, failures, status>>, NEW p \in Procs,
         proc[p].pc # "idle", NEW w, proc' = [proc EXCEPT ![p] = w],
         Aware(w, status, EvaluatedKeys)
  PROVE  IInv' /\ Kind
<1>1. status \in {"created", "running", "interrupted"}
  BY DEF IInv, Aware
<1>2. IInv' /\ UNCHANGED EvaluatedKeys
  BY <1>1, NothingNew
<1>3. QED BY <1>2 DEF Kind, Phase

LEMMA Leaves ==
  ASSUME OneAtATime, IInv, UNCHANGED <<results, failures, status>>, NEW p \in Procs,
         proc[p].pc # "idle", Leave(p)
  PROVE  IInv' /\ Kind
<1>1. Aware(Idle, status, EvaluatedKeys)
  BY DEF Idle, Aware, Fields
<1>2. QED BY <1>1, Quiet DEF Leave

\* One that turns to something for which only the status matters.
LEMMA GoesOn ==
  ASSUME OneAtATime, IInv, UNCHANGED <<results, failures, status>>, NEW p \in Procs,
         proc[p].pc # "idle", NEW pc \in {"loading", "stopping", "counting"}, GoTo(p, pc)
  PROVE  IInv' /\ Kind
<1> DEFINE w == [proc[p] EXCEPT !.pc = pc]
<1>1. Aware(proc[p], status, EvaluatedKeys)
  BY DEF IInv
<1>2. Aware(w, status, EvaluatedKeys)
  BY <1>1 DEF Aware, Fields
<1>3. QED BY <1>2, Quiet DEF GoTo

\* A change of status, or the exception it raises.
LEMMA StatusStep ==
  ASSUME OneAtATime, IInv, UNCHANGED <<results, failures>>, NEW p \in Procs,
         proc[p].pc # "idle", NEW s, NEW pc, UpdateStatus(p, s, pc),
         \/ s \in {"running", "interrupted"} /\ pc \in {"loading", "counting", "idle"}
         \/ s = "completed" /\ pc = "idle" /\ EvaluatedKeys = Candidates
  PROVE  IInv' /\ Kind
<1> DEFINE w == [proc[p] EXCEPT !.pc = pc]
<1>1. Aware(proc[p], status, EvaluatedKeys) /\ status \in {"created", "running", "interrupted"}
  BY DEF IInv, Aware
<1>2. CASE status' = s /\ GoTo(p, pc)
  <2>1. Aware(w, s, EvaluatedKeys)
    BY <1>1 DEF Aware, Fields
  <2>2. IInv' /\ UNCHANGED EvaluatedKeys
    BY <1>2, <2>1, NothingNew DEF GoTo
  <2>3. QED BY <1>1, <1>2, <2>2 DEF Kind, Phase, Settles
<1>3. CASE Derail(p) /\ UNCHANGED status
  BY <1>3, Leaves DEF Derail
<1>4. QED BY <1>2, <1>3 DEF UpdateStatus

\* The candidate at hand gets its outcome.
LEMMA Recorded ==
  ASSUME OneAtATime, IInv, NEW p \in Procs, proc[p].cur \in Candidates \ EvaluatedKeys,
         Behind(proc[p], proc[p].cur - 1, EvaluatedKeys), proc[p].pc # "idle",
         EvaluatedKeys' = EvaluatedKeys \cup {proc[p].cur}, UNCHANGED status,
         results' \in Seq(Range(results')), failures' \in Seq(Range(failures')), OneOutcomeEach',
         Onward(p) \/ GoTo(p, "detailing")
  PROVE  IInv' /\ Kind
<1> DEFINE c == proc[p].cur
<1>1. Aware(proc[p], status, EvaluatedKeys) /\ status \in {"created", "running", "interrupted"}
  BY DEF IInv, Aware
<1>2. /\ proc[p].existing \subseteq EvaluatedKeys' /\ c \in Nat
      /\ EvaluatedKeys' \subseteq proc[p].existing \cup 1..c
      /\ 1..c \subseteq EvaluatedKeys'
  BY CandidateNumbers DEF Behind
<1>3. Aware(proc'[p], status', EvaluatedKeys')
  <2>1. CASE Onward(p)
    <3>1. /\ Fields \subseteq DOMAIN proc'[p] /\ proc'[p].pc = "loop" /\ proc'[p].cur = c + 1
          /\ proc'[p].existing = proc[p].existing
      BY <1>1, <2>1 DEF Onward, IInv, FilesTyped, Aware, Fields
    <3>2. QED BY <1>1, <1>2, <3>1 DEF Aware, Behind
  <2>2. CASE GoTo(p, "detailing")
    <3>1. /\ Fields \subseteq DOMAIN proc'[p] /\ proc'[p].pc = "detailing" /\ proc'[p].cur = c
          /\ proc'[p].existing = proc[p].existing
      BY <1>1, <2>2 DEF GoTo, IInv, FilesTyped, Aware, Fields
    <3>2. QED BY <1>1, <1>2, <3>1 DEF Aware, Behind
  <2>3. QED BY <2>1, <2>2
<1>4. \A q \in Procs : q = p
  BY DEF OneAtATime
<1>5. FilesTyped'
  BY DEF IInv, FilesTyped, Onward, GoTo
<1>6. ASSUME NEW q \in Procs PROVE Aware(proc[q], status, EvaluatedKeys)'
  BY <1>3, <1>4 DEF Aware, Behind
<1>7. Kind
  BY <1>1 DEF Kind, Records, Phase
<1>8. QED BY <1>5, <1>6, <1>7 DEF IInv

LEMMA InvStep ==
  ASSUME OneAtATime, IInv, [Next]_vars
  PROVE  IInv' /\ Kind
<1> DEFINE Goal == IInv' /\ Kind
<1>0. \A p \in Procs : Aware(proc[p], status, EvaluatedKeys)
  BY DEF IInv
<1>1. ASSUME UNCHANGED <<results, failures, status, proc>> PROVE Goal
  BY <1>1 DEF IInv, FilesTyped, EvaluatedKeys, OneOutcomeEach, Aware, Behind, Kind, Phase
\* An invocation begins.
<1>2. ASSUME NEW p \in Procs, Invoke(p), UNCHANGED <<results, failures>>,
             status' \in {"created", "running", "interrupted"},
             (status = "none" /\ status' = "created") \/ UNCHANGED status
      PROVE  Goal
  <2> DEFINE w == [proc[p] EXCEPT !.pc = "starting"]
  <2>1. Aware(w, status', EvaluatedKeys)
    BY <1>0, <1>2 DEF Aware, Fields
  <2>2. IInv' /\ UNCHANGED EvaluatedKeys
    BY <1>2, <2>1, NothingNew DEF Invoke, GoTo
  <2>3. QED BY <1>2, <2>2 DEF Kind, Opens, Phase
<1>3. ASSUME NEW p \in Procs, Create(p) PROVE Goal
  BY <1>2, <1>3 DEF Create, files
<1>4. ASSUME NEW p \in Procs, TakeUp(p) PROVE Goal
  BY <1>2, <1>4 DEF TakeUp, files, IInv, FilesTyped
<1>5. ASSUME NEW p \in Procs, StartRun(p) PROVE Goal
  BY <1>5, StatusStep DEF StartRun, At, files
<1>6. ASSUME NEW p \in Procs, LoadKeys(p) PROVE Goal
  <2> DEFINE w == [proc[p] EXCEPT !.pc = "loop", !.existing = EvaluatedKeys, !.cur = 1]
  <2>1. Aware(w, status, EvaluatedKeys)
    <3>1. /\ Fields \subseteq DOMAIN w /\ w.pc = "loop" /\ w.cur = 1 /\ w.existing = EvaluatedKeys
      BY <1>0 DEF Aware, Fields
    <3>2. QED BY <1>0, <1>6, <3>1 DEF Aware, Behind, LoadKeys, At
  <2>2. CASE proc' = [proc EXCEPT ![p] = w]
    BY <1>6, <2>1, <2>2, Quiet DEF LoadKeys, At, files
  <2>3. CASE Derail(p)
    BY <1>6, <2>3, Leaves DEF LoadKeys, At, files, Derail
  <2>4. QED BY <1>6, <2>2, <2>3 DEF LoadKeys
<1>7. ASSUME NEW p \in Procs, Skip(p) PROVE Goal
  <2> DEFINE w == [proc[p] EXCEPT !.pc = "loop", !.cur = @ + 1, !.result = <<>>]
  <2>1. /\ Fields \subseteq DOMAIN w /\ w.pc = "loop" /\ w.cur = proc[p].cur + 1
        /\ w.existing = proc[p].existing
    BY <1>0 DEF Aware, Fields
  <2>2. Aware(w, status, EvaluatedKeys)
    BY <1>0, <1>7, <2>1, CandidateNumbers DEF Aware, Behind, Skip, At, IInv, FilesTyped
  <2>3. QED BY <1>7, <2>2, Quiet DEF Skip, Onward, At, files
\* What is at hand has no outcome.
<1>8. ASSUME NEW p \in Procs, Due(p)
      PROVE  /\ proc[p].cur \in Candidates \ EvaluatedKeys
             /\ Behind(proc[p], proc[p].cur - 1, EvaluatedKeys)
  BY <1>0, <1>8, CandidateNumbers DEF Aware, Behind, Due, At
<1>9. ASSUME NEW p \in Procs, BeginJob(p) PROVE Goal
  <2> DEFINE w == [proc[p] EXCEPT !.pc = "job"]
  <2>1. /\ Fields \subseteq DOMAIN w /\ w.pc = "job" /\ w.cur = proc[p].cur
        /\ w.existing = proc[p].existing
    BY <1>0 DEF Aware, Fields
  <2>2. Aware(w, status, EvaluatedKeys)
    BY <1>0, <1>8, <1>9, <2>1 DEF Aware, Behind, BeginJob, Due, At
  <2>3. QED BY <1>9, <2>2, Quiet DEF BeginJob, Due, GoTo, At, files
<1>10. ASSUME NEW p \in Procs, RecordFailure(p) PROVE Goal
  <2>1. /\ EvaluatedKeys' = EvaluatedKeys \cup {proc[p].cur} /\ OneOutcomeEach'
        /\ results' \in Seq(Range(results')) /\ failures' \in Seq(Range(failures'))
    BY <1>8, <1>10, NewFailure DEF RecordFailure
  <2>2. QED BY <1>8, <1>10, <2>1, Recorded DEF RecordFailure, Due, At
<1>11. ASSUME NEW p \in Procs, Judge(p) PROVE Goal
  <2> DEFINE r == Judged(proc[p].cur, job[p], box[p])
             w == [proc[p] EXCEPT !.pc = "saving", !.result = r]
  <2>1. proc[p].pc = "job" /\ UNCHANGED <<results, failures, status>>
    BY <1>11 DEF Judge, At, files
  <2>2. /\ Fields \subseteq DOMAIN w /\ w.pc = "saving" /\ w.cur = proc[p].cur
        /\ w.existing = proc[p].existing /\ w.result = r
    BY <1>0 DEF Aware, Fields
  <2>3. r.cand = proc[p].cur
    BY DEF Judged
  <2>4. Aware(w, status, EvaluatedKeys)
    BY <1>0, <2>1, <2>2, <2>3 DEF Aware, Behind
  <2>5. CASE GoTo(p, "stopping")
    BY <2>1, <2>5, GoesOn
  <2>6. CASE Derail(p)
    BY <2>1, <2>6, Leaves DEF Derail
  <2>7. CASE proc' = [proc EXCEPT ![p] = w]
    BY <2>1, <2>4, <2>7, Quiet
  <2>8. QED BY <1>11, <2>5, <2>6, <2>7 DEF Judge
<1>12. ASSUME NEW p \in Procs, SaveResult(p) PROVE Goal
  <2>1. /\ proc[p].pc = "saving" /\ proc[p].result.cand = proc[p].cur
        /\ proc[p].cur \in Candidates \ EvaluatedKeys
        /\ Behind(proc[p], proc[p].cur - 1, EvaluatedKeys)
    BY <1>0, <1>12 DEF SaveResult, At, Aware
  <2>2. /\ EvaluatedKeys' = EvaluatedKeys \cup {proc[p].cur} /\ OneOutcomeEach'
        /\ results' \in Seq(Range(results')) /\ failures' \in Seq(Range(failures'))
    BY <1>12, <2>1, NewResult DEF SaveResult
  <2>3. QED BY <1>12, <2>1, <2>2, Recorded DEF SaveResult
<1>13. ASSUME NEW p \in Procs, SaveTest(p) PROVE Goal
  <2>1. /\ proc[p].pc = "detailing" /\ Behind(proc[p], proc[p].cur, EvaluatedKeys)
        /\ UNCHANGED <<results, failures, status>>
    BY <1>0, <1>13 DEF SaveTest, At, Aware
  <2>2. CASE Onward(p)
    <3> DEFINE w == [proc[p] EXCEPT !.pc = "loop", !.cur = @ + 1, !.result = <<>>]
    <3>1. /\ Fields \subseteq DOMAIN w /\ w.pc = "loop" /\ w.cur = proc[p].cur + 1
          /\ w.existing = proc[p].existing
      BY <1>0 DEF Aware, Fields
    <3>2. Aware(w, status, EvaluatedKeys)
      BY <1>0, <2>1, <3>1 DEF Aware, Behind
    <3>3. QED BY <2>1, <2>2, <3>2, Quiet DEF Onward
  <2>3. CASE proc' = [proc EXCEPT ![p].result.tests = Tail(@)]
    <3> DEFINE w == [proc[p] EXCEPT !.result.tests = Tail(@)]
    <3>1. /\ Fields \subseteq DOMAIN w /\ w.pc = "detailing" /\ w.cur = proc[p].cur
          /\ w.existing = proc[p].existing
      BY <1>0, <2>1 DEF Aware, Fields
    <3>2. Aware(w, status, EvaluatedKeys)
      BY <1>0, <2>1, <3>1 DEF Aware, Behind
    <3>3. QED BY <2>1, <2>3, <3>2, Quiet
  <2>4. QED BY <1>13, <2>2, <2>3 DEF SaveTest
<1>14. ASSUME NEW p \in Procs, WriteStatistics(p) PROVE Goal
  <2>1. proc[p].pc # "idle" /\ UNCHANGED <<results, failures, status>>
    BY <1>14 DEF WriteStatistics, At, files
  <2>2. CASE Leave(p)
    BY <2>1, <2>2, Leaves
  <2>3. CASE Derail(p)
    BY <2>1, <2>3, Leaves DEF Derail
  <2>4. CASE At(p, "loop") /\ proc[p].cur = Past /\ GoTo(p, "settling")
    <3> DEFINE w == [proc[p] EXCEPT !.pc = "settling"]
    <3>1. Fields \subseteq DOMAIN w /\ w.pc = "settling"
      BY <1>0 DEF Aware, Fields
    <3>2. EvaluatedKeys = Candidates
      <4>1. proc[p].cur - 1 = Cardinality(Candidates)
        BY <2>4, CandidateNumbers
      <4>2. 1..(proc[p].cur - 1) \subseteq EvaluatedKeys
        BY <1>0, <2>4 DEF Aware, Behind, At
      <4>3. QED BY <4>1, <4>2, CandidateNumbers DEF IInv, FilesTyped
    <3>3. Aware(w, status, EvaluatedKeys)
      BY <1>0, <2>1, <3>1, <3>2 DEF Aware
    <3>4. QED BY <2>1, <2>4, <3>3, Quiet DEF GoTo
  <2>5. QED BY <1>14, <2>2, <2>3, <2>4 DEF WriteStatistics, At
<1>15. ASSUME NEW p \in Procs, Settle(p) PROVE Goal
  <2>1. proc[p].pc = "settling" /\ EvaluatedKeys = Candidates /\ UNCHANGED <<results, failures>>
    BY <1>0, <1>15 DEF Settle, At, Aware, files
  <2>2. UpdateStatus(p, "completed", "idle") \/ UpdateStatus(p, "interrupted", "idle")
    BY <1>15 DEF Settle
  <2>3. QED BY <2>1, <2>2, StatusStep
<1>16. ASSUME NEW p \in Procs, InterruptRun(p) PROVE Goal
  BY <1>16, StatusStep DEF InterruptRun, At, files
<1>17. ASSUME NEW p \in Procs, Interrupt(p) PROVE Goal
  <2>1. CASE UNCHANGED proc
    BY <1>1, <1>17, <2>1 DEF Interrupt, files
  <2>2. CASE GoTo(p, "stopping")
    BY <1>17, <2>2, GoesOn DEF Interrupt, files
  <2>3. QED BY <1>17, <2>1, <2>2 DEF Interrupt
<1>18. ASSUME NEW p \in Procs, Die(p) PROVE Goal
  BY <1>18, Leaves DEF Die, At
<1>19. ASSUME NEW p \in Procs, Evaluate(p) PROVE Goal
  BY <1>1, <1>5, <1>6, <1>7, <1>9, <1>10, <1>11, <1>12, <1>13, <1>14, <1>15, <1>16, <1>19
  DEF Evaluate, InSandbox, files
<1>20. ASSUME NEW p \in Procs, Surroundings(p) PROVE Goal
  BY <1>1, <1>17, <1>18, <1>20 DEF Surroundings, InSandbox, files
<1>21. CASE UNCHANGED vars
  BY <1>1, <1>21 DEF vars, files
<1>22. QED BY <1>3, <1>4, <1>19, <1>20, <1>21 DEF Next

---------------------------------------------------------------------------
(* The theorems. *)

LEMMA InitialInv == Init => IInv /\ EvaluatedKeys = {} /\ status = "none"
<1> SUFFICES ASSUME Init PROVE IInv /\ EvaluatedKeys = {} /\ status = "none"
  OBVIOUS
<1>1. EvaluatedKeys = {} /\ OneOutcomeEach
  BY DEF Init, EvaluatedKeys, OneOutcomeEach
<1>2. <<>> \in Seq(Range(<<>>))
  BY EmptySeq
<1>3. FilesTyped
  BY <1>1, <1>2 DEF Init, FilesTyped
<1>4. \A p \in Procs : Aware(proc[p], status, EvaluatedKeys)
  BY DEF Init, Idle, Aware, Fields
<1>5. QED BY <1>1, <1>3, <1>4 DEF IInv, Init

\* evaluation/repository.py: a candidate that has an outcome is settled.  However many
\* candidates and faults there are, and whatever their programs do, none gets a second outcome.
THEOREM OutcomesStaySingle ==
  ASSUME OneAtATime
  PROVE  Spec => []OneOutcomeEach
<1>1. Init => IInv
  BY InitialInv
<1>2. IInv /\ [Next]_vars => IInv'
  BY InvStep
<1>3. IInv => OneOutcomeEach
  BY DEF IInv
<1>4. QED BY <1>1, <1>2, <1>3, PTL DEF Spec

\* The evaluation run implements the run directory: outcomes are recorded one at a time, once
\* and for all, and the run is settled when every candidate has one, and then left alone.
THEOREM EvaluationIsDirectory ==
  ASSUME OneAtATime
  PROVE  Spec => IsDirectory
<1>1. Init => IInv /\ Directory!DirInit
  BY InitialInv DEF Directory!DirInit
<1>2. IInv /\ [Next]_vars => IInv' /\ [Directory!DirNext]_Directory!dvars
  <2> SUFFICES ASSUME IInv, [Next]_vars PROVE IInv' /\ [Directory!DirNext]_Directory!dvars
    OBVIOUS
  <2>1. IInv' /\ Kind
    BY InvStep
  <2>2. [Directory!DirNext]_Directory!dvars
    BY <2>1 DEF Kind, Opens, Records, Settles, Phase, Directory!DirNext, Directory!Open,
                Directory!Record, Directory!SettleRun, Directory!dvars
  <2>3. QED BY <2>1, <2>2
<1>3. QED BY <1>1, <1>2, PTL DEF Spec, IsDirectory, Directory!DirSpec


-----------------------------------------------------------------------------
(* Containers, whoever runs them: here processes may be many. *)

Exits == Nat \cup {None}

Jobs ==
  [at : InFlight \cup {"none", "ready", "done"}, exit : Exits, timedOut : BOOLEAN,
   status : EXECUTION_STATUSES \cup {"none", "raised", "interrupted"}]

Boxes ==
  [there : BOOLEAN, running : BOOLEAN, exit : Exits, oom : BOOLEAN, said : Seq(Reports),
   collect : {"no", "syntax", "other"}, cut : BOOLEAN, full : BOOLEAN]

SandboxTyped ==
  /\ job \in [Procs -> Jobs] /\ box \in [Procs -> Boxes]
  /\ leftover \in Nat /\ faults \in Nat

SandboxInv == SandboxTyped /\ NoOrphans

LEMMA NoJobTyped == NoJob \in Jobs /\ NoBox \in Boxes /\ ~NoBox.there
<1>1. <<>> \in Seq(Reports)
  BY EmptySeq
<1>2. QED BY <1>1 DEF NoJob, NoBox, Jobs, Boxes, Exits

\* A process's job and container change; no container is left behind.
LEMMA SandboxWrite ==
  ASSUME SandboxInv, NEW p \in Procs, NEW j \in Jobs, NEW b \in Boxes,
         job' = [job EXCEPT ![p] = j], box' = [box EXCEPT ![p] = b],
         b.there => j.at \in InFlight, leftover' \in {leftover, leftover + 1},
         faults' \in {faults, faults + 1}, leftover' # leftover => faults' = faults + 1
  PROVE  SandboxInv'
<1>1. /\ job' \in [Procs -> Jobs] /\ box' \in [Procs -> Boxes]
      /\ \A q \in Procs : job'[q] = (IF q = p THEN j ELSE job[q])
                          /\ box'[q] = (IF q = p THEN b ELSE box[q])
  BY DEF SandboxInv, SandboxTyped
<1>2. leftover' \in Nat /\ faults' \in Nat /\ leftover' <= faults'
  BY DEF SandboxInv, SandboxTyped, NoOrphans
<1>3. QED BY <1>1, <1>2 DEF SandboxInv, SandboxTyped, NoOrphans

\* Only the executor's knowledge changes, and a container stays in flight.
LEMMA JobWrite ==
  ASSUME SandboxInv, NEW p \in Procs, NEW j \in Jobs, job' = [job EXCEPT ![p] = j],
         UNCHANGED <<box, leftover>>, faults' \in {faults, faults + 1},
         box[p].there => j.at \in InFlight
  PROVE  SandboxInv'
<1>1. box[p] \in Boxes /\ box' = [box EXCEPT ![p] = box[p]]
  BY DEF SandboxInv, SandboxTyped
<1>2. leftover' = leftover
  BY DEF SandboxInv, SandboxTyped
<1>3. QED BY <1>1, <1>2, SandboxWrite

\* Only the container changes; none appears.
LEMMA BoxWrite ==
  ASSUME SandboxInv, NEW p \in Procs, NEW b \in Boxes, box' = [box EXCEPT ![p] = b],
         UNCHANGED <<job, leftover, faults>>, b.there => box[p].there
  PROVE  SandboxInv'
<1>1. job[p] \in Jobs /\ job' = [job EXCEPT ![p] = job[p]]
  BY DEF SandboxInv, SandboxTyped
<1>2. leftover' = leftover
  BY DEF SandboxInv, SandboxTyped
<1>3. b.there => job[p].at \in InFlight
  BY DEF SandboxInv, NoOrphans
<1>4. QED BY <1>1, <1>2, <1>3, SandboxWrite

LEMMA ExecutorStep ==
  ASSUME SandboxInv, NEW p \in Procs, Executor(p) \/ DockerFails(p)
  PROVE  SandboxInv'
<1>0. /\ job[p] \in Jobs /\ box[p] \in Boxes /\ leftover \in Nat /\ faults \in Nat
      /\ box[p].there => job[p].at \in InFlight
  BY DEF SandboxInv, SandboxTyped, NoOrphans
<1> DEFINE gone == [box[p] EXCEPT !.there = FALSE, !.running = FALSE]
<1>1. gone \in Boxes /\ ~gone.there
  BY <1>0 DEF Boxes
<1>2. CASE StartContainer(p)
  <2> DEFINE j == [job[p] EXCEPT !.at = "waiting"]
             b == [NoBox EXCEPT !.there = TRUE, !.running = TRUE]
  <2>1. j \in Jobs /\ j.at \in InFlight /\ b \in Boxes
    BY <1>0, NoJobTyped DEF Jobs, Boxes, InFlight
  <2>2. leftover' = leftover
    BY <1>0, <1>2 DEF StartContainer
  <2>3. QED BY <1>2, <2>1, <2>2, SandboxWrite DEF StartContainer
<1>3. CASE DockerRefuses(p)
  <2> DEFINE j == [job[p] EXCEPT !.at = "waiting"]
             b == [NoBox EXCEPT !.exit = Docker125]
  <2>1. j \in Jobs /\ j.at \in InFlight /\ b \in Boxes
    BY <1>0, NoJobTyped DEF Jobs, Boxes, InFlight, Exits, Docker125
  <2>2. leftover' = leftover
    BY <1>0, <1>3 DEF DockerRefuses
  <2>3. QED BY <1>3, <2>1, <2>2, SandboxWrite DEF DockerRefuses, Fault
<1>4. CASE CannotStart(p)
  <2> DEFINE j == [job[p] EXCEPT !.at = "done", !.status = "infrastructure_error"]
  <2>1. j \in Jobs /\ ~box[p].there
    BY <1>0, <1>4 DEF Jobs, CannotStart, InFlight, EXECUTION_STATUSES
  <2>2. QED BY <1>4, <2>1, JobWrite DEF CannotStart, Fault
<1>5. CASE Exited(p)
  <2> DEFINE j == [job[p] EXCEPT !.at = "over", !.exit = box[p].exit]
  <2>1. j \in Jobs /\ j.at \in InFlight
    BY <1>0 DEF Jobs, Boxes, InFlight
  <2>2. QED BY <1>5, <2>1, JobWrite DEF Exited
<1>6. ASSUME NEW timedOut \in BOOLEAN, Terminate(p, timedOut), job[p].at = "waiting"
      PROVE  SandboxInv'
  <2>1. PICK exit \in {Killed, None}, cut \in {box[p].cut, Len(box[p].said) < Cardinality(Tests)} :
          /\ job' = [job EXCEPT ![p] = [job[p] EXCEPT !.at = "over", !.exit = exit,
                                                     !.timedOut = timedOut]]
          /\ box' = [box EXCEPT ![p] = [box[p] EXCEPT !.running = FALSE, !.exit = Killed,
                                                     !.cut = cut]]
    BY <1>6 DEF Terminate
  <2> DEFINE j == [job[p] EXCEPT !.at = "over", !.exit = exit, !.timedOut = timedOut]
             b == [box[p] EXCEPT !.running = FALSE, !.exit = Killed, !.cut = cut]
  <2>2. cut \in BOOLEAN
    <3>1. box[p].cut \in BOOLEAN
      BY <1>0 DEF Boxes
    <3>2. (Len(box[p].said) < Cardinality(Tests)) \in BOOLEAN
      OBVIOUS
    <3>3. QED BY <3>1, <3>2, Zenon
  <2>3. /\ j \in Jobs /\ j.at \in InFlight
        /\ b \in Boxes
    <3>1. exit \in Exits
      BY DEF Exits, Killed
    <3>2. j \in Jobs /\ j.at \in InFlight
      BY <1>0, <3>1 DEF Jobs, InFlight
    <3>3. b \in Boxes
      BY <1>0, <2>2 DEF Boxes, Exits, Killed
    <3>4. QED BY <3>2, <3>3
  <2>4. leftover' = leftover /\ faults' = faults
    BY <1>0, <1>6 DEF Terminate
  <2>5. QED BY <2>1, <2>3, <2>4, SandboxWrite
<1>7. CASE Expire(p) \/ Flooded(p)
  BY <1>6, <1>7 DEF Expire, Flooded
<1>8. CASE DockerHangs(p)
  <2> DEFINE j == [job[p] EXCEPT !.at = "removing", !.status = "infrastructure_error"]
  <2>1. j \in Jobs /\ j.at \in InFlight
    BY <1>0 DEF Jobs, InFlight, EXECUTION_STATUSES
  <2>2. QED BY <1>8, <2>1, JobWrite DEF DockerHangs, Fault
<1>9. CASE Conclude(p)
  <2>1. PICK compile \in BOOLEAN :
          LET j    == job[p]
              exit == IF box[p].there /\ (j.timedOut \/ j.exit = None)
                      THEN box[p].exit ELSE j.exit
              oom  == box[p].there /\ box[p].oom
              s    == Classify(exit, compile, j.timedOut, oom, box[p].full)
          IN  job' = [job EXCEPT ![p].at = "removing", ![p].exit = exit,
                                 ![p].status = Result(s, j.timedOut)]
    BY <1>9 DEF Conclude
  <2> DEFINE exit == IF box[p].there /\ (job[p].timedOut \/ job[p].exit = None)
                     THEN box[p].exit ELSE job[p].exit
             oom  == box[p].there /\ box[p].oom
             c    == Classify(exit, compile, job[p].timedOut, oom, box[p].full)
             s    == Result(c, job[p].timedOut)
  <2> DEFINE j == [job[p] EXCEPT !.at = "removing", !.exit = exit, !.status = s]
  <2>2. exit \in Exits
    BY <1>0 DEF Jobs, Boxes
  <2>3. s \in EXECUTION_STATUSES \cup {"raised"}
    BY DEF Classify, Result, EXECUTION_STATUSES
  <2> HIDE DEF exit, s
  <2>4. j \in Jobs /\ j.at \in InFlight
    BY <1>0, <2>2, <2>3 DEF Jobs, InFlight
  <2>5. job' = [job EXCEPT ![p] = j]
    BY <2>1 DEF exit, s
  <2>6. QED BY <1>9, <2>4, <2>5, JobWrite DEF Conclude
<1>10. CASE Remove(p)
  <2> DEFINE j == [job[p] EXCEPT !.at = "done"]
  <2>1. j \in Jobs
    BY <1>0 DEF Jobs
  <2>2. leftover' = leftover
    BY <1>0, <1>10 DEF Remove
  <2>3. QED BY <1>1, <1>10, <2>1, <2>2, SandboxWrite DEF Remove
<1>11. CASE RemoveFails(p)
  <2>1. PICK s \in {job[p].status, "infrastructure_error"} :
          job' = [job EXCEPT ![p] = [job[p] EXCEPT !.at = "done", !.status = s]]
    BY <1>11 DEF RemoveFails
  <2> DEFINE j == [job[p] EXCEPT !.at = "done", !.status = s]
  <2>2. j \in Jobs
    BY <1>0 DEF Jobs, EXECUTION_STATUSES
  <2>3. leftover' = leftover + 1 /\ faults' = faults + 1 /\ box' = [box EXCEPT ![p] = gone]
    BY <1>11 DEF RemoveFails, Fault
  <2> HIDE DEF gone, j
  <2>4. QED BY <1>1, <2>1, <2>2, <2>3, SandboxWrite DEF j
<1>12. QED
  BY <1>2, <1>3, <1>4, <1>5, <1>7, <1>8, <1>9, <1>10, <1>11 DEF Executor, DockerFails

LEMMA ContainerStep ==
  ASSUME SandboxInv, NEW p \in Procs, Container(p)
  PROVE  SandboxInv'
<1>0. box[p] \in Boxes /\ box[p].said \in Seq(Reports)
  BY DEF SandboxInv, SandboxTyped, Boxes
<1>1. CASE Say(p)
  <2>1. PICK r \in Reports :
          box' = [box EXCEPT ![p] = [box[p] EXCEPT !.said = Append(box[p].said, r)]]
    BY <1>1 DEF Say
  <2>2. Append(box[p].said, r) \in Seq(Reports)
    BY <1>0
  <2> DEFINE b == [box[p] EXCEPT !.said = Append(box[p].said, r)]
  <2>3. b \in Boxes /\ b.there = box[p].there
    BY <1>0, <2>2 DEF Boxes
  <2>4. QED BY <1>1, <2>1, <2>3, BoxWrite DEF Say, Moves
<1>2. CASE CollectFails(p)
  <2>1. PICK kind \in {"syntax", "other"} :
          box' = [box EXCEPT ![p] = [box[p] EXCEPT !.collect = kind]]
    BY <1>2 DEF CollectFails
  <2> DEFINE b == [box[p] EXCEPT !.collect = kind]
  <2>2. b \in Boxes /\ b.there = box[p].there
    BY <1>0 DEF Boxes
  <2>3. QED BY <1>2, <2>1, <2>2, BoxWrite DEF CollectFails, Moves
<1>3. CASE Fill(p)
  <2>1. PICK cut \in BOOLEAN, kept \in 0..Len(box[p].said) :
          box' = [box EXCEPT ![p].full = TRUE, ![p].cut = cut, ![p].said = SubSeq(@, 1, kept)]
    BY <1>3 DEF Fill
  <2> DEFINE b == [box[p] EXCEPT !.full = TRUE, !.cut = cut, !.said = SubSeq(@, 1, kept)]
  <2>2. box' = [box EXCEPT ![p] = b]
    BY <2>1
  <2>3. SubSeq(box[p].said, 1, kept) \in Seq(Reports)
    BY <1>0, SubSeqProperties
  <2>4. b \in Boxes /\ b.there = box[p].there
    BY <1>0, <2>3 DEF Boxes
  <2>5. QED BY <1>3, <2>2, <2>4, BoxWrite DEF Fill
<1>4. CASE OutOfMemory(p)
  <2>1. PICK alive \in BOOLEAN :
          box' = [box EXCEPT ![p] = [box[p] EXCEPT !.oom = TRUE, !.running = alive,
                                                   !.exit = IF alive THEN None ELSE Killed]]
    BY <1>4 DEF OutOfMemory
  <2> DEFINE b == [box[p] EXCEPT !.oom = TRUE, !.running = alive,
                                 !.exit = IF alive THEN None ELSE Killed]
  <2>2. b \in Boxes /\ b.there = box[p].there
    BY <1>0 DEF Boxes, Exits, Killed
  <2>3. QED BY <1>4, <2>1, <2>2, BoxWrite DEF OutOfMemory, Moves
<1>5. CASE Finish(p)
  <2>1. PICK code \in {0, 1, Docker125} :
          box' = [box EXCEPT ![p] = [box[p] EXCEPT !.running = FALSE, !.exit = code]]
    BY <1>5 DEF Finish
  <2> DEFINE b == [box[p] EXCEPT !.running = FALSE, !.exit = code]
  <2>2. code \in Exits
    BY DEF Exits, Docker125
  <2>3. b \in Boxes /\ b.there = box[p].there
    BY <1>0, <2>2 DEF Boxes
  <2>4. QED BY <1>5, <2>1, <2>3, BoxWrite DEF Finish, Moves
<1>6. QED BY <1>1, <1>2, <1>3, <1>4, <1>5 DEF Container

LEMMA SignalStep ==
  ASSUME SandboxInv, NEW p \in Procs, Fault, Signalled(p)
  PROVE  SandboxInv'
<1>0. /\ job[p] \in Jobs /\ box[p] \in Boxes /\ leftover \in Nat /\ faults \in Nat
      /\ box[p].there => job[p].at \in InFlight
  BY DEF SandboxInv, SandboxTyped, NoOrphans
<1> DEFINE done == [job[p] EXCEPT !.at = "done", !.status = "interrupted"]
           rm   == [job[p] EXCEPT !.at = "removing", !.status = "interrupted"]
           gone == [box[p] EXCEPT !.there = FALSE, !.running = FALSE]
<1>1. done \in Jobs /\ rm \in Jobs /\ rm.at \in InFlight /\ gone \in Boxes /\ ~gone.there
  BY <1>0 DEF Jobs, Boxes, InFlight
<1>2. CASE job[p].at \in {"ready", "done"} /\ job' = [job EXCEPT ![p] = done]
           /\ UNCHANGED <<box, leftover>>
  BY <1>0, <1>1, <1>2, JobWrite DEF Fault, InFlight
<1>3. CASE job' = [job EXCEPT ![p] = rm] /\ UNCHANGED <<box, leftover>>
  BY <1>0, <1>1, <1>3, JobWrite DEF Fault
<1>4. ASSUME job' = [job EXCEPT ![p] = done], box' = [box EXCEPT ![p] = gone],
             leftover' \in {leftover, leftover + 1}
      PROVE  SandboxInv'
  BY <1>1, <1>4, SandboxWrite DEF Fault
<1>5. ASSUME job[p].at = "removing", Signalled(p) PROVE SandboxInv'
  <2>1. PICK lost \in {0, IF box[p].there THEN 1 ELSE 0} : leftover' = leftover + lost
    BY <1>5 DEF Signalled
  <2>2. leftover' \in {leftover, leftover + 1}
    BY <1>0, <2>1
  <2>3. QED BY <1>4, <1>5, <2>2 DEF Signalled
<1>6. QED BY <1>2, <1>3, <1>5 DEF Signalled

LEMMA SandboxStep ==
  ASSUME SandboxInv, [Next]_vars
  PROVE  SandboxInv'
<1>1. ASSUME UNCHANGED svars PROVE SandboxInv'
  BY <1>1 DEF svars, SandboxInv, SandboxTyped, NoOrphans
<1>2. ASSUME NEW p \in Procs, BeginJob(p) \/ Judge(p) PROVE SandboxInv'
  <2>1. /\ ~NoBox.there /\ NoBox \in Boxes /\ NoJob \in Jobs
        /\ [NoJob EXCEPT !.at = "ready"] \in Jobs
    BY NoJobTyped DEF Jobs
  <2>2. leftover' = leftover /\ faults' = faults
    BY <1>2 DEF BeginJob, Judge, SandboxInv, SandboxTyped
  <2>3. CASE job' = [job EXCEPT ![p] = [NoJob EXCEPT !.at = "ready"]]
             /\ box' = [box EXCEPT ![p] = NoBox]
    BY <2>1, <2>2, <2>3, SandboxWrite
  <2>4. CASE job' = [job EXCEPT ![p] = NoJob] /\ box' = [box EXCEPT ![p] = NoBox]
    BY <2>1, <2>2, <2>4, SandboxWrite
  <2>5. QED BY <1>2, <2>3, <2>4 DEF BeginJob, Judge
<1>3. ASSUME NEW p \in Procs, Evaluate(p) PROVE SandboxInv'
  BY <1>1, <1>2, <1>3, ExecutorStep
  DEF Evaluate, InSandbox, StartRun, LoadKeys, Skip, RecordFailure, SaveResult, SaveTest,
      WriteStatistics, Settle, InterruptRun
<1>4. ASSUME NEW p \in Procs, Interrupt(p) PROVE SandboxInv'
  <2>1. CASE Signalled(p)
    BY <1>4, <2>1, SignalStep DEF Interrupt
  <2>2. CASE UNCHANGED <<job, box, leftover>>
    BY <1>4, <2>2 DEF Interrupt, Fault, SandboxInv, SandboxTyped, NoOrphans
  <2>3. QED BY <1>4, <2>1, <2>2 DEF Interrupt
<1>5. ASSUME NEW p \in Procs, Die(p) PROVE SandboxInv'
  <2>1. leftover' \in {leftover, leftover + 1}
    BY <1>5 DEF Die, Abandoned, SandboxInv, SandboxTyped
  <2>2. QED BY <1>5, <2>1, NoJobTyped, SandboxWrite DEF Die, Abandoned, Fault
<1>6. ASSUME NEW p \in Procs, Surroundings(p) PROVE SandboxInv'
  BY <1>4, <1>5, <1>6, ExecutorStep, ContainerStep DEF Surroundings, InSandbox
<1>7. CASE UNCHANGED vars
  BY <1>1, <1>7 DEF vars
<1>8. QED BY <1>1, <1>3, <1>6, <1>7 DEF Next, Create, TakeUp

\* sandbox/executor.py: the container is removed on every path out.  For any number of processes,
\* whatever Docker, the programs and the signals do, there is at most one container left behind
\* for each fault, and none runs without a job that will remove it.
THEOREM ContainersAreRemoved == Spec => []NoOrphans
<1>1. Init => SandboxInv
  BY NoJobTyped DEF Init, SandboxInit, SandboxInv, SandboxTyped, NoOrphans
<1>2. SandboxInv /\ [Next]_vars => SandboxInv'
  BY SandboxStep
<1>3. SandboxInv => NoOrphans
  BY DEF SandboxInv
<1>4. QED BY <1>1, <1>2, <1>3, PTL DEF Spec
-----------------------------------------------------------------------------
(* Verdicts, again with any number of processes. *)

Earned(r) ==
  /\ r.status = "passed" => r.tests = [t \in Tests |-> "passed"]
  /\ r.tests = <<>> <=> r.status = "infrastructure_error"

EarnedInv ==
  /\ results \in Seq(Range(results)) /\ proc = [p \in Procs |-> proc[p]]
  /\ \A p \in Procs : /\ Fields \subseteq DOMAIN proc[p]
                      /\ proc[p].pc = "saving" => Earned(proc[p].result)
  /\ \A i \in DOMAIN results : Earned(results[i])

\* Whatever was said, a verdict is of all declared tests.
LEMMA JudgedIsEarned == ASSUME NEW c, NEW j, NEW b PROVE Earned(Judged(c, j, b))
<1> DEFINE tests == Reconcile(b)
<1>1. CASE j.status = "infrastructure_error"
  BY <1>1 DEF Judged, Earned
<1>2. CASE j.status # "infrastructure_error"
  <2>1. tests = [t \in Tests |-> tests[t]] /\ DOMAIN tests = Tests
    BY DEF Reconcile
  <2>2. tests # <<>>
    BY <2>1, TestsAssumption
  <2>3. Verdict(j, b) = "passed" => \A t \in Tests : tests[t] = "passed"
    BY <2>1 DEF Verdict
  <2>4. Verdict(j, b) # "infrastructure_error"
    BY DEF Verdict
  <2>5. /\ Judged(c, j, b).status = Verdict(j, b)
        /\ Judged(c, j, b).tests = tests
    BY <1>2 DEF Judged
  <2> HIDE DEF tests
  <2>6. Verdict(j, b) = "passed" => tests = [t \in Tests |-> "passed"]
    BY <2>1, <2>3
  <2>7. QED BY <2>2, <2>4, <2>5, <2>6 DEF Earned
<1>3. QED BY <1>1, <1>2

LEMMA EarnedWrite ==
  ASSUME EarnedInv, NEW p \in Procs, NEW w, proc' = [proc EXCEPT ![p] = w],
         Fields \subseteq DOMAIN w, w.pc = "saving" => Earned(w.result), UNCHANGED results
  PROVE  EarnedInv'
<1>1. /\ proc' = [q \in Procs |-> proc'[q]]
      /\ \A q \in Procs : proc'[q] = IF q = p THEN w ELSE proc[q]
  BY DEF EarnedInv
<1>2. QED BY <1>1 DEF EarnedInv, Earned

LEMMA EarnedGoesOn ==
  ASSUME EarnedInv, NEW p \in Procs, UNCHANGED results,
         \/ \E pc : GoTo(p, pc) /\ pc # "saving"
         \/ Onward(p)
         \/ Leave(p)
         \/ UNCHANGED proc
  PROVE  EarnedInv'
<1>0. Fields \subseteq DOMAIN proc[p]
  BY DEF EarnedInv
<1>1. ASSUME NEW pc, GoTo(p, pc), pc # "saving" PROVE EarnedInv'
  <2> DEFINE w == [proc[p] EXCEPT !.pc = pc]
  <2>1. Fields \subseteq DOMAIN w /\ w.pc = pc
    BY <1>0 DEF Fields
  <2>2. QED BY <1>1, <2>1, EarnedWrite DEF GoTo
<1>2. CASE Onward(p)
  <2> DEFINE w == [proc[p] EXCEPT !.pc = "loop", !.cur = @ + 1, !.result = <<>>]
  <2>1. Fields \subseteq DOMAIN w /\ w.pc = "loop"
    BY <1>0 DEF Fields
  <2>2. proc' = [proc EXCEPT ![p] = w]
    BY <1>2 DEF Onward
  <2> HIDE DEF w
  <2>3. QED BY <2>1, <2>2, EarnedWrite
<1>3. CASE Leave(p)
  <2>1. Fields \subseteq DOMAIN Idle /\ Idle.pc = "idle"
    BY DEF Idle, Fields
  <2>2. QED BY <1>3, <2>1, EarnedWrite DEF Leave
<1>4. CASE UNCHANGED proc
  BY <1>4 DEF EarnedInv, Earned
<1>5. QED BY <1>1, <1>2, <1>3, <1>4

LEMMA EarnedStep ==
  ASSUME EarnedInv, [Next]_vars
  PROVE  EarnedInv'
<1> DEFINE Goal == EarnedInv'
<1>0. \A p \in Procs : Fields \subseteq DOMAIN proc[p]
  BY DEF EarnedInv
<1>1. ASSUME NEW p \in Procs, NEW s, NEW pc, UpdateStatus(p, s, pc), pc # "saving",
             UNCHANGED results
      PROVE  Goal
  BY <1>1, EarnedGoesOn DEF UpdateStatus, Derail
<1>2. ASSUME NEW p \in Procs, Create(p) \/ TakeUp(p) PROVE Goal
  BY <1>2, EarnedGoesOn DEF Create, TakeUp, Invoke, files
<1>3. ASSUME NEW p \in Procs, LoadKeys(p) PROVE Goal
  <2> DEFINE w == [proc[p] EXCEPT !.pc = "loop", !.existing = EvaluatedKeys, !.cur = 1]
  <2>1. Fields \subseteq DOMAIN w /\ w.pc = "loop"
    BY <1>0 DEF Fields
  <2>2. CASE proc' = [proc EXCEPT ![p] = w]
    BY <1>3, <2>1, <2>2, EarnedWrite DEF LoadKeys, files
  <2>3. CASE Derail(p)
    BY <1>3, <2>3, EarnedGoesOn DEF LoadKeys, files, Derail
  <2>4. QED BY <1>3, <2>2, <2>3 DEF LoadKeys
<1>4. ASSUME NEW p \in Procs, Judge(p) PROVE Goal
  <2> DEFINE r == Judged(proc[p].cur, job[p], box[p])
             w == [proc[p] EXCEPT !.pc = "saving", !.result = r]
  <2>1. UNCHANGED results
    BY <1>4 DEF Judge, files
  <2>2. Fields \subseteq DOMAIN w /\ w.result = r
    BY <1>0 DEF Fields
  <2>3. Earned(r)
    BY JudgedIsEarned
  <2>4. CASE GoTo(p, "stopping") \/ Derail(p)
    BY <2>1, <2>4, EarnedGoesOn DEF Derail
  <2>5. CASE proc' = [proc EXCEPT ![p] = w]
    BY <2>1, <2>2, <2>3, <2>5, EarnedWrite
  <2>6. QED BY <1>4, <2>4, <2>5 DEF Judge
<1>5. ASSUME NEW p \in Procs, SaveResult(p) PROVE Goal
  <2>1. /\ results' \in Seq(Range(results'))
        /\ \A i \in DOMAIN results' : \/ i \in DOMAIN results /\ results'[i] = results[i]
                                      \/ results'[i] = proc[p].result
    BY <1>5, AppendKeeps DEF EarnedInv, SaveResult
  <2>2. Earned(proc[p].result)
    BY <1>5 DEF EarnedInv, SaveResult, At, Earned
  <2>3. /\ proc' = [q \in Procs |-> proc'[q]]
        /\ \A q \in Procs : /\ Fields \subseteq DOMAIN proc'[q]
                            /\ proc'[q].pc \in {"loop", "detailing"} \/ proc'[q] = proc[q]
    BY <1>0, <1>5 DEF EarnedInv, SaveResult, Onward, GoTo, Fields
  <2>4. QED BY <2>1, <2>2, <2>3 DEF EarnedInv, Earned
<1>6. ASSUME NEW p \in Procs, SaveTest(p) PROVE Goal
  <2>1. proc[p].pc = "detailing" /\ UNCHANGED results
    BY <1>6 DEF SaveTest, At
  <2>2. CASE Onward(p)
    BY <2>1, <2>2, EarnedGoesOn
  <2>3. CASE proc' = [proc EXCEPT ![p].result.tests = Tail(@)]
    <3> DEFINE w == [proc[p] EXCEPT !.result.tests = Tail(@)]
    <3>1. Fields \subseteq DOMAIN w /\ w.pc = "detailing"
      BY <1>0, <2>1 DEF Fields
    <3>2. QED BY <2>1, <2>3, <3>1, EarnedWrite
  <2>4. QED BY <1>6, <2>2, <2>3 DEF SaveTest
<1>7. ASSUME NEW p \in Procs, WriteStatistics(p) PROVE Goal
  BY <1>7, EarnedGoesOn DEF WriteStatistics, Derail, files
<1>8. ASSUME NEW p \in Procs, StartRun(p) \/ Settle(p) \/ InterruptRun(p) PROVE Goal
  BY <1>1, <1>8 DEF StartRun, Settle, InterruptRun, files
<1>9. ASSUME NEW p \in Procs, Evaluate(p) PROVE Goal
  BY <1>3, <1>4, <1>5, <1>6, <1>7, <1>8, <1>9, EarnedGoesOn
  DEF Evaluate, InSandbox, Skip, BeginJob, RecordFailure, files
<1>10. ASSUME NEW p \in Procs, Surroundings(p) PROVE Goal
  BY <1>10, EarnedGoesOn DEF Surroundings, InSandbox, Interrupt, Die, files
<1>11. CASE UNCHANGED vars
  BY <1>11 DEF vars, files, EarnedInv, Earned
<1>12. QED BY <1>2, <1>9, <1>10, <1>11 DEF Next

\* evaluation/evaluator.py: an exit code never decides.  For any number of processes, tests and
\* candidates, whatever a program prints and returns and however Docker fails, a candidate is
\* recorded as passed only with every declared test reported as passed, and a fault of the
\* machinery, and nothing else, is recorded without tests.
THEOREM PassesAreEarned == Spec => []PassedIsEarned
<1>1. Init => EarnedInv
  <2> SUFFICES ASSUME Init PROVE EarnedInv
    OBVIOUS
  <2>1. <<>> \in Seq(Range(<<>>)) /\ Fields \subseteq DOMAIN Idle /\ Idle.pc = "idle"
    BY EmptySeq DEF Idle, Fields
  <2>2. QED BY <2>1 DEF Init, EarnedInv
<1>2. EarnedInv /\ [Next]_vars => EarnedInv'
  BY EarnedStep
<1>3. EarnedInv => PassedIsEarned
  BY DEF EarnedInv, Earned, PassedIsEarned
<1>4. QED BY <1>1, <1>2, <1>3, PTL DEF Spec
-----------------------------------------------------------------------------
(* Details.  While the details of a candidate are written, what is still to come counts, so   *)
(* that its line-up is short only once a line was glued or a fault ended the writing.         *)

Pending(w, c) == IF w.pc = "detailing" /\ w.result.cand = c THEN Len(w.result.tests) ELSE 0

\* What there is, and will be unless something happens, of the details of a result.
Expected(w, r) == details[r.cand] + Pending(w, r.cand)

Lost == {i \in DOMAIN results : \A p \in Procs : Expected(proc[p], results[i]) < Len(results[i].tests)}

DetailsTyped ==
  /\ faults \in Nat /\ spoilt \in Nat /\ details \in [Candidates -> Nat]
  /\ \A i \in DOMAIN results : IsLog(results[i].tests)

Outcome(r) == {"cand", "tests"} \subseteq DOMAIN r /\ IsLog(r.tests)

Writing(w) ==
  /\ w.pc \in {"saving", "detailing"} => Outcome(w.result)
  /\ w.pc = "detailing" => w.result.cand \in EvaluatedKeys /\ w.result.tests # <<>>

DetailsInv ==
  /\ DetailsTyped
  /\ \A p \in Procs : Writing(proc[p])
  /\ \A c \in Candidates : details[c] > 0 => c \in EvaluatedKeys
  /\ \A p \in Procs, i \in DOMAIN results :
       Expected(proc[p], results[i]) <= Len(results[i].tests)
  /\ IsFiniteSet(Lost) /\ Cardinality(Lost) <= faults + spoilt

LEMMA AtMostOneMore ==
  ASSUME NEW S, IsFiniteSet(S), NEW T, NEW x, T \subseteq S \cup {x}
  PROVE  IsFiniteSet(T) /\ Cardinality(T) <= Cardinality(S) + 1
         /\ Cardinality(T) \in Nat /\ Cardinality(S) \in Nat
<1>1. IsFiniteSet(S \cup {x}) /\ Cardinality(S \cup {x}) <= Cardinality(S) + 1
  <2>1. Cardinality(S) \in Nat
    BY FS_CardinalityType
  <2>2. CASE x \in S
    <3>1. S \cup {x} = S
      BY <2>2
    <3>2. QED BY <2>1, <3>1
  <2>3. CASE x \notin S
    <3>1. /\ IsFiniteSet(S \cup {x})
          /\ Cardinality(S \cup {x}) = IF x \in S THEN Cardinality(S) ELSE Cardinality(S) + 1
      BY FS_AddElement
    <3>2. QED BY <2>1, <2>3, <3>1
  <2>4. QED BY <2>2, <2>3
<1>2. IsFiniteSet(T) /\ Cardinality(T) <= Cardinality(S \cup {x})
  BY <1>1, FS_Subset
<1>3. Cardinality(S \cup {x}) \in Nat /\ Cardinality(T) \in Nat /\ Cardinality(S) \in Nat
  BY <1>1, <1>2, FS_CardinalityType
<1>4. QED BY <1>1, <1>2, <1>3

LEMMA JudgedIsOutcome == ASSUME NEW c, NEW j, NEW b PROVE Outcome(Judged(c, j, b))
<1> DEFINE tests == Reconcile(b)
<1>1. IsLog(<<>>)
  BY EmptySeq DEF IsLog
<1>2. Cardinality(Tests) \in Nat /\ Tests = 1..Cardinality(Tests)
  BY TestsAssumption, FS_CardinalityType
<1>3. tests \in [1..Cardinality(Tests) -> Range(tests)]
  BY <1>2 DEF Reconcile, Range
<1>4. IsLog(tests)
  BY <1>2, <1>3, SeqDef DEF IsLog
<1>5. QED BY <1>1, <1>4 DEF Judged, Outcome

\* Processes and outcomes, as far as the details need them.
LEMMA ResultsKnown ==
  ASSUME IInv
  PROVE  /\ \A i \in DOMAIN results : results[i].cand \in EvaluatedKeys
                                      /\ results[i].cand \in Candidates
         /\ \A i, k \in DOMAIN results : results[i].cand = results[k].cand => i = k
BY DEF IInv, FilesTyped, EvaluatedKeys, OneOutcomeEach

\* A step of a process that neither begins nor ends nor continues to write details.
LEMMA DetailsQuiet ==
  ASSUME OneAtATime, IInv, DetailsInv, NEW p \in Procs, proc[p].pc # "detailing",
         proc'[p].pc # "detailing", proc'[p].pc = "saving" => Outcome(proc'[p].result),
         UNCHANGED <<results, details, spoilt>>, EvaluatedKeys \subseteq EvaluatedKeys',
         faults' \in {faults, faults + 1}
  PROVE  DetailsInv'
<1>1. \A q \in Procs : q = p
  BY DEF OneAtATime
<1>2. \A i \in DOMAIN results : /\ Expected(proc[p], results[i]) = details[results[i].cand]
                                /\ Expected(proc[p], results[i])' = details[results[i].cand]
  BY ResultsKnown DEF Expected, Pending, DetailsInv, DetailsTyped
<1>3. Lost' = Lost
  BY <1>1, <1>2 DEF Lost, Expected, Pending
<1>4. DetailsTyped'
  BY DEF DetailsInv, DetailsTyped, IsLog
<1>5. \A q \in Procs : Writing(proc[q])'
  BY <1>1 DEF Writing, Outcome, IsLog
<1>6. \A q \in Procs, i \in DOMAIN results' :
        Expected(proc[q], results[i])' <= Len(results'[i].tests)
  BY <1>1, <1>2 DEF DetailsInv, Expected, Pending
<1>7. Cardinality(Lost) \in Nat /\ IsFiniteSet(Lost)
  BY FS_CardinalityType DEF DetailsInv
<1>8. Cardinality(Lost) <= faults' + spoilt'
  BY <1>7 DEF DetailsInv, DetailsTyped
<1>9. QED BY <1>3, <1>4, <1>5, <1>6, <1>7, <1>8 DEF DetailsInv

\* The writing of details is cut off by a fault.
LEMMA DetailsCut ==
  ASSUME OneAtATime, IInv, DetailsInv, NEW p \in Procs, proc[p].pc = "detailing",
         proc'[p].pc \notin {"detailing", "saving"},
         UNCHANGED <<results, failures, details, spoilt>>, faults' = faults + 1
  PROVE  DetailsInv'
<1> DEFINE c == proc[p].result.cand
<1>1. \A q \in Procs : q = p
  BY DEF OneAtATime
<1>2. EvaluatedKeys' = EvaluatedKeys
  BY DEF EvaluatedKeys
<1>3. DetailsTyped' /\ \A q \in Procs : Writing(proc[q])'
  BY <1>1 DEF DetailsInv, DetailsTyped, Writing, IsLog, Outcome
<1>4. IsLog(proc[p].result.tests) /\ Len(proc[p].result.tests) \in Nat
  BY LogLength DEF DetailsInv, Writing, Outcome
<1>5. ASSUME NEW i \in DOMAIN results
      PROVE  /\ Expected(proc[p], results[i])' = details[results[i].cand]
             /\ details[results[i].cand] <= Expected(proc[p], results[i])
             /\ results[i].cand # c => Expected(proc[p], results[i]) = details[results[i].cand]
  BY <1>4, ResultsKnown DEF Expected, Pending, DetailsInv, DetailsTyped
<1>6. \E x : Lost' \subseteq Lost \cup {x}
  <2>1. CASE \E k \in DOMAIN results : results[k].cand = c
    <3>1. PICK k \in DOMAIN results : results[k].cand = c
      BY <2>1
    <3>2. \A i \in DOMAIN results : i # k => results[i].cand # c
      BY <3>1, ResultsKnown
    <3>3. Lost' \subseteq Lost \cup {k}
      BY <1>1, <1>5, <3>2 DEF Lost
    <3>4. QED BY <3>3
  <2>2. CASE \A k \in DOMAIN results : results[k].cand # c
    BY <1>1, <1>5, <2>2 DEF Lost
  <2>3. QED BY <2>1, <2>2
<1>7. IsFiniteSet(Lost') /\ Cardinality(Lost') <= faults' + spoilt'
  <2>1. PICK x : Lost' \subseteq Lost \cup {x}
    BY <1>6
  <2>2. /\ IsFiniteSet(Lost') /\ Cardinality(Lost') <= Cardinality(Lost) + 1
        /\ Cardinality(Lost') \in Nat /\ Cardinality(Lost) \in Nat
    BY <2>1, AtMostOneMore DEF DetailsInv
  <2>3. QED BY <2>2 DEF DetailsInv, DetailsTyped
<1>8. ASSUME NEW q \in Procs, NEW i \in DOMAIN results'
      PROVE  Expected(proc[q], results[i])' <= Len(results'[i].tests)
  <2>1. i \in DOMAIN results /\ results'[i] = results[i] /\ q = p
    BY <1>1
  <2>2. /\ details[results[i].cand] \in Nat /\ Len(results[i].tests) \in Nat
        /\ Expected(proc[p], results[i]) <= Len(results[i].tests)
        /\ Expected(proc[p], results[i]) \in Nat
    BY <1>4, <2>1, ResultsKnown, LogLength DEF DetailsInv, DetailsTyped, Expected, Pending
  <2>3. QED BY <1>5, <2>1, <2>2
<1>9. QED BY <1>2, <1>3, <1>7, <1>8 DEF DetailsInv

\* A result is recorded; all of its details are to come.
LEMMA DetailsBegin ==
  ASSUME OneAtATime, IInv, DetailsInv, NEW p \in Procs, SaveResult(p), UNCHANGED faults
  PROVE  DetailsInv'
<1> DEFINE r == proc[p].result
<1>1. \A q \in Procs : q = p
  BY DEF OneAtATime
<1>2. /\ proc[p].pc = "saving" /\ Fields \subseteq DOMAIN proc[p] /\ r.cand = proc[p].cur
      /\ r.cand \in Candidates /\ r.cand \notin EvaluatedKeys /\ Outcome(r)
  BY DEF SaveResult, At, IInv, Aware, DetailsInv, Writing
<1>3. details[r.cand] = 0 /\ Len(r.tests) \in Nat /\ (Len(r.tests) = 0 <=> r.tests = <<>>)
  BY <1>2, LogLength DEF DetailsInv, DetailsTyped, Outcome
<1>4. PICK n \in DOMAIN results' :
        /\ n \notin DOMAIN results /\ results'[n] = r
        /\ \A i \in DOMAIN results' : i # n => i \in DOMAIN results
  BY AppendKeeps DEF IInv, FilesTyped, SaveResult
<1>5. DOMAIN results \subseteq DOMAIN results' /\ \A i \in DOMAIN results : results'[i] = results[i]
  BY AppendKeeps DEF IInv, FilesTyped, SaveResult
<1>6. EvaluatedKeys \subseteq EvaluatedKeys' /\ r.cand \in EvaluatedKeys'
  BY <1>4, <1>5 DEF EvaluatedKeys, SaveResult
<1>7. \/ r.tests = <<>> /\ proc'[p].pc = "loop"
      \/ r.tests # <<>> /\ proc'[p].pc = "detailing" /\ proc'[p].result = r
  BY <1>2 DEF SaveResult, Onward, GoTo, IInv, FilesTyped, Fields
<1>8. Writing(proc[p])'
  BY <1>2, <1>6, <1>7 DEF Writing, Outcome, IsLog
<1>9. DetailsTyped' /\ spoilt' = spoilt /\ details' = details
  <2>1. \A i \in DOMAIN results' : IsLog(results'[i].tests)
    BY <1>2, <1>4, <1>5 DEF DetailsInv, DetailsTyped, Outcome
  <2>2. QED BY <2>1 DEF DetailsInv, DetailsTyped, SaveResult, IsLog
<1>10. \A c : Pending(proc'[p], c) = IF c = r.cand THEN Len(r.tests) ELSE 0
  BY <1>3, <1>7 DEF Pending
<1>11. ASSUME NEW i \in DOMAIN results
       PROVE  Expected(proc[p], results[i])' = Expected(proc[p], results[i])
  <2>1. results[i].cand # r.cand
    BY <1>2, ResultsKnown
  <2>2. Pending(proc'[p], results[i].cand) = 0 /\ Pending(proc[p], results[i].cand) = 0
    BY <1>2, <1>10, <2>1 DEF Pending
  <2>3. QED BY <1>5, <1>9, <2>2 DEF Expected, Pending
<1>12. Expected(proc[p], results[n])' = Len(r.tests)
  <2>1. Pending(proc'[p], r.cand) = Len(r.tests)
    BY <1>10
  <2>2. QED BY <1>3, <1>4, <1>9, <2>1 DEF Expected, Pending
<1>13. Lost' = Lost
  <2>1. ASSUME NEW i \in DOMAIN results PROVE i \in Lost' <=> i \in Lost
    BY <1>1, <1>5, <1>11 DEF Lost
  <2>2. n \notin Lost'
    BY <1>3, <1>4, <1>12 DEF Lost
  <2>3. QED BY <1>4, <1>5, <2>1, <2>2 DEF Lost
<1>14. ASSUME NEW q \in Procs, NEW i \in DOMAIN results'
       PROVE  Expected(proc[q], results[i])' <= Len(results'[i].tests)
  <2>1. CASE i = n
    BY <1>1, <1>3, <1>4, <1>12, <2>1
  <2>2. CASE i # n
    BY <1>1, <1>4, <1>5, <1>11, <2>2 DEF DetailsInv
  <2>3. QED BY <2>1, <2>2
<1>15. QED BY <1>1, <1>6, <1>8, <1>9, <1>13, <1>14 DEF DetailsInv

\* A line is written, or glued to the fragment of another one.
LEMMA DetailsLine ==
  ASSUME OneAtATime, IInv, DetailsInv, NEW p \in Procs, SaveTest(p), UNCHANGED faults
  PROVE  DetailsInv'
<1> DEFINE r    == proc[p].result
           c    == r.cand
           rest == Len(r.tests)
           glue == "test_results" \in torn
<1>1. \A q \in Procs : q = p
  BY DEF OneAtATime
<1>2. /\ proc[p].pc = "detailing" /\ Fields \subseteq DOMAIN proc[p] /\ Outcome(r)
      /\ c \in EvaluatedKeys /\ c \in Candidates /\ r.tests # <<>>
      /\ proc = [q \in Procs |-> proc[q]]
  BY DEF SaveTest, At, IInv, FilesTyped, Aware, DetailsInv, Writing
<1>3. rest \in Nat \ {0}
  BY <1>2, LogLength DEF Outcome
<1>4. EvaluatedKeys' = EvaluatedKeys /\ results' = results
  BY DEF SaveTest, EvaluatedKeys
<1>5. /\ Writing(proc[p])'
      /\ \A d : Pending(proc'[p], d) = IF d = c THEN rest - 1 ELSE 0
  <2>1. CASE rest = 1
    <3>1. proc'[p].pc = "loop"
      BY <1>2, <2>1 DEF SaveTest, Onward, Fields
    <3>2. QED BY <2>1, <3>1 DEF Writing, Pending
  <2>2. CASE rest # 1
    <3>1. /\ proc'[p].pc = "detailing"
          /\ proc'[p].result = [r EXCEPT !.tests = Tail(r.tests)]
      BY <1>2, <2>2 DEF SaveTest, Fields
    <3>2. Tail(r.tests) \in Seq(Range(r.tests)) /\ Len(Tail(r.tests)) = rest - 1
      BY <1>2, HeadTailProperties DEF Outcome, IsLog
    <3>3. IsLog(Tail(r.tests)) /\ Tail(r.tests) # <<>>
      <4>1. IsLog(Tail(r.tests))
        BY <3>2, SeqOfRange DEF IsLog
      <4>2. Len(Tail(r.tests)) = 0 <=> Tail(r.tests) = <<>>
        BY <4>1, LogLength
      <4>3. QED BY <1>3, <2>2, <3>2, <4>1, <4>2
    <3>4. Outcome(proc'[p].result) /\ proc'[p].result.cand = c
          /\ proc'[p].result.tests = Tail(r.tests)
      BY <1>2, <3>1, <3>3 DEF Outcome
    <3>5. QED BY <1>2, <1>4, <3>1, <3>2, <3>3, <3>4 DEF Writing, Pending, Outcome, IsLog
  <2>3. QED BY <2>1, <2>2
<1>6. /\ DetailsTyped' /\ spoilt' = IF glue THEN spoilt + 1 ELSE spoilt
      /\ \A d \in Candidates : details'[d] = IF d = c /\ ~glue THEN details[d] + 1 ELSE details[d]
  BY <1>2, <1>4 DEF DetailsInv, DetailsTyped, SaveTest, IsLog
<1>7. ASSUME NEW i \in DOMAIN results
      PROVE  /\ Expected(proc[p], results[i])' = IF glue /\ results[i].cand = c
                                                 THEN Expected(proc[p], results[i]) - 1
                                                 ELSE Expected(proc[p], results[i])
             /\ Expected(proc[p], results[i]) \in Nat
  <2> DEFINE d == results[i].cand
  <2>1. d \in Candidates /\ details[d] \in Nat
    BY ResultsKnown DEF DetailsInv, DetailsTyped
  <2>2. /\ Pending(proc[p], d) = IF d = c THEN rest ELSE 0
        /\ Pending(proc'[p], d) = IF d = c THEN rest - 1 ELSE 0
    BY <1>2, <1>5 DEF Pending
  <2>3. /\ Expected(proc[p], results[i]) = details[d] + Pending(proc[p], d)
        /\ Expected(proc[p], results[i])' = details'[d] + Pending(proc'[p], d)
    BY <1>4 DEF Expected, Pending
  <2>4. details'[d] = IF d = c /\ ~glue THEN details[d] + 1 ELSE details[d]
    BY <1>6, <2>1
  <2> HIDE DEF c, d, rest, glue
  <2>5. QED BY <1>3, <2>1, <2>2, <2>3, <2>4 DEF d
<1>8. CASE ~glue
  <2>1. Lost' = Lost
    BY <1>1, <1>4, <1>7, <1>8 DEF Lost
  <2>2. QED BY <1>1, <1>2, <1>4, <1>5, <1>6, <1>7, <1>8, <2>1 DEF DetailsInv
<1>9. CASE glue
  <2>1. PICK k : \A i \in DOMAIN results : results[i].cand = c => i = k
    BY ResultsKnown
  <2>2. Lost' \subseteq Lost \cup {k}
    BY <1>1, <1>4, <1>7, <2>1 DEF Lost
  <2>3. /\ IsFiniteSet(Lost') /\ Cardinality(Lost') <= Cardinality(Lost) + 1
        /\ Cardinality(Lost') \in Nat /\ Cardinality(Lost) \in Nat
    BY <2>2, AtMostOneMore DEF DetailsInv
  <2>4. Cardinality(Lost') <= faults' + spoilt'
    BY <1>6, <1>9, <2>3 DEF DetailsInv, DetailsTyped
  <2>5. ASSUME NEW q \in Procs, NEW i \in DOMAIN results'
        PROVE  Expected(proc[q], results[i])' <= Len(results'[i].tests)
    <3>1. q = p /\ i \in DOMAIN results /\ Len(results[i].tests) \in Nat
      BY <1>1, <1>4, LogLength DEF DetailsInv, DetailsTyped
    <3>2. Expected(proc[p], results[i]) <= Len(results[i].tests)
      BY <3>1 DEF DetailsInv
    <3>3. QED BY <1>4, <1>7, <3>1, <3>2
  <2>6. QED BY <1>1, <1>2, <1>4, <1>5, <1>6, <1>9, <2>3, <2>4, <2>5 DEF DetailsInv
<1>10. QED BY <1>8, <1>9

LEMMA DetailsStep ==
  ASSUME OneAtATime, SandboxInv, IInv, DetailsInv, [Next]_vars
  PROVE  DetailsInv'
<1> DEFINE Goal == DetailsInv'
<1>0. /\ \A p \in Procs : Fields \subseteq DOMAIN proc[p]
      /\ proc = [p \in Procs |-> proc[p]]
      /\ faults \in Nat /\ spoilt \in Nat
  BY DEF IInv, FilesTyped, Aware, SandboxInv, SandboxTyped, DetailsInv, DetailsTyped
<1>1. EvaluatedKeys \subseteq EvaluatedKeys'
  BY InvStep DEF Kind, Opens, Records, Settles
\* The steps that are far from the details.
<1>2. ASSUME NEW p \in Procs, proc[p].pc \notin {"saving", "detailing"},
             \/ \E pc : GoTo(p, pc) /\ pc \notin {"saving", "detailing"}
             \/ Onward(p)
             \/ Leave(p)
             \/ UNCHANGED proc,
             UNCHANGED <<results, details, spoilt>>, faults' \in {faults, faults + 1}
      PROVE  Goal
  <2>1. proc'[p].pc \notin {"saving", "detailing"}
    BY <1>0, <1>2 DEF GoTo, Onward, Leave, Idle, Fields
  <2>2. QED BY <1>1, <1>2, <2>1, DetailsQuiet
<1>3. ASSUME NEW p \in Procs, UNCHANGED <<results, failures, details, spoilt, proc>>,
             faults' \in {faults, faults + 1}
      PROVE  Goal
  <2>1. Lost' = Lost /\ EvaluatedKeys' = EvaluatedKeys
    BY <1>3 DEF Lost, Expected, Pending, EvaluatedKeys
  <2>2. Cardinality(Lost) \in Nat
    BY FS_CardinalityType DEF DetailsInv
  <2>3. IsFiniteSet(Lost) /\ Cardinality(Lost) <= faults' + spoilt'
    BY <1>0, <1>3, <2>2 DEF DetailsInv
  <2>4. DetailsTyped'
    BY <1>0, <1>3 DEF DetailsInv, DetailsTyped, IsLog
  <2>5. QED
    BY <1>3, <2>1, <2>3, <2>4 DEF DetailsInv, Writing, Outcome, IsLog, Expected, Pending
<1>4. ASSUME NEW p \in Procs, NEW s, NEW pc, UpdateStatus(p, s, pc),
             pc \notin {"saving", "detailing"}, proc[p].pc \notin {"saving", "detailing"},
             UNCHANGED <<results, details, spoilt, faults>>
      PROVE  Goal
  BY <1>2, <1>4 DEF UpdateStatus, Derail
<1>5. ASSUME NEW p \in Procs, Create(p) \/ TakeUp(p) PROVE Goal
  BY <1>2, <1>5 DEF Create, TakeUp, Invoke, At, files, svars
<1>6. ASSUME NEW p \in Procs, LoadKeys(p) PROVE Goal
  <2>1. proc'[p].pc \in {"loop", "idle"} /\ proc[p].pc = "loading"
    BY <1>0, <1>6 DEF LoadKeys, Derail, Leave, Idle, At, Fields
  <2>2. QED BY <1>1, <1>6, <2>1, DetailsQuiet DEF LoadKeys, files, svars
<1>7. ASSUME NEW p \in Procs, Judge(p) PROVE Goal
  <2> DEFINE r == Judged(proc[p].cur, job[p], box[p])
  <2>1. proc[p].pc = "job" /\ UNCHANGED <<results, details, spoilt, faults>>
    BY <1>7 DEF Judge, At, files
  <2>2. \/ proc'[p].pc \in {"stopping", "idle"}
        \/ proc'[p].pc = "saving" /\ proc'[p].result = r
    <3>1. CASE GoTo(p, "stopping") \/ Derail(p)
      BY <1>0, <3>1 DEF GoTo, Derail, Leave, Idle, Fields
    <3>2. CASE proc' = [proc EXCEPT ![p].pc = "saving", ![p].result = r]
      BY <1>0, <3>2 DEF Fields
    <3>3. QED BY <1>7, <3>1, <3>2 DEF Judge
  <2>3. Outcome(r)
    BY JudgedIsOutcome
  <2>4. proc'[p].pc = "saving" => Outcome(proc'[p].result)
    BY <2>2, <2>3
  <2>5. QED BY <1>1, <2>1, <2>2, <2>4, DetailsQuiet
<1>8. ASSUME NEW p \in Procs, WriteStatistics(p) PROVE Goal
  BY <1>2, <1>8 DEF WriteStatistics, Derail, At, files, svars
<1>9. ASSUME NEW p \in Procs, StartRun(p) \/ Settle(p) \/ InterruptRun(p) PROVE Goal
  BY <1>4, <1>9 DEF StartRun, Settle, InterruptRun, At, files, svars
<1>10. ASSUME NEW p \in Procs, Skip(p) \/ BeginJob(p) \/ RecordFailure(p) PROVE Goal
  BY <1>2, <1>10 DEF Skip, BeginJob, RecordFailure, Due, At, files, svars
<1>11. ASSUME NEW p \in Procs, SaveResult(p) \/ SaveTest(p) PROVE Goal
  BY <1>11, DetailsBegin, DetailsLine DEF SaveResult, SaveTest, svars
<1>12. ASSUME NEW p \in Procs, Executor(p) \/ DockerFails(p) \/ Container(p),
              UNCHANGED <<files, proc>>
       PROVE  Goal
  <2>1. faults' \in {faults, faults + 1}
    BY <1>12 DEF Executor, DockerFails, Container, Fault, StartContainer, Exited, Expire, Flooded,
         Terminate, Conclude, Remove, DockerRefuses, CannotStart, DockerHangs, RemoveFails, Say,
         CollectFails, Fill, OutOfMemory, Finish, Moves
  <2>2. QED BY <1>3, <1>12, <2>1 DEF files
<1>13. ASSUME NEW p \in Procs, Interrupt(p) \/ Die(p) PROVE Goal
  <2>1. faults' = faults + 1 /\ UNCHANGED <<results, failures, details, spoilt>>
    BY <1>13 DEF Interrupt, Die, Fault, files
  <2>2. CASE UNCHANGED proc
    BY <1>3, <2>1, <2>2
  <2>3. CASE GoTo(p, "stopping") \/ Leave(p)
    <3>1. proc'[p].pc \in {"stopping", "idle"}
      BY <1>0, <2>3 DEF GoTo, Leave, Idle, Fields
    <3>2. CASE proc[p].pc = "detailing"
      BY <2>1, <3>1, <3>2, DetailsCut
    <3>3. CASE proc[p].pc # "detailing"
      BY <1>1, <2>1, <3>1, <3>3, DetailsQuiet
    <3>4. QED BY <3>2, <3>3
  <2>4. QED BY <1>13, <2>2, <2>3 DEF Interrupt, Die
<1>14. ASSUME NEW p \in Procs, Evaluate(p) PROVE Goal
  BY <1>6, <1>7, <1>8, <1>9, <1>10, <1>11, <1>12, <1>14 DEF Evaluate, InSandbox
<1>15. ASSUME NEW p \in Procs, Surroundings(p) PROVE Goal
  BY <1>12, <1>13, <1>15 DEF Surroundings, InSandbox
<1>16. CASE UNCHANGED vars
  <2>1. Lost' = Lost /\ EvaluatedKeys' = EvaluatedKeys
    BY <1>16 DEF vars, files, Lost, Expected, Pending, EvaluatedKeys
  <2>2. QED
    BY <1>16, <2>1 DEF vars, svars, files, DetailsInv, DetailsTyped, Writing, Outcome, IsLog,
                       Expected, Pending
<1>17. QED BY <1>5, <1>14, <1>15, <1>16 DEF Next

\* evaluation/repository.py, append_test_results: when one process at a time fills the run,
\* details are of recorded candidates only, none has more than its tests, and each fault and each
\* glued line costs at most one candidate some of them, over any number of candidates and tests.
THEOREM DetailsAreKept ==
  ASSUME OneAtATime
  PROVE  Spec => []DetailsFollow
<1> DEFINE All == IInv /\ SandboxInv /\ DetailsInv
<1>1. Init => All
  <2> SUFFICES ASSUME Init PROVE All
    OBVIOUS
  <2>1. IInv
    BY InitialInv
  <2>2. SandboxInv
    BY NoJobTyped DEF Init, SandboxInit, SandboxInv, SandboxTyped, NoOrphans
  <2>3. Lost = {} /\ \A p \in Procs : Writing(proc[p])
    BY DEF Init, Lost, Writing, Idle
  <2>4. IsFiniteSet(Lost) /\ Cardinality(Lost) = 0
    BY <2>3, FS_EmptySet
  <2>5. DetailsInv
    BY <2>3, <2>4 DEF Init, SandboxInit, DetailsInv, DetailsTyped
  <2>6. QED BY <2>1, <2>2, <2>5
<1>2. All /\ [Next]_vars => All'
  BY InvStep, SandboxStep, DetailsStep
<1>3. All => DetailsFollow
  <2> SUFFICES ASSUME All PROVE DetailsFollow
    OBVIOUS
  <2> DEFINE Written(c) == \E p \in Procs : At(p, "detailing") /\ proc[p].result.cand = c
             Lacking == {i \in DOMAIN results : /\ details[results[i].cand] < Len(results[i].tests)
                                                /\ ~Written(results[i].cand)}
  <2>1. ASSUME NEW i \in DOMAIN results
        PROVE  details[results[i].cand] <= Len(results[i].tests)
    <3>1. PICK p \in Procs : Expected(proc[p], results[i]) <= Len(results[i].tests)
      BY DEF DetailsInv, OneAtATime
    <3>2. Pending(proc[p], results[i].cand) \in Nat
      BY LogLength DEF Pending, DetailsInv, Writing, Outcome
    <3>3. details[results[i].cand] \in Nat /\ Len(results[i].tests) \in Nat
      BY ResultsKnown, LogLength DEF DetailsInv, DetailsTyped
    <3>4. QED BY <3>1, <3>2, <3>3 DEF Expected
  <2>2. Lacking \subseteq Lost
    <3>1. ASSUME NEW i \in Lacking, NEW p \in Procs
          PROVE  Expected(proc[p], results[i]) = details[results[i].cand]
      BY ResultsKnown DEF Expected, Pending, At, DetailsInv, DetailsTyped
    <3>2. QED BY <3>1 DEF Lost
  <2>3. Cardinality(Lacking) <= Cardinality(Lost) /\ Cardinality(Lacking) \in Nat
        /\ Cardinality(Lost) \in Nat
    BY <2>2, FS_Subset, FS_CardinalityType DEF DetailsInv
  <2>4. Cardinality(Lacking) <= faults + spoilt
    BY <2>3 DEF DetailsInv, DetailsTyped
  <2>5. QED BY <2>1, <2>4 DEF DetailsInv, DetailsFollow
<1>4. QED BY <1>1, <1>2, <1>3, PTL DEF Spec
=============================================================================

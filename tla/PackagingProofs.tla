--------------------------- MODULE PackagingProofs ---------------------------
(***************************************************************************)
(* What the registry says of a model has been seen: for any number of      *)
(* training, packaging and evaluation commands at once, however they       *)
(* overwrite each other's registry and wherever they are killed.           *)
(*                                                                         *)
(* Three things only grow: the runs, those whose adapter is whole, and the *)
(* reports that were a success once.  So a registry that was evident when  *)
(* it was read stays evident on its way through a process and through the  *)
(* temporary file, however stale it is when it replaces another.           *)
(*                                                                         *)
(* The second part is about the training runs: what the directory of a     *)
(* run shows at each point of the process that trains it.  The third is    *)
(* about the evaluation runs: a run answers one schedule, which is fixed   *)
(* when it is created, whatever happens to the benchmark and the problems  *)
(* meanwhile.                                                              *)
(***************************************************************************)
EXTENDS ModelEvaluation, CommonLemmas

Numbers == Nat \ {0}
Copies  == [run : Numbers, state : {"none", "partial", "whole"}]
Entries == [status : STATUSES, run : Numbers, verified : Copies,
            evaluation : EvaluationRuns \cup {None}]
Registries == [Models -> Entries \cup {None}]

WholeRuns  == {i \in DOMAIN runs : runs[i].adapter = "whole"}
EverPassed == {e \in EvaluationRuns : reports[e].ever}

\* A copy, an entry and a registry are evident where W are the runs with a whole adapter and P
\* the evaluation runs with a report that once was a success.
SeenCopy(c, W) == c.state = "whole" => c.run \in W

SeenEntry(x, W, P) ==
  /\ x.verified.state = "whole" /\ x.verified.run \in W
  /\ x.status = "RECOMMENDED" => x.evaluation \in P

Seen(reg, W, P) ==
  /\ reg \in Registries
  /\ \A m \in Models : reg[m] # None => SeenEntry(reg[m], W, P)

RunsTyped ==
  /\ runs \in Seq(Range(runs))
  /\ \A i \in DOMAIN runs : /\ "adapter" \in DOMAIN runs[i]
                            /\ runs[i].adapter \in {"none", "partial", "whole"}

PackagerStates ==
  [pc : {"idle", "clearing", "copying", "describing", "verifying", "registering", "recommending",
         "writing", "filling", "replacing"},
   model : Models \cup {None}, run : Nat, answered : Copies \cup {None},
   evaluation : EvaluationRuns \cup {None}, passed : BOOLEAN, content : Registries \cup {None},
   file : {"none", "temporary", "registry", "gone"}, shared : BOOLEAN]

PackagerOK(w, W, P) ==
  /\ w.pc \in {"clearing", "copying", "describing", "verifying", "registering"} =>
       w.model \in Models /\ w.run \in DOMAIN runs
  /\ w.pc = "registering" =>
       w.answered \in Copies /\ w.answered.state = "whole" /\ w.answered.run \in W
  /\ w.pc = "recommending" =>
       /\ w.model \in Models
       /\ w.evaluation \in EvaluationRuns
       /\ w.passed => w.evaluation \in P
  /\ w.pc \in {"writing", "filling"} => Seen(w.content, W, P)

DiskTyped ==
  /\ packages \in [Models -> [adapter : Copies \cup {None}, manifest : Numbers \cup {None}]]
  /\ reports = [e \in EvaluationRuns |-> reports[e]]
  /\ packager \in [Packagers -> PackagerStates]

DiskSeen ==
  /\ \A m \in Models : packages[m].adapter # None => SeenCopy(packages[m].adapter, WholeRuns)
  /\ \A e \in EvaluationRuns : reports[e].now = "success" => e \in EverPassed
  /\ Seen(registry, WholeRuns, EverPassed)
  /\ temporary # None => Seen(temporary, WholeRuns, EverPassed)
  /\ \A p \in Packagers : PackagerOK(packager[p], WholeRuns, EverPassed)

IInv == RunsTyped /\ DiskTyped /\ DiskSeen

---------------------------------------------------------------------------
(* What grows. *)

\* The runs with a whole adapter, and whatever the commands of training do to them.
LEMMA RunsGrow ==
  ASSUME RunsTyped, [TrainingNext]_tvars
  PROVE  RunsTyped' /\ WholeRuns \subseteq WholeRuns' /\ DOMAIN runs \subseteq DOMAIN runs'
<1> DEFINE Goal == RunsTyped' /\ WholeRuns \subseteq WholeRuns' /\ DOMAIN runs \subseteq DOMAIN runs'
<1>1. CASE UNCHANGED runs
  BY <1>1 DEF RunsTyped, WholeRuns
\* A run's record is written anew: its adapter stays as it was, or was not whole.
<1>2. ASSUME NEW k, NEW x, runs' = [runs EXCEPT ![k] = x],
             k \in DOMAIN runs =>
               /\ "adapter" \in DOMAIN x /\ x.adapter \in {"none", "partial", "whole"}
               /\ runs[k].adapter = "whole" => x.adapter = "whole"
      PROVE  Goal
  BY <1>2, ExceptKeeps DEF RunsTyped, WholeRuns
<1>3. ASSUME NEW x, runs' = Append(runs, x), "adapter" \in DOMAIN x,
             x.adapter \in {"none", "partial", "whole"}
      PROVE  Goal
  BY <1>3, AppendKeeps DEF RunsTyped, WholeRuns
<1>4. ASSUME NEW t \in Trainers, NEW k \in DOMAIN Commands, TrainDpo(t, k) PROVE Goal
  BY <1>4, <1>3 DEF TrainDpo, NewRun
<1>5. ASSUME NEW t \in Trainers, NEW source \in {0} \cup DOMAIN runs, CheckResume(t, source) PROVE Goal
  BY <1>5, <1>1, <1>2 DEF CheckResume, RunsTyped
<1>6. ASSUME NEW t \in Trainers, RecordInputs(t) PROVE Goal
  BY <1>6, <1>2 DEF RecordInputs, RunsTyped
<1>7. ASSUME NEW t, NEW s, NEW pc, UpdateTraining(t, s, pc) PROVE Goal
  BY <1>7, <1>2 DEF UpdateTraining, RunsTyped
<1>8. ASSUME NEW t \in Trainers, BeginSave(t) PROVE Goal
  BY <1>8, <1>2 DEF BeginSave, Mine, RunsTyped
<1>9. ASSUME NEW t \in Trainers, SaveAdapter(t) PROVE Goal
  BY <1>9, <1>2 DEF SaveAdapter, RunsTyped
<1>10. ASSUME NEW t \in Trainers, FailRun(t) PROVE Goal
  <2> DEFINE k == trainer[t].run
             failed == [runs EXCEPT ![k].status = "failed"]
  <2>1. runs' = [failed EXCEPT ![k].error = TRUE]
    BY <1>10 DEF FailRun
  <2>2. /\ failed \in Seq(Range(failed)) /\ DOMAIN failed = DOMAIN runs
        /\ \A i \in DOMAIN runs : /\ "adapter" \in DOMAIN failed[i]
                                  /\ failed[i].adapter = runs[i].adapter
    BY ExceptKeeps DEF RunsTyped
  <2>3. /\ runs' \in Seq(Range(runs')) /\ DOMAIN runs' = DOMAIN failed
        /\ \A i \in DOMAIN failed : /\ "adapter" \in DOMAIN runs'[i]
                                    /\ runs'[i].adapter = failed[i].adapter
    BY <2>1, <2>2, ExceptKeeps
  <2>4. QED BY <2>2, <2>3 DEF RunsTyped, WholeRuns
<1>11. ASSUME NEW t \in Trainers, WriteFinalReport(t) PROVE Goal
  BY <1>11, <1>2 DEF WriteFinalReport, RunsTyped
<1>12. ASSUME NEW t \in Trainers, InterruptTraining(t) PROVE Goal
  BY <1>12, <1>1, <1>7 DEF InterruptTraining
<1>13. ASSUME NEW t \in Trainers, StartTraining(t) \/ CompleteTraining(t) PROVE Goal
  BY <1>13, <1>7 DEF StartTraining, CompleteTraining
<1>14. ASSUME NEW t \in Trainers, NEW m \in Machines, RunPreflight(t, m) PROVE Goal
  BY <1>14, <1>1 DEF RunPreflight
<1>15. ASSUME NEW t \in Trainers, Train(t) \/ VerifyAdapter(t) \/ Raise(t) \/ KillTraining(t)
       PROVE Goal
  BY <1>15, <1>1 DEF Train, VerifyAdapter, Raise, KillTraining
<1>16. CASE Regenerate
  BY <1>16, <1>1 DEF Regenerate
<1>17. CASE UNCHANGED tvars
  BY <1>17, <1>1 DEF tvars
<1>18. QED
  BY <1>4, <1>5, <1>6, <1>8, <1>9, <1>10, <1>11, <1>12, <1>13, <1>14, <1>15, <1>16, <1>17
  DEF TrainingNext, Job

---------------------------------------------------------------------------
(* What stays evident. *)

LEMMA SeenGrows ==
  ASSUME NEW W, NEW P, NEW V, NEW Q, W \subseteq V, P \subseteq Q
  PROVE  /\ \A c : SeenCopy(c, W) => SeenCopy(c, V)
         /\ \A reg : Seen(reg, W, P) => Seen(reg, V, Q)
BY DEF SeenCopy, Seen, SeenEntry

\* Training and evaluation leave packages and registry alone.
LEMMA OthersKeep ==
  ASSUME IInv, RunsTyped', WholeRuns \subseteq WholeRuns', DOMAIN runs \subseteq DOMAIN runs',
         EverPassed \subseteq EverPassed', UNCHANGED <<packages, registry, temporary, packager>>,
         reports' = [e \in EvaluationRuns |-> reports'[e]],
         \A e \in EvaluationRuns : reports'[e].now = "success" => reports'[e].ever
  PROVE  IInv'
<1>1. DiskTyped'
  BY DEF IInv, DiskTyped
<1>2. /\ \A m \in Models : packages'[m].adapter # None => SeenCopy(packages'[m].adapter, WholeRuns')
      /\ Seen(registry', WholeRuns', EverPassed')
      /\ temporary' # None => Seen(temporary', WholeRuns', EverPassed')
  BY SeenGrows DEF IInv, DiskSeen
<1>3. \A e \in EvaluationRuns : reports'[e].now = "success" => e \in EverPassed'
  BY DEF EverPassed
<1>4. ASSUME NEW p \in Packagers PROVE PackagerOK(packager[p], WholeRuns, EverPassed)'
  BY SeenGrows DEF IInv, DiskSeen, PackagerOK
<1>5. QED BY <1>1, <1>2, <1>3, <1>4 DEF IInv, DiskSeen

LEMMA TrainingKeeps ==
  ASSUME IInv, [TrainingNext]_tvars, UNCHANGED pvars
  PROVE  IInv'
<1>1. RunsTyped' /\ WholeRuns \subseteq WholeRuns' /\ DOMAIN runs \subseteq DOMAIN runs'
  BY RunsGrow DEF IInv
<1>2. EverPassed' = EverPassed
  BY DEF pvars, EverPassed
<1>3. /\ reports' = [e \in EvaluationRuns |-> reports'[e]]
      /\ \A e \in EvaluationRuns : reports'[e].now = "success" => reports'[e].ever
  BY DEF pvars, IInv, DiskTyped, DiskSeen, EverPassed
<1>4. QED BY <1>1, <1>2, <1>3, OthersKeep DEF pvars

\* A report that is written anew was a success once if it is one now.
LEMMA ReportKeeps ==
  ASSUME IInv, NEW e, WriteEvaluationReport(e)
  PROVE  /\ EverPassed \subseteq EverPassed'
         /\ reports' = [x \in EvaluationRuns |-> reports'[x]]
         /\ \A x \in EvaluationRuns : reports'[x].now = "success" => reports'[x].ever
<1>1. CASE UNCHANGED reports
  BY <1>1 DEF IInv, DiskTyped, DiskSeen, EverPassed
<1>2. ASSUME NEW success,
             reports' = [reports EXCEPT ![e] = [now |-> IF success THEN "success" ELSE "failure",
                                                ever |-> @.ever \/ success]]
      PROVE  /\ EverPassed \subseteq EverPassed'
             /\ reports' = [x \in EvaluationRuns |-> reports'[x]]
             /\ \A x \in EvaluationRuns : reports'[x].now = "success" => reports'[x].ever
  BY <1>2 DEF IInv, DiskTyped, DiskSeen, EverPassed
<1>3. QED BY <1>1, <1>2 DEF WriteEvaluationReport

LEMMA EvaluationKeeps ==
  ASSUME IInv, EvaluationNext
  PROVE  IInv'
<1>1. UNCHANGED <<dataset, runs, trainer>> /\ UNCHANGED <<packages, registry, temporary, packager>>
  BY DEF EvaluationNext, OpenBenchmark, Evaluate, CreateEvaluation, RecordExperiment,
         StartEvaluation, LoadModel, Generate, Judge, NextVariant, RaiseInEvaluation,
         FailEvaluation, CompleteEvaluation, ReportRun, ReportAgain, ChangeCatalog, BenchmarkBuild,
         InterruptEvaluation, KillEvaluation, Alone, Elsewhere, tvars, pvars
<1>2. \/ UNCHANGED reports
      \/ \E e : WriteEvaluationReport(e)
  BY DEF EvaluationNext, OpenBenchmark, Evaluate, CreateEvaluation, RecordExperiment,
         StartEvaluation, LoadModel, Generate, Judge, NextVariant, RaiseInEvaluation,
         FailEvaluation, CompleteEvaluation, ReportRun, ReportAgain, ChangeCatalog, BenchmarkBuild,
         InterruptEvaluation, KillEvaluation, Alone, Elsewhere, tvars, pvars
<1>3. RunsTyped' /\ WholeRuns' = WholeRuns /\ DOMAIN runs' = DOMAIN runs
  BY <1>1 DEF IInv, RunsTyped, WholeRuns
<1>4. CASE UNCHANGED reports
  BY <1>1, <1>3, <1>4, OthersKeep DEF IInv, DiskTyped, DiskSeen, EverPassed
<1>5. CASE \E e : WriteEvaluationReport(e)
  BY <1>1, <1>3, <1>5, ReportKeeps, OthersKeep
<1>6. QED BY <1>2, <1>4, <1>5

---------------------------------------------------------------------------
(* The commands of the packagers. *)

\* A process's record is written; what it carries is evident.
LEMMA PackagerWrite ==
  ASSUME IInv, NEW p, NEW w \in PackagerStates, packager' = [packager EXCEPT ![p] = w],
         PackagerOK(w, WholeRuns, EverPassed)
  PROVE  /\ packager' \in [Packagers -> PackagerStates]
         /\ \A q \in Packagers : PackagerOK(packager'[q], WholeRuns, EverPassed)
BY DEF IInv, DiskTyped, DiskSeen

\* What a step leaves is evident by what was evident before it, if it trains and reports nothing.
LEMMA PackagingStep ==
  ASSUME IInv, UNCHANGED <<runs, reports>>,
         packages' \in [Models -> [adapter : Copies \cup {None}, manifest : Numbers \cup {None}]],
         packager' \in [Packagers -> PackagerStates],
         \A m \in Models : packages'[m].adapter # None => SeenCopy(packages'[m].adapter, WholeRuns),
         Seen(registry', WholeRuns, EverPassed),
         temporary' # None => Seen(temporary', WholeRuns, EverPassed),
         \A q \in Packagers : PackagerOK(packager'[q], WholeRuns, EverPassed)
  PROVE  IInv'
<1>1. WholeRuns' = WholeRuns /\ EverPassed' = EverPassed
  BY DEF WholeRuns, EverPassed
<1>2. RunsTyped' /\ DiskTyped'
  BY DEF IInv, RunsTyped, DiskTyped
<1>3. \A e \in EvaluationRuns : reports'[e].now = "success" => e \in EverPassed'
  BY <1>1 DEF IInv, DiskSeen
<1>4. ASSUME NEW q \in Packagers PROVE PackagerOK(packager[q], WholeRuns, EverPassed)'
  BY <1>1 DEF PackagerOK
<1>5. QED BY <1>1, <1>2, <1>3, <1>4 DEF IInv, DiskSeen

LEMMA IdleIsTyped == IdlePackager \in PackagerStates /\ \A W, P : PackagerOK(IdlePackager, W, P)
BY DEF IdlePackager, PackagerStates, PackagerOK

\* Which file a process has open, and who else is at it, is beside what it carries.
LEMMA FileIsBeside ==
  ASSUME NEW w \in PackagerStates, NEW W, NEW P, PackagerOK(w, W, P)
  PROVE  /\ \A s \in BOOLEAN : LET v == [w EXCEPT !.shared = s]
                                IN  v \in PackagerStates /\ PackagerOK(v, W, P)
         /\ LET v == [w EXCEPT !.file = Moved(@)] IN v \in PackagerStates /\ PackagerOK(v, W, P)
<1>1. Moved(w.file) \in {"none", "temporary", "registry", "gone"}
  BY DEF PackagerStates, Moved
<1>2. QED BY <1>1 DEF PackagerStates, PackagerOK

\* A promoted registry is evident, if the model it recommends has passed.
LEMMA PromotedIsSeen ==
  ASSUME IInv, NEW m \in Models, NEW status \in STATUSES, NEW e \in EvaluationRuns \cup {None},
         MayMove(m, status), status = "RECOMMENDED" => e \in EverPassed
  PROVE  Seen(Promoted(m, status, e), WholeRuns, EverPassed)
<1> DEFINE x == registry[m]
           y == [x EXCEPT !.status = status, !.evaluation = IF e = None THEN @ ELSE e]
<1>1. registry \in Registries /\ \A n \in Models : registry[n] # None => SeenEntry(registry[n], WholeRuns, EverPassed)
  BY DEF IInv, DiskSeen, Seen
<1>2. x \in Entries /\ SeenEntry(x, WholeRuns, EverPassed)
  BY <1>1 DEF MayMove, Registered, Registries
<1>3. /\ y \in Entries /\ y.status = status /\ y.verified = x.verified
      /\ y.evaluation = IF e = None THEN x.evaluation ELSE e
  BY <1>2 DEF Entries
<1>4. SeenEntry(y, WholeRuns, EverPassed)
  BY <1>2, <1>3, NoneAssumption DEF SeenEntry, EverPassed
<1>5. Promoted(m, status, e) = [registry EXCEPT ![m] = y]
  BY <1>1 DEF Promoted, Registries
<1>6. QED BY <1>1, <1>3, <1>4, <1>5 DEF Seen, Registries

\* Writing one package's adapter or manifest.
LEMMA AdapterWrite ==
  ASSUME IInv, NEW m \in Models, NEW c \in Copies \cup {None},
         c # None => SeenCopy(c, WholeRuns), packages' = [packages EXCEPT ![m].adapter = c]
  PROVE  /\ packages' \in [Models -> [adapter : Copies \cup {None}, manifest : Numbers \cup {None}]]
         /\ \A n \in Models : packages'[n].adapter # None => SeenCopy(packages'[n].adapter, WholeRuns)
<1>1. packages \in [Models -> [adapter : Copies \cup {None}, manifest : Numbers \cup {None}]]
  BY DEF IInv, DiskTyped
<1>2. /\ packages' \in [Models -> [adapter : Copies \cup {None}, manifest : Numbers \cup {None}]]
      /\ packages'[m].adapter = c
      /\ \A n \in Models : n # m => packages'[n] = packages[n]
  BY <1>1
<1>3. QED BY <1>2 DEF IInv, DiskSeen

LEMMA RunNumbers ==
  ASSUME RunsTyped
  PROVE  DOMAIN runs \subseteq Numbers
BY LenProperties DEF RunsTyped, Numbers

LEMMA PackagersKeep ==
  ASSUME IInv, PackagersNext
  PROVE  IInv'
<1> DEFINE PackageTypes == [Models -> [adapter : Copies \cup {None}, manifest : Numbers \cup {None}]]
           PackagesSeen == \A m \in Models :
                             packages'[m].adapter # None => SeenCopy(packages'[m].adapter, WholeRuns)
           PackagersSeen == \A q \in Packagers : PackagerOK(packager'[q], WholeRuns, EverPassed)
<1>1. UNCHANGED <<runs, reports>>
  BY DEF PackagersNext, Package, ReadReport, Promote, Command, ClearPackage, CopyAdapter,
         DescribePackage, VerifyPackage, Register, Recommend, OpenTemporary, WriteTemporary,
         Replace, KillPackager, tvars
<1>2. DOMAIN runs \subseteq Numbers /\ Numbers \subseteq Nat
  BY RunNumbers DEF IInv, Numbers
<1>3. /\ packages \in PackageTypes /\ packager \in [Packagers -> PackagerStates]
      /\ \A m \in Models : packages[m].adapter # None => SeenCopy(packages[m].adapter, WholeRuns)
      /\ Seen(registry, WholeRuns, EverPassed)
      /\ temporary # None => Seen(temporary, WholeRuns, EverPassed)
      /\ \A p \in Packagers : PackagerOK(packager[p], WholeRuns, EverPassed)
  BY DEF IInv, DiskTyped, DiskSeen
\* A step of one process that changes nothing else.
<1>4. ASSUME NEW p \in Packagers, NEW w \in PackagerStates, packager' = [packager EXCEPT ![p] = w],
             PackagerOK(w, WholeRuns, EverPassed), UNCHANGED <<packages, registry, temporary>>
      PROVE  IInv'
  BY <1>1, <1>3, <1>4, PackagerWrite, PackagingStep
\* One that writes its package besides.
<1>5. ASSUME NEW p \in Packagers, NEW w \in PackagerStates, packager' = [packager EXCEPT ![p] = w],
             PackagerOK(w, WholeRuns, EverPassed), UNCHANGED <<registry, temporary>>,
             packages' \in PackageTypes, PackagesSeen
      PROVE  IInv'
  BY <1>1, <1>3, <1>5, PackagerWrite, PackagingStep
<1>6. ASSUME NEW p \in Packagers, NEW m \in Models, NEW r \in DOMAIN runs, Package(p, m, r)
      PROVE  IInv'
  <2> DEFINE w == [IdlePackager EXCEPT !.pc = "clearing", !.model = m, !.run = r]
  <2>1. w \in PackagerStates /\ PackagerOK(w, WholeRuns, EverPassed)
    BY <1>2 DEF IdlePackager, PackagerStates, PackagerOK
  <2>2. QED BY <1>4, <1>6, <2>1 DEF Package, Begin
<1>7. ASSUME NEW p \in Packagers, NEW m \in Models, NEW e \in EvaluationRuns, ReadReport(p, m, e)
      PROVE  IInv'
  <2> DEFINE w == [IdlePackager EXCEPT !.pc = "recommending", !.model = m, !.evaluation = e,
                                       !.passed = (reports[e].now = "success")]
  <2>1. reports[e].now = "success" => e \in EverPassed
    BY DEF IInv, DiskSeen
  <2>2. w \in PackagerStates /\ PackagerOK(w, WholeRuns, EverPassed)
    BY <2>1 DEF IdlePackager, PackagerStates, PackagerOK
  <2>3. QED BY <1>4, <1>7, <2>2 DEF ReadReport, Begin
<1>8. ASSUME NEW p \in Packagers, NEW m \in Models, NEW s \in STATUSES,
             NEW e \in EvaluationRuns \cup {None}, Promote(p, m, s, e)
      PROVE  IInv'
  <2> DEFINE w == [IdlePackager EXCEPT !.pc = "writing", !.content = Promoted(m, s, e)]
  <2>1. Seen(Promoted(m, s, e), WholeRuns, EverPassed)
    BY <1>8, PromotedIsSeen DEF Promote
  <2>2. w \in PackagerStates /\ PackagerOK(w, WholeRuns, EverPassed)
    BY <2>1 DEF IdlePackager, PackagerStates, PackagerOK, Seen
  <2>3. QED BY <1>4, <1>8, <2>2 DEF Promote, Begin
<1>9. ASSUME NEW p \in Packagers, NEW pc \in {"clearing", "copying", "describing", "verifying"},
             packager[p].pc \in {"clearing", "copying", "describing", "verifying"}, PGoTo(p, pc)
      PROVE  \E w \in PackagerStates : /\ packager' = [packager EXCEPT ![p] = w]
                                       /\ PackagerOK(w, WholeRuns, EverPassed)
  <2> DEFINE w == [packager[p] EXCEPT !.pc = pc]
  <2>1. w \in PackagerStates /\ PackagerOK(w, WholeRuns, EverPassed)
    BY <1>3, <1>9 DEF PackagerStates, PackagerOK
  <2>2. QED BY <1>9, <2>1 DEF PGoTo
<1>10. ASSUME NEW p \in Packagers, PLeave(p)
       PROVE  \E w \in PackagerStates : /\ packager' = [packager EXCEPT ![p] = w]
                                        /\ PackagerOK(w, WholeRuns, EverPassed)
  BY <1>10, IdleIsTyped DEF PLeave
<1>11. ASSUME NEW p \in Packagers, ClearPackage(p) PROVE IInv'
  <2>1. packager[p].model \in Models
    BY <1>3, <1>11 DEF ClearPackage, PAt, PackagerOK
  <2>2. packages' \in PackageTypes /\ PackagesSeen
    BY <1>11, <2>1, AdapterWrite DEF ClearPackage
  <2>3. QED BY <1>5, <1>9, <1>11, <2>2 DEF ClearPackage, PAt
<1>12. ASSUME NEW p \in Packagers, CopyAdapter(p) PROVE IInv'
  <2> DEFINE r == packager[p].run
             c == [run |-> r, state |-> runs[r].adapter]
  <2>1. packager[p].model \in Models /\ r \in DOMAIN runs
    BY <1>3, <1>12 DEF CopyAdapter, PAt, PackagerOK
  <2>2. c \in Copies /\ SeenCopy(c, WholeRuns)
    BY <1>2, <2>1 DEF IInv, RunsTyped, Copies, SeenCopy, WholeRuns
  <2>3. CASE PLeave(p) /\ UNCHANGED packages
    BY <1>4, <1>10, <1>12, <2>3 DEF CopyAdapter
  <2>4. CASE packages' = [packages EXCEPT ![packager[p].model].adapter = c] /\ PGoTo(p, "describing")
    <3>1. packages' \in PackageTypes /\ PackagesSeen
      BY <2>1, <2>2, <2>4, AdapterWrite
    <3>2. QED BY <1>5, <1>9, <1>12, <2>4, <3>1 DEF CopyAdapter, PAt
  <2>5. QED BY <1>12, <2>3, <2>4 DEF CopyAdapter
<1>13. ASSUME NEW p \in Packagers, DescribePackage(p) PROVE IInv'
  <2>1. packager[p].model \in Models /\ packager[p].run \in Numbers
    BY <1>2, <1>3, <1>13 DEF DescribePackage, PAt, PackagerOK
  <2>2. packages' \in PackageTypes /\ \A m \in Models : packages'[m].adapter = packages[m].adapter
    BY <1>3, <1>13, <2>1 DEF DescribePackage
  <2>3. QED BY <1>3, <1>5, <1>9, <1>13, <2>2 DEF DescribePackage, PAt
<1>14. ASSUME NEW p \in Packagers, VerifyPackage(p) PROVE IInv'
  <2>1. CASE PLeave(p)
    BY <1>4, <1>10, <1>14, <2>1 DEF VerifyPackage
  <2>2. CASE ~PLeave(p)
    <3> DEFINE c == Dest(p).adapter
               w == [packager[p] EXCEPT !.pc = "registering", !.answered = c]
    <3>1. packager[p].model \in Models /\ packager[p].run \in DOMAIN runs
      BY <1>3, <1>14 DEF VerifyPackage, PAt, PackagerOK
    <3>2. c \in Copies /\ c.state = "whole" /\ c.run \in WholeRuns
      BY <1>3, <1>14, <2>2, <3>1 DEF VerifyPackage, Dest, SeenCopy
    <3>3. w \in PackagerStates /\ PackagerOK(w, WholeRuns, EverPassed)
      BY <1>3, <3>1, <3>2 DEF PackagerStates, PackagerOK
    <3>4. packager' = [packager EXCEPT ![p] = w]
      BY <1>3, <1>14, <2>2 DEF VerifyPackage
    <3>5. QED BY <1>4, <1>14, <3>3, <3>4 DEF VerifyPackage
  <2>3. QED BY <2>1, <2>2
<1>15. ASSUME NEW p \in Packagers, Register(p) PROVE IInv'
  <2>1. CASE PLeave(p)
    BY <1>4, <1>10, <1>15, <2>1 DEF Register
  <2>2. CASE ~PLeave(p)
    <3> DEFINE x == RegistryEntry(packager[p].run, packager[p].answered)
               reg == [registry EXCEPT ![packager[p].model] = x]
               w == [packager[p] EXCEPT !.pc = "writing", !.content = reg]
    <3>1. /\ packager[p].model \in Models /\ packager[p].run \in Numbers
          /\ packager[p].answered \in Copies /\ packager[p].answered.state = "whole"
          /\ packager[p].answered.run \in WholeRuns
      BY <1>2, <1>3, <1>15 DEF Register, PAt, PackagerOK
    <3>2. x \in Entries /\ SeenEntry(x, WholeRuns, EverPassed)
      BY <3>1 DEF RegistryEntry, Entries, SeenEntry, STATUSES
    <3>3. Seen(reg, WholeRuns, EverPassed)
      BY <1>3, <3>1, <3>2 DEF Seen, Registries
    <3>4. w \in PackagerStates /\ PackagerOK(w, WholeRuns, EverPassed)
      BY <1>3, <3>3 DEF PackagerStates, PackagerOK, Seen
    <3>5. packager' = [packager EXCEPT ![p] = w]
      BY <1>3, <1>15, <2>2 DEF Register
    <3>6. QED BY <1>4, <1>15, <3>4, <3>5 DEF Register
  <2>3. QED BY <2>1, <2>2
<1>16. ASSUME NEW p \in Packagers, Recommend(p) PROVE IInv'
  <2>1. CASE PLeave(p)
    BY <1>4, <1>10, <1>16, <2>1 DEF Recommend
  <2>2. CASE ~PLeave(p)
    <3> DEFINE reg == Promoted(packager[p].model, "RECOMMENDED", packager[p].evaluation)
               w == [packager[p] EXCEPT !.pc = "writing", !.content = reg]
    <3>1. /\ MayMove(packager[p].model, "RECOMMENDED") /\ packager[p].passed
          /\ packager' = [packager EXCEPT ![p] = w]
      BY <1>3, <1>16, <2>2 DEF Recommend
    <3>2. /\ packager[p].model \in Models /\ packager[p].evaluation \in EvaluationRuns
          /\ packager[p].evaluation \in EverPassed
      BY <1>3, <1>16, <3>1 DEF Recommend, PAt, PackagerOK
    <3>3. Seen(reg, WholeRuns, EverPassed)
      BY <3>1, <3>2, PromotedIsSeen DEF STATUSES
    <3>4. w \in PackagerStates /\ PackagerOK(w, WholeRuns, EverPassed)
      <4>1. packager[p] \in PackagerStates
        BY <1>3
      <4>2. w \in PackagerStates /\ w.pc = "writing" /\ w.content = reg
        BY <3>3, <4>1 DEF PackagerStates, Seen
      <4>3. QED BY <3>3, <4>2 DEF PackagerOK
    <3>5. QED BY <1>4, <1>16, <3>1, <3>4 DEF Recommend
  <2>3. QED BY <2>1, <2>2
<1>17. ASSUME NEW p \in Packagers, WriteTemporary(p) PROVE IInv'
  <2> DEFINE w == [packager[p] EXCEPT !.pc = "replacing", !.file = "none", !.shared = FALSE]
  <2>1. Seen(packager[p].content, WholeRuns, EverPassed)
    BY <1>3, <1>17 DEF WriteTemporary, PAt, PackagerOK
  <2>2. w \in PackagerStates /\ PackagerOK(w, WholeRuns, EverPassed)
    <3>1. packager[p] \in PackagerStates
      BY <1>3
    <3>2. w \in PackagerStates /\ w.pc = "replacing"
      BY <3>1 DEF PackagerStates
    <3>3. QED BY <3>2 DEF PackagerOK
  <2>3. packager' \in [Packagers -> PackagerStates] /\ PackagersSeen
    BY <1>17, <2>2, PackagerWrite DEF WriteTemporary
  <2>4. QED BY <1>1, <1>3, <1>17, <2>1, <2>3, PackagingStep DEF WriteTemporary
<1>18. ASSUME NEW p \in Packagers, Replace(p) PROVE IInv'
  <2>1. ASSUME NEW q \in Packagers
        PROVE  packager'[q] \in PackagerStates /\ PackagerOK(packager'[q], WholeRuns, EverPassed)
    <3>1. packager[q] \in PackagerStates /\ PackagerOK(packager[q], WholeRuns, EverPassed)
      BY <1>3
    <3>2. \/ packager'[q] = IdlePackager
          \/ packager'[q] = [packager[q] EXCEPT !.file = @]
          \/ packager'[q] = [packager[q] EXCEPT !.file = Moved(@)]
      BY <1>18 DEF Replace
    <3>3. [packager[q] EXCEPT !.file = @] = packager[q]
      BY <3>1 DEF PackagerStates
    <3>4. QED BY <3>1, <3>2, <3>3, IdleIsTyped, FileIsBeside
  <2>2. packager' \in [Packagers -> PackagerStates] /\ PackagersSeen
    BY <1>18, <2>1 DEF Replace
  <2>3. QED BY <1>1, <1>3, <1>18, <2>2, PackagingStep DEF Replace
<1>19. ASSUME NEW p \in Packagers, KillPackager(p) PROVE IInv'
  <2> DEFINE c == [run |-> packager[p].run, state |-> "partial"]
  <2>1. CASE UNCHANGED packages
    BY <1>4, <1>10, <1>19, <2>1 DEF KillPackager
  <2>2. CASE PAt(p, "copying") /\ packages' = [packages EXCEPT ![packager[p].model].adapter = c]
    <3>1. packager[p].model \in Models /\ packager[p].run \in Numbers
      BY <1>2, <1>3, <2>2 DEF PAt, PackagerOK
    <3>2. c \in Copies /\ SeenCopy(c, WholeRuns)
      BY <3>1 DEF Copies, SeenCopy
    <3>3. packages' \in PackageTypes /\ PackagesSeen
      BY <2>2, <3>1, <3>2, AdapterWrite
    <3>4. QED BY <1>5, <1>10, <1>19, <3>3 DEF KillPackager
  <2>3. QED BY <1>19, <2>1, <2>2 DEF KillPackager
<1>20. ASSUME NEW p \in Packagers, OpenTemporary(p) PROVE IInv'
  <2> DEFINE others == {q \in Packagers : PAt(q, "filling") /\ packager[q].file = "temporary"}
             w == [packager[p] EXCEPT !.pc = "filling", !.file = "temporary",
                                      !.shared = (others # {})]
  <2>1. Seen(packager[p].content, WholeRuns, EverPassed)
    BY <1>3, <1>20 DEF OpenTemporary, PAt, PackagerOK
  <2>2. w \in PackagerStates /\ PackagerOK(w, WholeRuns, EverPassed)
    <3>1. packager[p] \in PackagerStates /\ PackagerOK(packager[p], WholeRuns, EverPassed)
      BY <1>3
    <3>2. w \in PackagerStates
      BY <3>1 DEF PackagerStates
    <3>3. w.pc = "filling" /\ w.content = packager[p].content
      BY <3>1 DEF PackagerStates
    <3>4. QED BY <2>1, <3>2, <3>3 DEF PackagerOK
  <2>3. ASSUME NEW q \in Packagers
        PROVE  packager'[q] \in PackagerStates /\ PackagerOK(packager'[q], WholeRuns, EverPassed)
    <3>1. packager[q] \in PackagerStates /\ PackagerOK(packager[q], WholeRuns, EverPassed)
      BY <1>3
    <3>2. (packager[q].shared \/ q \in others) \in BOOLEAN
      OBVIOUS
    <3>3. CASE q = p
      BY <1>20, <2>2, <3>3 DEF OpenTemporary
    <3>4. CASE q # p
      <4> DEFINE s == packager[q].shared \/ q \in others
      <4>1. packager'[q] = [packager[q] EXCEPT !.shared = s]
        BY <1>20, <3>4 DEF OpenTemporary
      <4>2. s \in BOOLEAN
        BY <3>2
      <4> HIDE DEF s
      <4>3. \A t \in BOOLEAN :
              /\ [packager[q] EXCEPT !.shared = t] \in PackagerStates
              /\ PackagerOK([packager[q] EXCEPT !.shared = t], WholeRuns, EverPassed)
        BY <3>1, FileIsBeside
      <4>4. QED BY <4>1, <4>2, <4>3, Zenon
    <3>5. QED BY <3>3, <3>4
  <2>4. packager' \in [Packagers -> PackagerStates] /\ PackagersSeen
    BY <1>20, <2>3 DEF OpenTemporary
  <2>5. QED BY <1>1, <1>3, <1>20, <2>1, <2>4, PackagingStep DEF OpenTemporary
<1>21. QED
  BY <1>6, <1>7, <1>8, <1>11, <1>12, <1>13, <1>14, <1>15, <1>16, <1>17, <1>18, <1>19, <1>20
  DEF PackagersNext, Command

---------------------------------------------------------------------------
(* The theorem. *)

LEMMA InitialInv == ModelsInit => IInv
<1> SUFFICES ASSUME ModelsInit PROVE IInv
  OBVIOUS
<1>1. RunsTyped
  BY EmptySeq DEF ModelsInit, TrainingInit, RunsTyped
<1>2. DiskTyped
  BY IdleIsTyped DEF ModelsInit, PackagingInit, DiskTyped, NoPackage
<1>3. registry \in Registries /\ \A m \in Models : registry[m] = None
  BY DEF ModelsInit, PackagingInit, Registries
<1>4. DiskSeen
  BY <1>3, IdleIsTyped DEF ModelsInit, PackagingInit, DiskSeen, Seen, NoPackage
<1>5. QED BY <1>1, <1>2, <1>4 DEF IInv

LEMMA InvStep == IInv /\ [ModelsNext]_mvars => IInv'
<1> SUFFICES ASSUME IInv, [ModelsNext]_mvars PROVE IInv'
  OBVIOUS
<1>1. CASE TrainingNext /\ UNCHANGED pvars
  BY <1>1, TrainingKeeps
<1>2. CASE PackagersNext
  BY <1>2, PackagersKeep
<1>3. CASE EvaluationNext
  BY <1>3, EvaluationKeeps
<1>4. CASE UNCHANGED mvars
  BY <1>4, TrainingKeeps DEF mvars, vars
<1>5. QED BY <1>1, <1>2, <1>3, <1>4 DEF ModelsNext

LEMMA InvImplies == IInv => RecommendedOnEvidence
BY NoneAssumption
DEF IInv, DiskSeen, Seen, SeenEntry, Registries, Entries, Registered, WholeRuns, EverPassed,
    RecommendedOnEvidence

\* packaging/registry.py: "a model is never recommended sight-unseen".  For any number of
\* commands that train, package, register, promote and evaluate at once, and wherever they are
\* killed, a registered model was verified with a whole adapter, and a recommended one names an
\* evaluation run whose report once was a success.
THEOREM RecommendationsAreEarned == ModelsSpec => []RecommendedOnEvidence
<1>1. ModelsInit => IInv
  BY InitialInv
<1>2. IInv /\ [ModelsNext]_mvars => IInv'
  BY InvStep
<1>3. IInv => RecommendedOnEvidence
  BY InvImplies
<1>4. QED BY <1>1, <1>2, <1>3, PTL DEF ModelsSpec


-----------------------------------------------------------------------------
(* What is trained. *)

Dtypes  == COMPUTE_DTYPES \cup {"none"}
Reports == [steps : Int, evaluated : BOOLEAN, dtype : Dtypes, reload : BOOLEAN]

TrainingRuns ==
  [status : {"created", "running", "completed", "failed", "interrupted"}, mode : TRAINING_MODES,
   config : DOMAIN Configs, data : DOMAIN DataSets, recorded : BOOLEAN,
   adapter : {"none", "partial", "whole"}, report : Reports, error : BOOLEAN, override : BOOLEAN]

TrainerStates ==
  [pc : {"checking", "recording", "starting", "preflight", "training", "saving", "verifying",
         "failing", "reporting", "completing"},
   run : Nat, cmd : DOMAIN Commands, data : DOMAIN DataSets, dtype : Dtypes]

\* What the final report of a run must say.
Reported(r) ==
  /\ r.report.dtype \in COMPUTE_DTYPES /\ r.report.reload
  /\ r.report.evaluated => DataSets[r.data].records.validation # <<>>
  /\ r.mode = "smoke_test" => r.report.steps <= 2

\* The part of TrainedIsProven that holds of a run from its first moment, and its end.
Sound(r) ==
  /\ ExperimentConfig(Configs[r.config]) /\ LoadTrainingDataset(DataSets[r.data], TRUE)
  /\ r.report = NoReport \/ Reported(r)
  /\ r.adapter # "none" => r.recorded /\ r.mode # "dry_run"
  /\ r.status = "failed" <=> r.error
  /\ r.status = "completed" /\ r.mode # "dry_run" => r.adapter = "whole" /\ Reported(r)

\* Where a process is decides what its run's directory shows.
Stage(w, r) ==
  /\ r.config = Commands[w.cmd].config /\ r.mode = Commands[w.cmd].mode /\ r.data = w.data
  /\ r.status = IF w.pc \in {"checking", "recording", "starting"} THEN "created" ELSE "running"
  /\ r.recorded = (w.pc \notin {"checking", "recording"})
  /\ w.pc \in {"checking", "recording", "starting", "preflight", "training"} => r.adapter = "none"
  /\ w.pc \in {"training", "saving", "verifying", "reporting"} =>
       r.mode # "dry_run" /\ w.dtype \in COMPUTE_DTYPES
  /\ w.pc = "reporting" => r.adapter = "whole"
  /\ w.pc = "completing" /\ r.mode # "dry_run" => r.adapter = "whole" /\ Reported(r)

Training(t) == trainer[t] # IdleTrainer

TrainingTyped ==
  /\ dataset \in DOMAIN DataSets
  /\ runs \in Seq(TrainingRuns)
  /\ trainer \in [Trainers -> TrainerStates \cup {IdleTrainer}]

TrainingInv ==
  /\ TrainingTyped
  /\ \A i \in DOMAIN runs : Sound(runs[i])
  /\ \A t \in Trainers : Training(t) => trainer[t].run \in DOMAIN runs /\ Stage(trainer[t], Mine(t))
  /\ \A t, u \in Trainers : t # u /\ Training(t) /\ Training(u) => trainer[t].run # trainer[u].run

LEMMA RunsAreNumbered ==
  ASSUME TrainingTyped
  PROVE  /\ DOMAIN runs = 1..Len(runs) /\ Len(runs) \in Nat
         /\ \A i \in DOMAIN runs : runs[i] \in TrainingRuns
BY DEF TrainingTyped

\* A process writes its own run, and goes on as it shows, or leaves.
LEMMA TrainerWrite ==
  ASSUME TrainingInv, NEW t \in Trainers, Training(t), NEW x \in TrainingRuns, Sound(x),
         NEW w \in TrainerStates \cup {IdleTrainer}, UNCHANGED dataset,
         runs' = [runs EXCEPT ![trainer[t].run] = x], trainer' = [trainer EXCEPT ![t] = w],
         w = IdleTrainer \/ (w.run = trainer[t].run /\ Stage(w, x))
  PROVE  TrainingInv'
<1> DEFINE k == trainer[t].run
<1>1. TrainingTyped /\ DOMAIN runs = 1..Len(runs) /\ k \in DOMAIN runs
  BY RunsAreNumbered DEF TrainingInv
<1>2. /\ runs' \in Seq(TrainingRuns) /\ DOMAIN runs' = DOMAIN runs
      /\ \A i \in DOMAIN runs : runs'[i] = IF i = k THEN x ELSE runs[i]
  BY <1>1 DEF TrainingTyped
<1>3. trainer' \in [Trainers -> TrainerStates \cup {IdleTrainer}]
  BY <1>1 DEF TrainingTyped
<1>4. \A u \in Trainers : trainer'[u] = IF u = t THEN w ELSE trainer[u]
  BY <1>1 DEF TrainingTyped
<1>5. \A i \in DOMAIN runs' : Sound(runs'[i])
  BY <1>2 DEF TrainingInv
<1>6. ASSUME NEW u \in Trainers, trainer'[u] # IdleTrainer
      PROVE  trainer'[u].run \in DOMAIN runs' /\ Stage(trainer'[u], runs'[trainer'[u].run])
  <2>1. CASE u = t
    BY <1>1, <1>2, <1>4, <1>6, <2>1
  <2>2. CASE u # t
    <3>1. Training(u) /\ trainer[u].run # k
      BY <1>4, <1>6, <2>2 DEF TrainingInv, Training
    <3>2. QED BY <1>2, <1>4, <2>2, <3>1 DEF TrainingInv, Mine
  <2>3. QED BY <2>1, <2>2
<1>7. ASSUME NEW u \in Trainers, NEW v \in Trainers, u # v, trainer'[u] # IdleTrainer,
             trainer'[v] # IdleTrainer
      PROVE  trainer'[u].run # trainer'[v].run
  BY <1>4, <1>7 DEF TrainingInv, Training
<1>8. QED BY <1>1, <1>2, <1>3, <1>5, <1>6, <1>7 DEF TrainingInv, TrainingTyped, Training, Mine

\* A process thinks, or leaves.
LEMMA TrainerThinks ==
  ASSUME TrainingInv, NEW t \in Trainers, Training(t), UNCHANGED <<dataset, runs>>,
         NEW w \in TrainerStates \cup {IdleTrainer}, trainer' = [trainer EXCEPT ![t] = w],
         w = IdleTrainer \/ (w.run = trainer[t].run /\ Stage(w, Mine(t)))
  PROVE  TrainingInv'
<1>1. /\ TrainingTyped /\ trainer[t].run \in DOMAIN runs
      /\ Mine(t) \in TrainingRuns /\ Sound(Mine(t))
  BY RunsAreNumbered DEF TrainingInv, Mine
<1>2. runs' = [runs EXCEPT ![trainer[t].run] = Mine(t)]
  BY <1>1 DEF TrainingTyped, Mine
<1>3. QED BY <1>1, <1>2, TrainerWrite

LEMMA TrainerLeaves ==
  ASSUME TrainingInv, NEW t \in Trainers, Training(t), UNCHANGED <<dataset, runs>>, TLeave(t)
  PROVE  TrainingInv'
<1>1. IdleTrainer \in TrainerStates \cup {IdleTrainer}
  OBVIOUS
<1>2. QED BY <1>1, TrainerThinks DEF TLeave

\* What a training process knows of itself and of its run.
LEMMA TrainerKnows ==
  ASSUME TrainingInv, NEW t \in Trainers, trainer[t].pc # "idle"
  PROVE  /\ Training(t) /\ trainer[t] \in TrainerStates
         /\ trainer[t].run \in DOMAIN runs /\ Mine(t) \in TrainingRuns
         /\ Sound(Mine(t)) /\ Stage(trainer[t], Mine(t))
<1>1. Training(t)
  BY DEF Training, IdleTrainer
<1>2. QED BY <1>1, RunsAreNumbered DEF TrainingInv, TrainingTyped, Training, Mine

\* What the commands and the configurations are.
LEMMA CommandsAreKnown ==
  ASSUME NEW k \in DOMAIN Commands
  PROVE  Commands[k].mode \in TRAINING_MODES /\ Commands[k].config \in DOMAIN Configs
BY TrainingAssumption

\* A split that is cut is empty only if it was.
LEMMA CutKeepsEmptiness ==
  ASSUME NEW S, NEW s \in Seq(S), NEW n \in Nat
  PROVE  /\ AtMost(n, s) \in Seq(S)
         /\ s = <<>> => AtMost(n, s) = <<>>
BY DEF AtMost

LEMMA ReportIsHonest ==
  ASSUME NEW k \in DOMAIN Commands, NEW d \in DOMAIN DataSets,
         ExperimentConfig(Configs[Commands[k].config])
  PROVE  LET mode == Commands[k].mode
             dpo  == BuildDpoConfig(Configs[Commands[k].config], mode,
                                    SelectRecords(mode, DataSets[d]))
         IN  /\ dpo.steps \in Int /\ dpo.evaluates \in BOOLEAN
             /\ dpo.evaluates => DataSets[d].records.validation # <<>>
             /\ mode = "smoke_test" => dpo.steps <= 2
<1> DEFINE c == Configs[Commands[k].config]
           mode == Commands[k].mode
           chosen == SelectRecords(mode, DataSets[d])
           dpo == BuildDpoConfig(c, mode, chosen)
           Pairs == [prompt : Nat, chosen : Nat, rejected : Nat]
<1>1. c.maxSteps \in Int /\ c.epochs \in Int /\ c.batch \in Int
  BY CommandsAreKnown, ConfigsAssumption
<1>2. c.batch > 0 /\ (c.maxSteps = -1 \/ c.maxSteps > 0)
  BY DEF ExperimentConfig, TrainingSettings
<1>3. /\ DataSets[d].records.train \in Seq(Pairs)
      /\ DataSets[d].records.validation \in Seq(Pairs)
  BY DataSetsAssumption DEF Splits
<1>4. /\ chosen.train \in Seq(Pairs)
      /\ DataSets[d].records.validation = <<>> => chosen.validation = <<>>
  BY <1>3, CutKeepsEmptiness DEF SelectRecords
<1>5. Len(chosen.train) \in Nat
  BY <1>4
<1>6. (Len(chosen.train) \div c.batch) \in Int
  BY <1>1, <1>2, <1>5
<1>7. Larger(1, Len(chosen.train) \div c.batch) \in Int
  BY <1>6 DEF Larger
<1>8. /\ SmokeSteps(c, mode) \in Int
      /\ mode = "smoke_test" => SmokeSteps(c, mode) > 0 /\ SmokeSteps(c, mode) <= 2
  BY <1>1 DEF SmokeSteps, Smaller
<1>9. \A e \in Int : Larger(1, Len(chosen.train) \div c.batch) * e \in Int
  BY <1>7
<1>10. /\ dpo.steps \in Int
       /\ mode = "smoke_test" => dpo.steps <= 2
  BY <1>1, <1>8, <1>9 DEF BuildDpoConfig
<1>11. dpo.evaluates \in BOOLEAN /\ (dpo.evaluates => DataSets[d].records.validation # <<>>)
  BY <1>4 DEF BuildDpoConfig
<1>12. QED BY <1>10, <1>11

LEMMA TrainDpoStep ==
  ASSUME TrainingInv, NEW t \in Trainers, NEW k \in DOMAIN Commands, TrainDpo(t, k)
  PROVE  TrainingInv'
<1> DEFINE cmd == Commands[k]
           x == NewRun(cmd)
           w == [pc |-> IF cmd.resume THEN "checking" ELSE "recording", run |-> Len(runs) + 1,
                 cmd |-> k, data |-> dataset, dtype |-> "none"]
<1>1. /\ TrainingTyped /\ DOMAIN runs = 1..Len(runs) /\ Len(runs) \in Nat
  BY RunsAreNumbered DEF TrainingInv
<1>2. cmd.mode \in TRAINING_MODES /\ cmd.config \in DOMAIN Configs
  BY CommandsAreKnown
<1>3. x \in TrainingRuns
  BY <1>1, <1>2 DEF NewRun, TrainingRuns, TrainingTyped, NoReport, Reports, Dtypes
<1>4. Sound(x)
  BY <1>1 DEF TrainDpo, NewRun, Sound, LoadTrainingDataset
<1>5. w \in TrainerStates /\ Stage(w, x)
  <2>1. w.pc \in {"checking", "recording"}
    OBVIOUS
  <2>2. w \in TrainerStates
    BY <1>1 DEF TrainerStates, TrainingTyped, Dtypes
  <2>3. Stage(w, x)
    BY <2>1 DEF Stage, NewRun
  <2>4. QED BY <2>2, <2>3
<1>6. runs' = Append(runs, x) /\ trainer' = [trainer EXCEPT ![t] = w] /\ UNCHANGED dataset
  BY DEF TrainDpo
<1>7. /\ runs' \in Seq(TrainingRuns) /\ DOMAIN runs' = 1..(Len(runs) + 1)
      /\ \A i \in DOMAIN runs : i \in DOMAIN runs' /\ runs'[i] = runs[i]
      /\ runs'[Len(runs) + 1] = x
  BY <1>1, <1>3, <1>6 DEF TrainingTyped
<1>8. \A i \in DOMAIN runs' : i \in DOMAIN runs \/ i = Len(runs) + 1
  BY <1>1, <1>7
<1>9. /\ trainer' \in [Trainers -> TrainerStates \cup {IdleTrainer}]
      /\ \A u \in Trainers : trainer'[u] = IF u = t THEN w ELSE trainer[u]
  BY <1>1, <1>5, <1>6 DEF TrainingTyped
<1>10. \A u \in Trainers : Training(u) => trainer[u].run \in DOMAIN runs
                                          /\ trainer[u].run # Len(runs) + 1
  BY <1>1 DEF TrainingInv
<1>11. \A i \in DOMAIN runs' : Sound(runs'[i])
  BY <1>4, <1>7, <1>8 DEF TrainingInv
<1>12. ASSUME NEW u \in Trainers, trainer'[u] # IdleTrainer
       PROVE  trainer'[u].run \in DOMAIN runs' /\ Stage(trainer'[u], runs'[trainer'[u].run])
  <2>1. CASE u = t
    BY <1>1, <1>5, <1>7, <1>9, <2>1
  <2>2. CASE u # t
    BY <1>7, <1>9, <1>10, <1>12, <2>2 DEF TrainingInv, Training, Mine
  <2>3. QED BY <2>1, <2>2
<1>13. ASSUME NEW u \in Trainers, NEW v \in Trainers, u # v, trainer'[u] # IdleTrainer,
              trainer'[v] # IdleTrainer
       PROVE  trainer'[u].run # trainer'[v].run
  BY <1>9, <1>10, <1>13 DEF TrainingInv, Training
<1>14. QED
  BY <1>1, <1>6, <1>7, <1>9, <1>11, <1>12, <1>13 DEF TrainingInv, TrainingTyped, Training, Mine

\* A changed dataset is noted in the directory of the run that was to be resumed.
LEMMA CheckResumeStep ==
  ASSUME TrainingInv, NEW t \in Trainers, NEW source \in {0} \cup DOMAIN runs, CheckResume(t, source)
  PROVE  TrainingInv'
<1> DEFINE changed == runs[source].data # trainer[t].data
           y == [runs[source] EXCEPT !.override = @ \/ changed]
           w == [trainer[t] EXCEPT !.pc = "recording"]
<1>1. /\ Training(t) /\ trainer[t] \in TrainerStates /\ trainer[t].run \in DOMAIN runs
      /\ Stage(trainer[t], Mine(t)) /\ trainer[t].pc = "checking"
  BY TrainerKnows DEF CheckResume, TAt
<1>2. CASE TLeave(t) /\ UNCHANGED runs
  BY <1>1, <1>2, TrainerLeaves DEF CheckResume
<1>3. CASE /\ source # 0 /\ TGoTo(t, "recording")
           /\ runs' = [runs EXCEPT ![source].override = @ \/ changed]
  <2>1. TrainingTyped /\ DOMAIN runs = 1..Len(runs) /\ source \in DOMAIN runs
    BY <1>3, RunsAreNumbered DEF TrainingInv
  <2>2. runs[source] \in TrainingRuns /\ Sound(runs[source])
    BY <2>1, RunsAreNumbered DEF TrainingInv
  <2>3. y \in TrainingRuns
    BY <2>2 DEF TrainingRuns
  <2>4. /\ y.status = runs[source].status /\ y.mode = runs[source].mode
        /\ y.config = runs[source].config /\ y.data = runs[source].data
        /\ y.recorded = runs[source].recorded /\ y.adapter = runs[source].adapter
        /\ y.report = runs[source].report /\ y.error = runs[source].error
    BY <2>2 DEF TrainingRuns
  <2>5. Sound(y)
    BY <2>2, <2>4 DEF Sound, Reported
  <2>6. \A v : Stage(v, runs[source]) => Stage(v, y)
    BY <2>4 DEF Stage, Reported
  <2>7. runs' = [runs EXCEPT ![source] = y]
    BY <1>3
  <2>8. /\ runs' \in Seq(TrainingRuns) /\ DOMAIN runs' = DOMAIN runs
        /\ \A i \in DOMAIN runs : runs'[i] = IF i = source THEN y ELSE runs[i]
    BY <2>1, <2>3, <2>7 DEF TrainingTyped
  <2>9. w \in TrainerStates /\ w.run = trainer[t].run /\ Stage(w, Mine(t))
    BY <1>1 DEF TrainerStates, Stage
  <2>10. /\ trainer' \in [Trainers -> TrainerStates \cup {IdleTrainer}]
         /\ \A u \in Trainers : trainer'[u] = IF u = t THEN w ELSE trainer[u]
    BY <1>3, <2>1, <2>9 DEF TGoTo, TrainingTyped
  <2>11. \A i \in DOMAIN runs' : Sound(runs'[i])
    BY <2>5, <2>8 DEF TrainingInv
  <2>12. ASSUME NEW u \in Trainers, trainer'[u] # IdleTrainer
         PROVE  trainer'[u].run \in DOMAIN runs' /\ Stage(trainer'[u], runs'[trainer'[u].run])
    <3>1. /\ Training(u) /\ trainer'[u].run = trainer[u].run /\ trainer[u].run \in DOMAIN runs
          /\ Stage(trainer'[u], runs[trainer[u].run])
      BY <1>1, <2>9, <2>10, <2>12 DEF TrainingInv, Training, Mine
    <3>2. QED BY <2>6, <2>8, <3>1
  <2>13. \A u \in Trainers : trainer'[u] # IdleTrainer => Training(u)
                                                         /\ trainer'[u].run = trainer[u].run
    BY <1>1, <2>9, <2>10 DEF Training
  <2>14. TrainingTyped'
    BY <2>1, <2>8, <2>10 DEF TrainingTyped, CheckResume
  <2>15. \A u, v \in Trainers : u # v /\ trainer'[u] # IdleTrainer /\ trainer'[v] # IdleTrainer
                                => trainer'[u].run # trainer'[v].run
    BY <2>13 DEF TrainingInv
  <2>16. QED BY <2>11, <2>12, <2>14, <2>15 DEF TrainingInv, Training, Mine
<1>4. QED BY <1>2, <1>3 DEF CheckResume

LEMMA TrainingStep ==
  ASSUME TrainingInv, [TrainingNext]_tvars
  PROVE  TrainingInv'
<1>1. CASE Regenerate
  <2>1. dataset' \in DOMAIN DataSets /\ UNCHANGED <<runs, trainer>>
    BY <1>1 DEF Regenerate
  <2>2. QED BY <2>1 DEF TrainingInv, TrainingTyped, Training, Mine
<1>2. CASE UNCHANGED tvars
  BY <1>2 DEF tvars, TrainingInv, TrainingTyped, Training, Mine
<1>3. ASSUME NEW t \in Trainers, RecordInputs(t) PROVE TrainingInv'
  <2> DEFINE x == [Mine(t) EXCEPT !.recorded = TRUE]
             w == [trainer[t] EXCEPT !.pc = "starting"]
  <2>1. TAt(t, "recording")
    BY <1>3 DEF RecordInputs
  <2>2. /\ Training(t) /\ trainer[t] \in TrainerStates /\ Mine(t) \in TrainingRuns
        /\ Sound(Mine(t)) /\ Stage(trainer[t], Mine(t))
    BY <2>1, TrainerKnows DEF TAt
  <2>3. x \in TrainingRuns /\ Sound(x)
    BY <2>2 DEF TrainingRuns, Sound, Reported
  <2>4. w \in TrainerStates /\ w.run = trainer[t].run /\ Stage(w, x)
    BY <2>1, <2>2 DEF TAt, TrainerStates, TrainingRuns, Stage
  <2>5. runs' = [runs EXCEPT ![trainer[t].run] = x] /\ trainer' = [trainer EXCEPT ![t] = w]
    BY <1>3 DEF RecordInputs, TGoTo, Mine
  <2>6. QED BY <1>3, <2>2, <2>3, <2>4, <2>5, TrainerWrite DEF RecordInputs
<1>4. ASSUME NEW t \in Trainers, StartTraining(t) PROVE TrainingInv'
  <2> DEFINE x == [Mine(t) EXCEPT !.status = "running"]
             w == [trainer[t] EXCEPT !.pc = "preflight"]
  <2>1. TAt(t, "starting")
    BY <1>4 DEF StartTraining
  <2>2. /\ Training(t) /\ trainer[t] \in TrainerStates /\ Mine(t) \in TrainingRuns
        /\ Sound(Mine(t)) /\ Stage(trainer[t], Mine(t))
    BY <2>1, TrainerKnows DEF TAt
  <2>3. x \in TrainingRuns /\ Sound(x)
    BY <2>1, <2>2 DEF TAt, TrainingRuns, Sound, Reported, Stage
  <2>4. w \in TrainerStates /\ w.run = trainer[t].run /\ Stage(w, x)
    BY <2>1, <2>2 DEF TAt, TrainerStates, TrainingRuns, Stage
  <2>5. runs' = [runs EXCEPT ![trainer[t].run] = x] /\ trainer' = [trainer EXCEPT ![t] = w]
    BY <1>4 DEF StartTraining, UpdateTraining, TGoTo, Mine
  <2>6. QED BY <1>4, <2>2, <2>3, <2>4, <2>5, TrainerWrite DEF StartTraining
\* A process that works on goes to another point of the job, where the same is known.
<1>5. ASSUME NEW t \in Trainers, NEW w \in TrainerStates, trainer' = [trainer EXCEPT ![t] = w],
             UNCHANGED <<dataset, runs>>, trainer[t].pc # "idle", w.run = trainer[t].run,
             Stage(trainer[t], Mine(t)) => Stage(w, Mine(t))
      PROVE  TrainingInv'
  BY <1>5, TrainerKnows, TrainerThinks
<1>6. ASSUME NEW t \in Trainers, NEW m \in Machines, RunPreflight(t, m) PROVE TrainingInv'
  <2> DEFINE pc == IF ~Preflight(Setting(t), m, Loaded(t), Asked(t).override) THEN "failing"
                   ELSE IF Asked(t).mode = "dry_run" THEN "completing" ELSE "training"
             w == [trainer[t] EXCEPT !.pc = pc, !.dtype = ComputeDtype(Setting(t), m)]
  <2>1. TAt(t, "preflight")
    BY <1>6 DEF RunPreflight
  <2>2. /\ Training(t) /\ trainer[t] \in TrainerStates /\ Mine(t) \in TrainingRuns
        /\ Sound(Mine(t)) /\ Stage(trainer[t], Mine(t))
    BY <2>1, TrainerKnows DEF TAt
  <2>3. Setting(t).dtype \in COMPUTE_DTYPES
    BY <2>2 DEF Setting, Asked, Stage, Sound, ExperimentConfig, QuantizationSettings
  <2>4. ComputeDtype(Setting(t), m) \in COMPUTE_DTYPES
    BY <2>3 DEF ComputeDtype, COMPUTE_DTYPES
  <2>5. /\ pc \in {"failing", "completing", "training"}
        /\ pc = "completing" => Mine(t).mode = "dry_run"
        /\ pc = "training" => Mine(t).mode # "dry_run"
    BY <2>2 DEF Stage, Asked
  <2>6. /\ w \in TrainerStates /\ w.run = trainer[t].run /\ w.pc = pc /\ w.cmd = trainer[t].cmd
        /\ w.data = trainer[t].data /\ w.dtype \in COMPUTE_DTYPES
    BY <2>2, <2>4, <2>5 DEF TrainerStates, Dtypes
  <2>7. Stage(w, Mine(t))
    BY <2>1, <2>2, <2>5, <2>6 DEF TAt, Stage
  <2>8. trainer' = [trainer EXCEPT ![t] = w]
    BY <1>6 DEF RunPreflight
  <2>9. QED BY <1>6, <2>1, <2>6, <2>7, <2>8, <1>5 DEF RunPreflight, TAt
<1>7. ASSUME NEW t \in Trainers, NEW pc \in {"saving", "reporting", "failing"}, TGoTo(t, pc),
             UNCHANGED <<dataset, runs>>,
             \/ pc = "saving" /\ TAt(t, "training")
             \/ pc = "reporting" /\ TAt(t, "verifying") /\ Mine(t).adapter = "whole"
             \/ pc = "failing" /\ trainer[t].pc \in {"preflight", "training", "saving", "verifying"}
      PROVE  TrainingInv'
  <2> DEFINE w == [trainer[t] EXCEPT !.pc = pc]
  <2>1. /\ trainer[t].pc # "idle" /\ trainer[t] \in TrainerStates
    BY <1>7, TrainerKnows DEF TAt
  <2>2. w \in TrainerStates /\ w.run = trainer[t].run
    BY <2>1 DEF TrainerStates
  <2>3. Stage(trainer[t], Mine(t)) => Stage(w, Mine(t))
    BY <1>7, <2>1 DEF TAt, TrainerStates, Stage
  <2>4. QED BY <1>5, <1>7, <2>1, <2>2, <2>3 DEF TGoTo
<1>8. ASSUME NEW t \in Trainers, Train(t) \/ VerifyAdapter(t) \/ Raise(t) PROVE TrainingInv'
  BY <1>7, <1>8 DEF Train, VerifyAdapter, Raise
\* A write to the adapter's directory.
<1>9. ASSUME NEW t \in Trainers, TAt(t, "saving"), NEW a \in {"partial", "whole"},
             NEW pc \in {"saving", "verifying"}, UNCHANGED dataset,
             runs' = [runs EXCEPT ![trainer[t].run].adapter = a],
             trainer' = [trainer EXCEPT ![t] = [trainer[t] EXCEPT !.pc = pc]]
      PROVE  TrainingInv'
  <2> DEFINE x == [Mine(t) EXCEPT !.adapter = a]
             w == [trainer[t] EXCEPT !.pc = pc]
  <2>1. /\ Training(t) /\ trainer[t] \in TrainerStates /\ Mine(t) \in TrainingRuns
        /\ Sound(Mine(t)) /\ Stage(trainer[t], Mine(t))
    BY <1>9, TrainerKnows DEF TAt
  <2>2. x \in TrainingRuns /\ Sound(x)
    BY <1>9, <2>1 DEF TAt, TrainingRuns, Sound, Reported, Stage
  <2>3. w \in TrainerStates /\ w.run = trainer[t].run /\ Stage(w, x)
    BY <1>9, <2>1 DEF TAt, TrainerStates, TrainingRuns, Stage
  <2>4. runs' = [runs EXCEPT ![trainer[t].run] = x]
    BY <1>9 DEF Mine
  <2>5. QED BY <1>9, <2>1, <2>2, <2>3, <2>4, TrainerWrite
<1>10. ASSUME NEW t \in Trainers, BeginSave(t) PROVE TrainingInv'
  <2>1. trainer[t] \in TrainerStates /\ trainer[t].pc = "saving" /\ TrainingTyped
    BY <1>10, TrainerKnows DEF BeginSave, TAt, TrainingInv
  <2>2. trainer' = [trainer EXCEPT ![t] = [trainer[t] EXCEPT !.pc = "saving"]]
    BY <1>10, <2>1 DEF BeginSave, TrainingTyped, TrainerStates
  <2>3. QED BY <1>9, <1>10, <2>2 DEF BeginSave
<1>11. ASSUME NEW t \in Trainers, SaveAdapter(t) PROVE TrainingInv'
  BY <1>9, <1>11 DEF SaveAdapter, TGoTo
<1>12. ASSUME NEW t \in Trainers, FailRun(t) PROVE TrainingInv'
  <2> DEFINE x == [Mine(t) EXCEPT !.status = "failed", !.error = TRUE]
  <2>1. /\ Training(t) /\ Mine(t) \in TrainingRuns /\ Sound(Mine(t))
    BY <1>12, TrainerKnows DEF FailRun, TAt
  <2>2. x \in TrainingRuns /\ Sound(x)
    BY <2>1 DEF TrainingRuns, Sound, Reported
  <2>3. runs' = [runs EXCEPT ![trainer[t].run] = x]
    BY <1>12, <2>1 DEF FailRun, Mine, TrainingInv, TrainingTyped
  <2>4. IdleTrainer \in TrainerStates \cup {IdleTrainer}
    OBVIOUS
  <2>5. QED BY <1>12, <2>1, <2>2, <2>3, <2>4, TrainerWrite DEF FailRun, TLeave
<1>13. ASSUME NEW t \in Trainers, WriteFinalReport(t) PROVE TrainingInv'
  <2> DEFINE dpo == BuildDpoConfig(Setting(t), Asked(t).mode,
                                   SelectRecords(Asked(t).mode, Loaded(t)))
             report == [steps |-> dpo.steps, evaluated |-> dpo.evaluates,
                        dtype |-> trainer[t].dtype, reload |-> TRUE]
             x == [Mine(t) EXCEPT !.report = report]
             w == [trainer[t] EXCEPT !.pc = "completing"]
  <2>1. /\ Training(t) /\ trainer[t] \in TrainerStates /\ Mine(t) \in TrainingRuns
        /\ Sound(Mine(t)) /\ Stage(trainer[t], Mine(t)) /\ trainer[t].pc = "reporting"
    BY <1>13, TrainerKnows DEF WriteFinalReport, TAt
  <2>2. /\ trainer[t].cmd \in DOMAIN Commands /\ trainer[t].data \in DOMAIN DataSets
        /\ ExperimentConfig(Configs[Commands[trainer[t].cmd].config])
    BY <2>1 DEF TrainerStates, Stage, Sound
  <2>3. /\ dpo.steps \in Int /\ dpo.evaluates \in BOOLEAN
        /\ dpo.evaluates => DataSets[trainer[t].data].records.validation # <<>>
        /\ Asked(t).mode = "smoke_test" => dpo.steps <= 2
    BY <2>2, ReportIsHonest DEF Setting, Asked, Loaded
  <2>4. trainer[t].dtype \in COMPUTE_DTYPES
    BY <2>1 DEF Stage
  <2>5. report \in Reports
    BY <2>3, <2>4 DEF Reports, Dtypes
  <2>6. x \in TrainingRuns /\ x.report = report /\ x.mode = Mine(t).mode /\ x.data = Mine(t).data
    BY <2>1, <2>5 DEF TrainingRuns
  <2>7. Reported(x)
    BY <2>1, <2>3, <2>4, <2>6 DEF Reported, Stage, Asked
  <2>8. Sound(x)
    BY <2>1, <2>6, <2>7 DEF TrainingRuns, Sound
  <2>9. w \in TrainerStates /\ w.run = trainer[t].run /\ Stage(w, x)
    BY <2>1, <2>7 DEF TrainerStates, TrainingRuns, Stage
  <2>10. runs' = [runs EXCEPT ![trainer[t].run] = x] /\ trainer' = [trainer EXCEPT ![t] = w]
    BY <1>13 DEF WriteFinalReport, TGoTo, Mine
  <2>11. QED BY <1>13, <2>1, <2>6, <2>8, <2>9, <2>10, TrainerWrite DEF WriteFinalReport
\* The last status of a run.
<1>14. ASSUME NEW t \in Trainers, UNCHANGED dataset, NEW s \in {"completed", "interrupted"},
              UpdateTraining(t, s, "idle"), TAt(t, "completing") \/ s = "interrupted",
              trainer[t].pc # "idle", Mine(t).status = "running"
       PROVE  TrainingInv'
  <2> DEFINE x == [Mine(t) EXCEPT !.status = s]
  <2>1. /\ Training(t) /\ trainer[t] \in TrainerStates /\ Mine(t) \in TrainingRuns
        /\ Sound(Mine(t)) /\ Stage(trainer[t], Mine(t))
    BY <1>14, TrainerKnows
  <2>2. x \in TrainingRuns /\ Sound(x)
    BY <1>14, <2>1 DEF TAt, TrainingRuns, Sound, Reported, Stage
  <2>3. runs' = [runs EXCEPT ![trainer[t].run] = x]
    BY <1>14 DEF UpdateTraining, Mine
  <2>4. IdleTrainer \in TrainerStates \cup {IdleTrainer}
    OBVIOUS
  <2>5. QED BY <1>14, <2>1, <2>2, <2>3, <2>4, TrainerWrite DEF UpdateTraining, TLeave
<1>15. ASSUME NEW t \in Trainers, CompleteTraining(t) PROVE TrainingInv'
  <2>1. trainer[t].pc = "completing" /\ Mine(t).status = "running"
    BY <1>15, TrainerKnows DEF CompleteTraining, TAt, Stage
  <2>2. QED BY <1>14, <1>15, <2>1 DEF CompleteTraining
<1>16. ASSUME NEW t \in Trainers, InterruptTraining(t) PROVE TrainingInv'
  <2>1. /\ trainer[t].pc \in {"preflight", "training", "saving", "verifying"}
        /\ Mine(t).status = "running" /\ Training(t)
    BY <1>16, TrainerKnows DEF InterruptTraining, Stage
  <2>2. CASE UpdateTraining(t, "interrupted", "idle")
    BY <1>14, <1>16, <2>1, <2>2 DEF InterruptTraining
  <2>3. CASE TLeave(t) /\ UNCHANGED runs
    BY <1>16, <2>1, <2>3, TrainerLeaves DEF InterruptTraining
  <2>4. QED BY <1>16, <2>2, <2>3 DEF InterruptTraining
<1>17. ASSUME NEW t \in Trainers, KillTraining(t) PROVE TrainingInv'
  BY <1>17, TrainerKnows, TrainerLeaves DEF KillTraining, TAt
<1>18. QED
  BY <1>1, <1>2, <1>3, <1>4, <1>6, <1>8, <1>10, <1>11, <1>12, <1>13, <1>15, <1>16, <1>17,
     TrainDpoStep, CheckResumeStep
  DEF TrainingNext, Job

\* Packaging and evaluation read what training wrote.
LEMMA TrainingInvStep ==
  ASSUME TrainingInv, [ModelsNext]_mvars
  PROVE  TrainingInv'
<1>1. CASE TrainingNext
  BY <1>1, TrainingStep
<1>2. CASE UNCHANGED <<dataset, runs, trainer>>
  BY <1>2 DEF TrainingInv, TrainingTyped, Training, Mine
<1>3. CASE PackagersNext
  <2>1. UNCHANGED <<dataset, runs, trainer>>
    BY <1>3 DEF PackagersNext, Package, ReadReport, Promote, Command, ClearPackage, CopyAdapter,
         DescribePackage, VerifyPackage, Register, Recommend, OpenTemporary, WriteTemporary,
         Replace, KillPackager, tvars
  <2>2. QED BY <1>2, <2>1
<1>4. CASE EvaluationNext
  <2>1. UNCHANGED <<dataset, runs, trainer>>
    BY <1>4 DEF EvaluationNext, OpenBenchmark, Evaluate, CreateEvaluation, RecordExperiment,
         StartEvaluation, LoadModel, Generate, Judge, NextVariant, RaiseInEvaluation,
         FailEvaluation, CompleteEvaluation, ReportRun, ReportAgain, ChangeCatalog, BenchmarkBuild,
         InterruptEvaluation, KillEvaluation, Alone, Elsewhere, tvars, pvars
  <2>2. QED BY <1>2, <2>1
<1>5. CASE UNCHANGED mvars
  BY <1>2, <1>5 DEF mvars, vars, tvars
<1>6. QED BY <1>1, <1>3, <1>4, <1>5 DEF ModelsNext

LEMMA SoundIsProven ==
  ASSUME TrainingInv
  PROVE  TrainedIsProven
<1>1. ASSUME NEW i \in DOMAIN runs PROVE runs[i] \in TrainingRuns /\ Sound(runs[i])
  BY RunsAreNumbered DEF TrainingInv
<1>2. \A i \in DOMAIN runs : TrainingManifest(runs[i])
  BY <1>1 DEF TrainingManifest, TrainingRuns, Sound, Reported
<1>3. QED BY <1>1, <1>2 DEF TrainedIsProven, Sound, Reported

\* training/trainer.py: an adapter is not final until it was reloaded from disk.  For any
\* number of training runs and processes, whatever machine, data, failures, signals and kills
\* they meet, a completed run that trained has a whole adapter and an honest report of it,
\* exactly the failed runs have an error record, and a dry run leaves no adapter.
THEOREM CompletedTrainingIsProven == ModelsSpec => []TrainedIsProven
<1>1. ModelsInit => TrainingInv
  <2> SUFFICES ASSUME ModelsInit PROVE TrainingInv
    OBVIOUS
  <2>1. runs = <<>> /\ runs \in Seq(TrainingRuns) /\ DOMAIN runs = {}
    BY EmptySeq DEF ModelsInit, TrainingInit
  <2>2. trainer = [t \in Trainers |-> IdleTrainer] /\ dataset \in DOMAIN DataSets
    BY DEF ModelsInit, TrainingInit
  <2>3. QED BY <2>1, <2>2 DEF TrainingInv, TrainingTyped, Training
<1>2. TrainingInv /\ [ModelsNext]_mvars => TrainingInv'
  BY TrainingInvStep
<1>3. TrainingInv => TrainedIsProven
  BY SoundIsProven
<1>4. QED BY <1>1, <1>2, <1>3, PTL DEF ModelsSpec

-----------------------------------------------------------------------------
(* Base and DPO on one schedule. *)

\* compute_seed leaves SeedStride seeds to a problem.  Nothing in the code keeps num_samples
\* below it.
SeedsFit == \A x \in DOMAIN Experiments : Experiments[x].samples <= SeedStride

EvaluationFields ==
  {"status", "run", "cmd", "order", "catalog", "benchmark", "samples", "ks", "seed", "criteria",
   "models", "recorded", "error", "generations", "judgements", "reported"}

EvaluatorFields == {"pc", "cmd", "run", "catalog", "benchmark", "evaluation", "variant"}

\* How many answers a variant owes, and what the answer number j must be to.
Wanted(r) == Len(r.order) * r.samples

AsPlanned(g, r, j) ==
  /\ g.problem = r.order[(j \div r.samples) + 1] /\ g.sample = j % r.samples
  /\ g.seed = ComputeSeed(r.seed, j \div r.samples, j % r.samples)
  /\ g.prompt = Catalogs[r.catalog][g.problem]
  /\ g.status \in {"generated", "generation_error"}

Follows(r, v) ==
  LET G == r.generations[v] IN
  IsLog(G) /\ Len(G) <= Wanted(r) /\ \A i \in DOMAIN G : AsPlanned(G[i], r, i - 1)

\* What the sandbox said, besides.
Counted(j) ==
  /\ {j.passed, j.failed, j.errors, j.skipped} \subseteq Nat
  /\ j.status = "infrastructure_error" <=> j.type = "infrastructure_error"

InOrder(r, v) ==
  LET J == r.judgements[v] IN
  /\ IsLog(J) /\ Len(J) <= Len(Answered(r.generations[v]))
  /\ \A i \in DOMAIN J : /\ EvaluationRecord(J[i]) /\ Counted(J[i])
                         /\ J[i].problem = Answered(r.generations[v])[i].problem
                         /\ J[i].sample = Answered(r.generations[v])[i].sample

Complete(r, v) ==
  /\ Len(r.generations[v]) = Wanted(r)
  /\ Len(r.judgements[v]) = Len(Answered(r.generations[v]))

Blank(r, v) == r.generations[v] = <<>> /\ r.judgements[v] = <<>>

\* What is fixed when a run is created, where D are the training runs.
Configured(r, D) ==
  /\ EvaluationFields \subseteq DOMAIN r
  /\ r.samples \in Nat \ {0} /\ (SeedsFit => r.samples <= SeedStride) /\ r.seed \in Int
  /\ r.ks \subseteq Nat \ {0} /\ r.criteria.minimumImprovement \in Nat
  /\ IsLog(r.order) /\ Len(r.order) \in Nat \ {0}
  /\ \A a, b \in DOMAIN r.order : r.order[a] = r.order[b] => a = b
  /\ r.models \in {<<"base">>, <<"dpo">>, <<"base", "dpo">>}
  /\ r.run \in D
  /\ r.generations = [v \in ModelVariants |-> r.generations[v]]
  /\ r.judgements = [v \in ModelVariants |-> r.judgements[v]]

\* A run's directory, and W are the training runs whose adapter is whole.
SoundEvaluation(r, D, W) ==
  /\ Configured(r, D)
  /\ \A v \in ModelVariants : Follows(r, v) /\ InOrder(r, v)
  /\ r.generations["dpo"] # <<>> => r.run \in W /\ r.recorded
  /\ r.status = "failed" <=> r.error
  /\ r.status = "completed" => \A i \in DOMAIN r.models : Complete(r, r.models[i])

\* What the directory shows while the evaluator w is at it.
Evaluating(w, r, W) ==
  /\ w.pc \in {"recording", "starting", "loading", "generating", "judging", "failing",
               "completing", "reporting"}
  /\ w.variant \in DOMAIN r.models /\ w.catalog = r.catalog
  /\ r.status = IF w.pc \in {"recording", "starting"} THEN "created"
                ELSE IF w.pc = "reporting" THEN "completed" ELSE "running"
  /\ w.pc # "recording" => r.recorded
  /\ \A i \in DOMAIN r.models :
       /\ i < w.variant \/ w.pc \in {"completing", "reporting"} => Complete(r, r.models[i])
       /\ i > w.variant \/ (i = w.variant /\ w.pc \in {"recording", "starting", "loading"})
            => Blank(r, r.models[i])
  /\ LET v == r.models[w.variant] IN
     /\ w.pc = "generating" => /\ r.judgements[v] = <<>> /\ Len(r.generations[v]) < Wanted(r)
                               /\ v = "dpo" => r.run \in W
     /\ w.pc = "judging" => Len(r.generations[v]) = Wanted(r)

Listed(b) == IsFiniteSet(DOMAIN b) /\ DOMAIN b \in SUBSET Nat /\ DOMAIN b # {}

BenchmarkOK(b) == b # None => Listed(b)

Opened(w, D) ==
  /\ w.cmd \in DOMAIN Evaluations /\ EvaluationExperimentConfig(Resolved(Evaluations[w.cmd]))
  /\ w.run \in D
  /\ Listed(w.benchmark)

EvaluatorOK(w, evs, D, W) ==
  /\ EvaluatorFields \subseteq DOMAIN w
  /\ w.pc = "opened" => Opened(w, D)
  /\ w.pc \notin {"idle", "opened"} =>
       /\ w.evaluation \in EvaluationRuns /\ SoundEvaluation(evs[w.evaluation], D, W)
       /\ Evaluating(w, evs[w.evaluation], W)

PairedInv ==
  /\ evaluations = [e \in EvaluationRuns |-> evaluations[e]]
  /\ \A e \in EvaluationRuns :
       evaluations[e] # None => SoundEvaluation(evaluations[e], DOMAIN runs, WholeRuns)
  /\ BenchmarkOK(benchmark) /\ catalog \in DOMAIN Catalogs
  /\ EvaluatorOK(evaluator, evaluations, DOMAIN runs, WholeRuns)

-----------------------------------------------------------------------------
(* Numbers. *)

LEMMA DivMod ==
  ASSUME NEW s \in Nat \ {0}, NEW j \in Nat
  PROVE  /\ j \div s \in Nat /\ j % s \in 0..(s - 1)
         /\ j = (j \div s) * s + (j % s)
OBVIOUS

LEMMA DivBelow ==
  ASSUME NEW s \in Nat \ {0}, NEW n \in Nat, NEW j \in Nat, j < n * s
  PROVE  j \div s < n
<1> DEFINE q == j \div s
           m == j % s
<1>1. q \in Nat /\ m \in 0..(s - 1) /\ j = q * s + m
  BY DivMod
<1> HIDE DEF q, m
<1>2. CASE q >= n
  <2>1. q * s >= n * s
    BY <1>1, <1>2
  <2>2. QED BY <1>1, <2>1
<1>3. QED BY <1>1, <1>2 DEF q

\* Every problem and sample has its number.
LEMMA DivOnto ==
  ASSUME NEW s \in Nat \ {0}, NEW n \in Nat, NEW a \in Nat, a < n, NEW b \in 0..(s - 1)
  PROVE  /\ (a * s + b) \in Nat /\ a * s + b < n * s
         /\ (a * s + b) \div s = a /\ (a * s + b) % s = b
<1>1. (a * s + b) \div s = a /\ (a * s + b) % s = b /\ (a * s + b) \in Nat
  OBVIOUS
<1>2. (a + 1) * s <= n * s /\ (a + 1) * s = a * s + s
  OBVIOUS
<1>3. QED BY <1>1, <1>2

\* Seeds tell answers apart, as long as no problem takes more than its stride.
LEMMA SeedsDiffer ==
  ASSUME NEW s \in Nat \ {0}, s <= SeedStride, NEW base \in Int, NEW i \in Nat, NEW j \in Nat,
         ComputeSeed(base, i \div s, i % s) = ComputeSeed(base, j \div s, j % s)
  PROVE  i = j
<1> DEFINE a == i \div s
           b == i % s
           c == j \div s
           d == j % s
<1>1. /\ a \in Nat /\ b \in 0..(s - 1) /\ i = a * s + b
      /\ c \in Nat /\ d \in 0..(s - 1) /\ j = c * s + d
  BY DivMod
<1>2. base + a * SeedStride + b = base + c * SeedStride + d /\ SeedStride \in Nat \ {0}
  BY EvaluationAssumption DEF ComputeSeed
<1> HIDE DEF a, b, c, d
<1>3. a * SeedStride + b = c * SeedStride + d /\ b \in 0..(SeedStride - 1) /\ d \in 0..(SeedStride - 1)
  <2>1. a * SeedStride \in Int /\ c * SeedStride \in Int
    BY <1>1, <1>2
  <2>2. QED BY <1>1, <1>2, <2>1
<1>4. a = c /\ b = d
  BY <1>1, <1>2, <1>3
<1>5. QED BY <1>1, <1>4

-----------------------------------------------------------------------------
(* What does not depend on the status of a run. *)

Plan(r) == <<r.order, r.catalog, r.samples, r.seed, r.models, r.run, r.ks, r.criteria>>

LEMMA Alike ==
  ASSUME NEW r, NEW x, Plan(x) = Plan(r), NEW v,
         x.generations[v] = r.generations[v], x.judgements[v] = r.judgements[v]
  PROVE  /\ Wanted(x) = Wanted(r)
         /\ Follows(x, v) <=> Follows(r, v)
         /\ InOrder(x, v) <=> InOrder(r, v)
         /\ Complete(x, v) <=> Complete(r, v)
         /\ Blank(x, v) <=> Blank(r, v)
BY DEF Plan, Wanted, Follows, AsPlanned, InOrder, Complete, Blank

LEMMA VariantsAreDistinct ==
  ASSUME NEW r, NEW D, Configured(r, D)
  PROVE  /\ DOMAIN r.models \subseteq Nat
         /\ \A i \in DOMAIN r.models : r.models[i] \in ModelVariants
         /\ \A i, k \in DOMAIN r.models : r.models[i] = r.models[k] => i = k
BY DEF Configured, ModelVariants

\* The evaluator is at work on This.
LEMMA AtWork ==
  ASSUME PairedInv, evaluator.pc \notin {"idle", "opened"}
  PROVE  /\ evaluator.evaluation \in EvaluationRuns
         /\ SoundEvaluation(This, DOMAIN runs, WholeRuns)
         /\ Configured(This, DOMAIN runs)
         /\ Evaluating(evaluator, This, WholeRuns)
         /\ EvaluatorFields \subseteq DOMAIN evaluator
BY DEF PairedInv, EvaluatorOK, This, SoundEvaluation

LEMMA EvaluatorThinks ==
  ASSUME PairedInv, UNCHANGED <<runs, benchmark, catalog, evaluations>>,
         EvaluatorOK(evaluator', evaluations, DOMAIN runs, WholeRuns)
  PROVE  PairedInv'
<1>1. WholeRuns' = WholeRuns
  BY DEF WholeRuns
<1>2. QED BY <1>1 DEF PairedInv

LEMMA IdleIsOK == \A evs, D, W : EvaluatorOK(IdleEvaluator, evs, D, W)
BY DEF EvaluatorOK, IdleEvaluator, EvaluatorFields

LEMMA EvaluatorLeaves ==
  ASSUME PairedInv, UNCHANGED <<runs, benchmark, catalog, evaluations>>, ELeave
  PROVE  PairedInv'
BY EvaluatorThinks, IdleIsOK DEF ELeave

\* Only the program counter changes.
LEMMA EvaluatorGoesOn ==
  ASSUME PairedInv, evaluator.pc \notin {"idle", "opened"}, NEW pc, EGoTo(pc),
         pc \notin {"idle", "opened"}, UNCHANGED <<runs, benchmark, catalog, evaluations>>,
         Evaluating([evaluator EXCEPT !.pc = pc], This, WholeRuns)
  PROVE  PairedInv'
<1> DEFINE w == [evaluator EXCEPT !.pc = pc]
<1>1. EvaluatorFields \subseteq DOMAIN w /\ w.evaluation = evaluator.evaluation /\ w.pc = pc
  BY AtWork DEF EvaluatorFields
<1>2. EvaluatorOK(w, evaluations, DOMAIN runs, WholeRuns)
  BY <1>1, AtWork DEF EvaluatorOK, This
<1>3. QED BY <1>2, EvaluatorThinks DEF EGoTo

\* The directory of This is written.
LEMMA EvaluationWrite ==
  ASSUME PairedInv, evaluator.pc \notin {"idle", "opened"},
         UNCHANGED <<runs, benchmark, catalog>>, NEW x,
         evaluations' = [evaluations EXCEPT ![evaluator.evaluation] = x],
         SoundEvaluation(x, DOMAIN runs, WholeRuns),
         \/ ELeave
         \/ /\ EvaluatorFields \subseteq DOMAIN evaluator'
            /\ evaluator'.pc # "opened" /\ evaluator'.evaluation = evaluator.evaluation
            /\ Evaluating(evaluator', x, WholeRuns)
  PROVE  PairedInv'
<1>1. WholeRuns' = WholeRuns
  BY DEF WholeRuns
<1>2. /\ evaluations' = [e \in EvaluationRuns |-> evaluations'[e]]
      /\ \A e \in EvaluationRuns :
           evaluations'[e] = IF e = evaluator.evaluation THEN x ELSE evaluations[e]
  BY DEF PairedInv
<1>3. \A e \in EvaluationRuns :
        evaluations'[e] # None => SoundEvaluation(evaluations'[e], DOMAIN runs, WholeRuns)
  BY <1>2 DEF PairedInv
<1>4. EvaluatorOK(evaluator', evaluations', DOMAIN runs, WholeRuns)
  <2>1. CASE ELeave
    BY <2>1, IdleIsOK DEF ELeave
  <2>2. CASE /\ EvaluatorFields \subseteq DOMAIN evaluator'
             /\ evaluator'.pc # "opened" /\ evaluator'.evaluation = evaluator.evaluation
             /\ Evaluating(evaluator', x, WholeRuns)
    BY <1>2, <2>2, AtWork DEF EvaluatorOK
  <2>3. QED BY <2>1, <2>2
<1>5. QED BY <1>1, <1>2, <1>3, <1>4 DEF PairedInv

\* A status, or that the inputs are recorded, is written.
LEMMA StatusWrite ==
  ASSUME NEW r, NEW D, NEW W, SoundEvaluation(r, D, W), NEW x,
         EvaluationFields \subseteq DOMAIN x, Plan(x) = Plan(r),
         x.generations = r.generations, x.judgements = r.judgements,
         r.recorded => x.recorded, x.status = "failed" <=> x.error,
         x.status = "completed" => \A i \in DOMAIN r.models : Complete(r, r.models[i])
  PROVE  SoundEvaluation(x, D, W)
<1>1. Configured(x, D)
  BY DEF SoundEvaluation, Configured, Plan
<1>2. \A v : /\ Follows(x, v) <=> Follows(r, v)
             /\ InOrder(x, v) <=> InOrder(r, v)
             /\ Complete(x, v) <=> Complete(r, v)
             /\ Blank(x, v) <=> Blank(r, v)
  BY Alike
<1>3. x.models = r.models /\ x.run = r.run
  BY DEF Plan
<1>4. QED BY <1>1, <1>2, <1>3 DEF SoundEvaluation

-----------------------------------------------------------------------------
(* A run is created. *)

\* Numbers in ascending order are all there, each once.
LEMMA AscendingMembers ==
  ASSUME NEW S \in SUBSET Nat, IsFiniteSet(S)
  PROVE  LET a == Ascending(S) IN
         /\ IsLog(a) /\ Len(a) = Cardinality(S) /\ Cardinality(S) \in Nat
         /\ \A i \in DOMAIN a : a[i] \in S
         /\ \A i, k \in DOMAIN a : a[i] = a[k] => i = k
<1> DEFINE n    == Cardinality(S)
           B(x) == {y \in S : y <= x}
           f    == [x \in S |-> Cardinality(B(x))]
           a    == Ascending(S)
<1>1. n \in Nat /\ IsFiniteSet(1..n) /\ Cardinality(1..n) = n
  <2>1. n \in Nat
    BY FS_CardinalityType
  <2> HIDE DEF n
  <2>2. QED BY <2>1, FS_Interval
<1>2. \A x \in S : IsFiniteSet(B(x)) /\ Cardinality(B(x)) \in 1..n
  <2> SUFFICES ASSUME NEW x \in S PROVE IsFiniteSet(B(x)) /\ Cardinality(B(x)) \in 1..n
    OBVIOUS
  <2>1. B(x) \in SUBSET S /\ x \in B(x)
    OBVIOUS
  <2> HIDE DEF B
  <2>2. IsFiniteSet(B(x)) /\ Cardinality(B(x)) <= n /\ Cardinality(B(x)) \in Nat
    BY <2>1, FS_Subset, FS_CardinalityType
  <2>3. Cardinality(B(x)) # 0
    BY <2>1, <2>2, FS_EmptySet
  <2>4. QED BY <1>1, <2>2, <2>3
<1>3. \A x, y \in S : x < y => Cardinality(B(x)) # Cardinality(B(y))
  <2> SUFFICES ASSUME NEW x \in S, NEW y \in S, x < y PROVE Cardinality(B(x)) # Cardinality(B(y))
    OBVIOUS
  <2>1. x \in Nat /\ y \in Nat /\ \A z \in S : z \in Nat
    OBVIOUS
  <2>3. \A z \in S : z <= x => z <= y
    BY <2>1
  <2>4. B(x) \in SUBSET B(y)
    BY <2>3
  <2>5. y \in B(y) /\ y \notin B(x)
    BY <2>1
  <2>2. IsFiniteSet(B(y))
    BY <1>2
  <2> HIDE DEF B
  <2>6. QED BY <2>2, <2>4, <2>5, FS_Subset
<1>4. f \in Injection(S, 1..n)
  <2>1. f \in [S -> 1..n]
    BY <1>2
  <2>2. \A x, y \in S : f[x] = f[y] => x = y
    <3> SUFFICES ASSUME NEW x \in S, NEW y \in S, f[x] = f[y] PROVE x = y
      OBVIOUS
    <3>1. ~(x < y) /\ ~(y < x)
      BY <1>3
    <3>2. QED BY <3>1
  <2> HIDE DEF f
  <2>3. QED BY <2>1, <2>2 DEF Injection, IsInjective
<1>5. f \in Surjection(S, 1..n)
  <2> HIDE DEF f
  <2>1. QED BY <1>1, <1>4, FS_Injection
<1>6. \A i \in 1..n : \E x \in S : Cardinality(B(x)) = i
  BY <1>5 DEF Surjection
<1>7. a = [i \in 1..n |-> CHOOSE x \in S : Cardinality(B(x)) = i]
  BY DEF Ascending
<1>8. \A i \in 1..n : a[i] \in S /\ Cardinality(B(a[i])) = i
  BY <1>6, <1>7
<1>9. IsLog(a) /\ Len(a) = n
  <2>1. a \in [1..n -> Range(a)]
    BY <1>7 DEF Range
  <2>2. DOMAIN a = 1..n
    BY <1>7
  <2> HIDE DEF a, n
  <2>3. a \in Seq(Range(a))
    BY <1>1, <2>1, SeqDef
  <2>4. QED BY <1>1, <2>2, <2>3, LenProperties DEF IsLog
<1>10. DOMAIN a = 1..n
  BY <1>7
<1> HIDE DEF a, B, n
<1>11. \A i, k \in DOMAIN a : a[i] = a[k] => i = k
  BY <1>8, <1>10
<1>12. QED BY <1>1, <1>8, <1>9, <1>10, <1>11 DEF a, n

\* Of the answers none is left out or taken twice.
LEMMA AnsweredPlaces ==
  ASSUME NEW G, IsLog(G)
  PROVE  LET A == Answered(G) IN
         /\ Len(A) \in Nat /\ DOMAIN A = 1..Len(A)
         /\ \E p \in [DOMAIN A -> DOMAIN G] :
              /\ \A k \in DOMAIN A : A[k] = G[p[k]] /\ A[k].status = "generated"
              /\ \A k, l \in DOMAIN A : p[k] = p[l] => k = l
<1> DEFINE S == {i \in DOMAIN G : G[i].status = "generated"}
           p == Ascending(S)
           A == Answered(G)
<1>1. S \in SUBSET Nat /\ IsFiniteSet(S)
  <2>1. Len(G) \in Nat /\ DOMAIN G = 1..Len(G)
    BY LogLength
  <2>2. S \in SUBSET (1..Len(G)) /\ S \in SUBSET Nat
    BY <2>1
  <2> HIDE DEF S
  <2>3. IsFiniteSet(1..Len(G))
    BY <2>1, FS_Interval
  <2>4. QED BY <2>2, <2>3, FS_Subset
<1>2. A = [k \in DOMAIN p |-> G[p[k]]]
  BY DEF Answered
<1> HIDE DEF p, A
<1>3. /\ IsLog(p) /\ Len(p) \in Nat /\ \A k \in DOMAIN p : p[k] \in S
      /\ \A k, l \in DOMAIN p : p[k] = p[l] => k = l
  <2> HIDE DEF S
  <2>1. QED BY <1>1, AscendingMembers DEF p
<1>4. DOMAIN p = 1..Len(p)
  BY <1>3, LogLength
<1>5. Len(A) \in Nat /\ DOMAIN A = 1..Len(A) /\ DOMAIN A = DOMAIN p
  <2>1. A \in [1..Len(p) -> Range(A)]
    BY <1>2, <1>4 DEF Range
  <2>2. A \in Seq(Range(A))
    BY <1>3, <2>1, SeqDef
  <2>3. IsLog(A)
    BY <2>2 DEF IsLog
  <2>4. QED BY <1>2, <2>3, LogLength
<1>6. p \in [DOMAIN A -> DOMAIN G]
  <2>1. p = [k \in DOMAIN p |-> p[k]]
    BY <1>3 DEF IsLog
  <2>2. \A k \in DOMAIN p : p[k] \in DOMAIN G
    BY <1>3
  <2>3. QED BY <1>5, <2>1, <2>2
<1>7. \A k \in DOMAIN A : A[k] = G[p[k]] /\ A[k].status = "generated"
  BY <1>2, <1>3, <1>5
<1>8. QED BY <1>3, <1>5, <1>6, <1>7 DEF A

\* Something is left of a benchmark that is cut.
LEMMA OrderedIsLog ==
  ASSUME NEW b, Listed(b), NEW k \in DOMAIN Evaluations
  PROVE  LET o == OrderedProblems(b, Evaluations[k]) IN
         /\ IsLog(o) /\ Len(o) \in Nat \ {0}
         /\ \A i, l \in DOMAIN o : o[i] = o[l] => i = l
<1> DEFINE n == Cardinality(DOMAIN b)
           ordered == Ascending(DOMAIN b)
           Once(o) == \A i, l \in DOMAIN o : o[i] = o[l] => i = l
<1>1. n \in Nat \ {0}
  BY FS_CardinalityType, FS_EmptySet DEF Listed
<1>2. IsLog(ordered) /\ Len(ordered) = n /\ Once(ordered)
  BY AscendingMembers DEF Listed
<1> HIDE DEF n, ordered
<1>3. ASSUME NEW m \in Nat \ {0}
      PROVE  /\ IsLog(AtMost(m, ordered)) /\ Len(AtMost(m, ordered)) \in Nat \ {0}
             /\ Once(AtMost(m, ordered))
  <2>1. CASE n <= m
    BY <1>1, <1>2, <2>1 DEF AtMost
  <2>2. CASE ~(n <= m)
    <3> DEFINE t == SubSeq(ordered, 1, m)
    <3>1. m \in 1..n /\ \A i \in 1..m : ordered[i] \in Range(ordered)
      BY <1>1, <1>2, <2>2, LogLength DEF Range
    <3>2. t \in Seq(Range(ordered)) /\ Len(t) = m /\ \A i \in 1..m : t[i] = ordered[i]
      BY <3>1, SubSeqProperties
    <3> HIDE DEF t
    <3>3. IsLog(t) /\ DOMAIN t = 1..m
      BY <3>2, SeqOfRange, LenProperties DEF IsLog
    <3>4. \A i \in 1..m : i \in DOMAIN ordered
      BY <1>1, <1>2, <3>1, LogLength
    <3>5. Once(t)
      BY <1>2, <3>2, <3>3, <3>4
    <3> HIDE DEF Once
    <3>6. AtMost(m, ordered) = t
      BY <1>1, <1>2, <2>2 DEF AtMost, t
    <3>7. QED BY <3>2, <3>3, <3>5, <3>6
  <2>3. QED BY <2>1, <2>2
<1>4. Evaluations[k].limit > 0 => Evaluations[k].limit \in Nat \ {0}
  BY EvaluationsAssumption
<1>5. OrderedProblems(b, Evaluations[k]) =
        IF Evaluations[k].smoke THEN AtMost(3, ordered)
        ELSE IF Evaluations[k].limit > 0 THEN AtMost(Evaluations[k].limit, ordered) ELSE ordered
  BY DEF OrderedProblems, ordered
<1> DEFINE Fine(o) == IsLog(o) /\ Len(o) \in Nat \ {0} /\ Once(o)
<1>6. Fine(ordered) /\ \A m \in Nat \ {0} : Fine(AtMost(m, ordered))
  BY <1>1, <1>2, <1>3
<1> HIDE DEF Once, Fine
<1>7. 3 \in Nat \ {0}
  OBVIOUS
<1>8. Fine(OrderedProblems(b, Evaluations[k]))
  BY <1>4, <1>5, <1>6, <1>7
<1>9. QED BY <1>8 DEF Once, Fine

LEMMA ResolvedSettings ==
  ASSUME NEW k \in DOMAIN Evaluations,
         EvaluationExperimentConfig(Resolved(Evaluations[k]))
  PROVE  LET x == Resolved(Evaluations[k]) IN
         /\ x.samples \in Nat \ {0} /\ (SeedsFit => x.samples <= SeedStride) /\ x.seed \in Int
         /\ x.ks \subseteq Nat \ {0} /\ x.criteria.minimumImprovement \in Nat
<1> DEFINE x == Experiments[Evaluations[k].experiment]
           y == Resolved(Evaluations[k])
<1>1. /\ x.samples \in Int /\ x.seed \in Int /\ SeedStride \in Nat \ {0}
      /\ (SeedsFit => x.samples <= SeedStride)
      /\ x.ks \subseteq Int /\ x.criteria.minimumImprovement \in Int
  BY ExperimentsAssumption, EvaluationAssumption DEF SeedsFit
<1>2. y.samples > 0 /\ (\A m \in y.ks : m > 0) /\ y.criteria.minimumImprovement >= 0
  BY DEF EvaluationExperimentConfig, GenerationSettings, StatisticsSettings, NonNegativeCriteria
<1>3. /\ y.samples \in {x.samples, 1} /\ y.seed = x.seed /\ y.criteria = x.criteria
      /\ y.ks \subseteq x.ks \cup {1}
  BY EvaluationAssumption, ExperimentsAssumption DEF Resolved
<1> HIDE DEF x, y
<1>4. QED BY <1>1, <1>2, <1>3 DEF y

LEMMA CreateEvaluationStep ==
  ASSUME PairedInv, NEW e \in EvaluationRuns, CreateEvaluation(e)
  PROVE  PairedInv'
<1> DEFINE cmd == Evaluations[evaluator.cmd]
           x   == NewEvaluation(evaluator)
           w   == [evaluator EXCEPT !.pc = "recording", !.evaluation = e, !.variant = 1]
<1>1. /\ EvaluatorFields \subseteq DOMAIN evaluator /\ Opened(evaluator, DOMAIN runs)
      /\ UNCHANGED <<runs, benchmark, catalog>>
  BY DEF CreateEvaluation, EAt, PairedInv, EvaluatorOK, Alone, Elsewhere, tvars
<1>2. CASE ELeave /\ UNCHANGED evaluations
  BY <1>1, <1>2, EvaluatorLeaves
<1>3. CASE evaluations' = [evaluations EXCEPT ![e] = x] /\ evaluator' = w
  <2>1. /\ EvaluationFields \subseteq DOMAIN x /\ x.run = evaluator.run
        /\ x.catalog = evaluator.catalog /\ x.status = "created" /\ ~x.recorded /\ ~x.error
        /\ x.order = OrderedProblems(evaluator.benchmark, cmd)
        /\ x.samples = Resolved(cmd).samples /\ x.seed = Resolved(cmd).seed
        /\ x.ks = Resolved(cmd).ks /\ x.criteria = Resolved(cmd).criteria
        /\ x.models = ModelsRequested(cmd)
        /\ x.generations = [v \in ModelVariants |-> <<>>]
        /\ x.judgements = [v \in ModelVariants |-> <<>>]
    BY DEF NewEvaluation, EvaluationFields
  <2>2. /\ IsLog(x.order) /\ Len(x.order) \in Nat \ {0}
        /\ \A i, l \in DOMAIN x.order : x.order[i] = x.order[l] => i = l
    BY <1>1, <2>1, OrderedIsLog DEF Opened
  <2>3. /\ x.samples \in Nat \ {0} /\ (SeedsFit => x.samples <= SeedStride) /\ x.seed \in Int
        /\ x.ks \subseteq Nat \ {0} /\ x.criteria.minimumImprovement \in Nat
    BY <1>1, <2>1, ResolvedSettings DEF Opened
  <2>4. x.models \in {<<"base">>, <<"dpo">>, <<"base", "dpo">>}
    BY <1>1, <2>1, EvaluationsAssumption DEF Opened, ModelsRequested, ModelVariants
  <2> HIDE DEF x
  <2>5. Configured(x, DOMAIN runs)
    BY <1>1, <2>1, <2>2, <2>3, <2>4 DEF Configured, Opened
  <2>6. \A v \in ModelVariants : Blank(x, v)
    BY <2>1 DEF Blank
  <2>7. Wanted(x) \in Nat
    BY <2>2, <2>3 DEF Wanted
  <2>8. \A v \in ModelVariants : Follows(x, v) /\ InOrder(x, v)
    BY <2>1, <2>7, EmptyLog, AnsweredPlaces DEF Follows, InOrder
  <2>9. SoundEvaluation(x, DOMAIN runs, WholeRuns)
    BY <2>1, <2>5, <2>8 DEF SoundEvaluation, ModelVariants
  <2>10. /\ EvaluatorFields \subseteq DOMAIN w /\ w.pc = "recording" /\ w.evaluation = e
         /\ w.variant = 1 /\ w.catalog = evaluator.catalog
    BY <1>1 DEF EvaluatorFields
  <2> HIDE DEF w
  <2>11. Evaluating(w, x, WholeRuns)
    <3>1. 1 \in DOMAIN x.models /\ \A i \in DOMAIN x.models : ~(i < 1) /\ Blank(x, x.models[i])
      BY <2>4, <2>6 DEF ModelVariants
    <3>2. QED BY <2>1, <2>10, <3>1 DEF Evaluating
  <2>12. WholeRuns' = WholeRuns
    BY <1>1 DEF WholeRuns
  <2>13. /\ evaluations' = [d \in EvaluationRuns |-> evaluations'[d]]
         /\ \A d \in EvaluationRuns : evaluations'[d] = IF d = e THEN x ELSE evaluations[d]
    BY <1>3 DEF PairedInv
  <2>14. EvaluatorOK(evaluator', evaluations', DOMAIN runs, WholeRuns)
    BY <1>3, <2>9, <2>10, <2>11, <2>13 DEF EvaluatorOK
  <2>15. \A d \in EvaluationRuns :
           evaluations'[d] # None => SoundEvaluation(evaluations'[d], DOMAIN runs, WholeRuns)
    BY <2>9, <2>13 DEF PairedInv
  <2>16. QED BY <1>1, <2>12, <2>13, <2>14, <2>15 DEF PairedInv
<1>4. QED BY <1>2, <1>3 DEF CreateEvaluation

-----------------------------------------------------------------------------
(* The evaluator goes on. *)

LEMMA EvaluatingMoves ==
  ASSUME NEW w, NEW r, NEW W, Evaluating(w, r, W), NEW y, NEW x,
         Plan(x) = Plan(r), x.generations = r.generations, x.judgements = r.judgements,
         y.variant = w.variant, y.catalog = w.catalog,
         \/ w.pc = "recording" /\ y.pc = "starting" /\ x.status = "created"
         \/ w.pc = "starting" /\ y.pc = "loading" /\ x.status = "running"
         \/ w.pc = "completing" /\ y.pc = "reporting" /\ x.status = "completed",
         x.recorded
  PROVE  Evaluating(y, x, W)
<1>1. x.models = r.models /\ x.catalog = r.catalog
  BY DEF Plan
<1>2. \A v : (Complete(x, v) <=> Complete(r, v)) /\ (Blank(x, v) <=> Blank(r, v))
  BY Alike
<1>3. QED BY <1>1, <1>2 DEF Evaluating

LEMMA ProgressWrite ==
  ASSUME PairedInv, NEW pc, EGoTo(pc), UNCHANGED <<runs, benchmark, catalog>>, NEW x,
         evaluations' = [evaluations EXCEPT ![evaluator.evaluation] = x],
         EvaluationFields \subseteq DOMAIN x, Plan(x) = Plan(This),
         x.generations = This.generations, x.judgements = This.judgements,
         x.error = This.error, x.recorded,
         \/ EAt("recording") /\ pc = "starting" /\ x.status = This.status
         \/ EAt("starting") /\ pc = "loading" /\ x.status = "running"
         \/ EAt("completing") /\ pc = "reporting" /\ x.status = "completed"
  PROVE  PairedInv'
<1> DEFINE w == [evaluator EXCEPT !.pc = pc]
<1>1. evaluator.pc \notin {"idle", "opened"}
  BY DEF EAt
<1>2. /\ SoundEvaluation(This, DOMAIN runs, WholeRuns) /\ Evaluating(evaluator, This, WholeRuns)
      /\ EvaluatorFields \subseteq DOMAIN evaluator
  BY <1>1, AtWork
<1>3. This.status \in {"created", "running"} /\ (EAt("recording") => This.status = "created")
  BY <1>2 DEF Evaluating, EAt
<1>4. EAt("completing") => \A i \in DOMAIN This.models : Complete(This, This.models[i])
  BY <1>2 DEF Evaluating, EAt
<1>5. ~This.error
  BY <1>2, <1>3 DEF SoundEvaluation
<1>6. SoundEvaluation(x, DOMAIN runs, WholeRuns)
  BY <1>2, <1>3, <1>4, <1>5, StatusWrite
<1>7. /\ EvaluatorFields \subseteq DOMAIN w /\ w.pc = pc /\ w.evaluation = evaluator.evaluation
      /\ w.variant = evaluator.variant /\ w.catalog = evaluator.catalog
  BY <1>2 DEF EvaluatorFields
<1> HIDE DEF w
<1>8. Evaluating(w, x, WholeRuns)
  BY <1>2, <1>3, <1>7, EvaluatingMoves DEF EAt
<1>9. evaluator' = w
  BY DEF EGoTo, w
<1>10. QED BY <1>1, <1>6, <1>7, <1>8, <1>9, EvaluationWrite

\* UNCHANGED as Alone says it.
LEMMA AloneKeeps ==
  ASSUME Alone, UNCHANGED <<catalog, benchmark>>
  PROVE  UNCHANGED <<runs, benchmark, catalog>>
BY DEF Alone, Elsewhere, tvars

LEMMA RecordExperimentStep == ASSUME PairedInv, RecordExperiment PROVE PairedInv'
<1> DEFINE x == [This EXCEPT !.recorded = TRUE]
<1>1. /\ EAt("recording") /\ EGoTo("starting") /\ UNCHANGED <<runs, benchmark, catalog>>
      /\ evaluations' = [evaluations EXCEPT ![evaluator.evaluation] = x]
  BY AloneKeeps DEF RecordExperiment, This
<1>2. EvaluationFields \subseteq DOMAIN This
  BY <1>1, AtWork DEF EAt, Configured
<1>3. /\ EvaluationFields \subseteq DOMAIN x /\ Plan(x) = Plan(This)
      /\ x.generations = This.generations /\ x.judgements = This.judgements
      /\ x.error = This.error /\ x.recorded /\ x.status = This.status
  BY <1>2 DEF EvaluationFields, Plan
<1> HIDE DEF x
<1>4. QED BY <1>1, <1>3, ProgressWrite

LEMMA StatusStep ==
  ASSUME PairedInv, StartEvaluation \/ CompleteEvaluation
  PROVE  PairedInv'
<1> DEFINE s == IF EAt("starting") THEN "running" ELSE "completed"
           pc == IF EAt("starting") THEN "loading" ELSE "reporting"
           x == [This EXCEPT !.status = s]
<1>1. /\ EAt("starting") \/ EAt("completing")
      /\ EGoTo(pc) /\ UNCHANGED <<runs, benchmark, catalog>>
      /\ evaluations' = [evaluations EXCEPT ![evaluator.evaluation] = x]
  BY AloneKeeps DEF StartEvaluation, CompleteEvaluation, UpdateEvaluation, This, EAt
<1>2. EvaluationFields \subseteq DOMAIN This /\ This.recorded
  BY <1>1, AtWork DEF EAt, Configured, Evaluating
<1>3. /\ EvaluationFields \subseteq DOMAIN x /\ Plan(x) = Plan(This)
      /\ x.generations = This.generations /\ x.judgements = This.judgements
      /\ x.error = This.error /\ x.recorded /\ x.status = s
  BY <1>2 DEF EvaluationFields, Plan
<1> HIDE DEF x
<1>4. QED BY <1>1, <1>3, ProgressWrite

LEMMA EndOfRun ==
  ASSUME PairedInv, evaluator.pc \notin {"idle", "opened"}, ELeave,
         UNCHANGED <<runs, benchmark, catalog>>, NEW x,
         evaluations' = [evaluations EXCEPT ![evaluator.evaluation] = x],
         EvaluationFields \subseteq DOMAIN x, Plan(x) = Plan(This),
         x.generations = This.generations, x.judgements = This.judgements,
         x.recorded = This.recorded, x.status \in {"failed", "interrupted"},
         x.error = IF x.status = "failed" THEN TRUE ELSE This.error,
         This.status # "failed"
  PROVE  PairedInv'
<1>1. SoundEvaluation(This, DOMAIN runs, WholeRuns)
  BY AtWork
<1>2. x.status = "failed" <=> x.error
  BY <1>1 DEF SoundEvaluation
<1>3. SoundEvaluation(x, DOMAIN runs, WholeRuns)
  BY <1>1, <1>2, StatusWrite
<1>4. QED BY <1>3, EvaluationWrite

LEMMA FailEvaluationStep == ASSUME PairedInv, FailEvaluation PROVE PairedInv'
<1> DEFINE x == [This EXCEPT !.status = "failed", !.error = TRUE]
           y == [evaluations EXCEPT ![evaluator.evaluation].status = "failed"]
<1>1. /\ EAt("failing") /\ ELeave /\ UNCHANGED <<runs, benchmark, catalog>>
      /\ evaluations' = [y EXCEPT ![evaluator.evaluation].error = TRUE]
  BY AloneKeeps DEF FailEvaluation
<1>2. EvaluationFields \subseteq DOMAIN This /\ This.status = "running"
  BY <1>1, AtWork DEF EAt, Configured, Evaluating
<1>3. evaluator.evaluation \in DOMAIN evaluations
  BY <1>1, AtWork DEF EAt, PairedInv
<1>4. y[evaluator.evaluation] = [This EXCEPT !.status = "failed"]
  BY <1>3 DEF This
<1>5. evaluations' = [evaluations EXCEPT ![evaluator.evaluation] = x]
  BY <1>1, <1>3, <1>4
<1>6. /\ EvaluationFields \subseteq DOMAIN x /\ Plan(x) = Plan(This)
      /\ x.generations = This.generations /\ x.judgements = This.judgements
      /\ x.recorded = This.recorded /\ x.status = "failed" /\ x.error = TRUE
  BY <1>2 DEF EvaluationFields, Plan
<1> HIDE DEF x
<1>7. QED BY <1>1, <1>2, <1>5, <1>6, EndOfRun DEF EAt

LEMMA InterruptEvaluationStep == ASSUME PairedInv, InterruptEvaluation PROVE PairedInv'
<1> DEFINE x == [This EXCEPT !.status = "interrupted"]
<1>1. /\ evaluator.pc \in {"loading", "generating", "judging"} /\ ELeave
      /\ UNCHANGED <<runs, benchmark, catalog>>
      /\ \/ UNCHANGED evaluations
         \/ evaluations' = [evaluations EXCEPT ![evaluator.evaluation] = x]
  BY DEF InterruptEvaluation, UpdateEvaluation, This
<1>2. EvaluationFields \subseteq DOMAIN This /\ This.status = "running"
  BY <1>1, AtWork DEF Configured, Evaluating
<1>3. /\ EvaluationFields \subseteq DOMAIN x /\ Plan(x) = Plan(This)
      /\ x.generations = This.generations /\ x.judgements = This.judgements
      /\ x.recorded = This.recorded /\ x.status = "interrupted" /\ x.error = This.error
  BY <1>2 DEF EvaluationFields, Plan
<1> HIDE DEF x
<1>4. CASE UNCHANGED evaluations
  BY <1>1, <1>4, EvaluatorLeaves
<1>5. CASE evaluations' = [evaluations EXCEPT ![evaluator.evaluation] = x]
  BY <1>1, <1>2, <1>3, <1>5, EndOfRun
<1>6. QED BY <1>1, <1>4, <1>5

LEMMA KillEvaluationStep == ASSUME PairedInv, KillEvaluation PROVE PairedInv'
BY EvaluatorLeaves DEF KillEvaluation

LEMMA RaiseInEvaluationStep == ASSUME PairedInv, RaiseInEvaluation PROVE PairedInv'
<1> DEFINE w == [evaluator EXCEPT !.pc = "failing"]
<1>1. /\ evaluator.pc \in {"loading", "generating", "judging"} /\ EGoTo("failing")
      /\ UNCHANGED <<runs, benchmark, catalog, evaluations>>
  BY AloneKeeps DEF RaiseInEvaluation
<1>2. Evaluating(evaluator, This, WholeRuns) /\ EvaluatorFields \subseteq DOMAIN evaluator
  BY <1>1, AtWork
<1>3. w.pc = "failing" /\ w.variant = evaluator.variant /\ w.catalog = evaluator.catalog
  BY <1>2 DEF EvaluatorFields
<1> HIDE DEF w
<1>4. Evaluating(w, This, WholeRuns)
  BY <1>1, <1>2, <1>3 DEF Evaluating
<1>5. QED BY <1>1, <1>4, EvaluatorGoesOn DEF w

LEMMA LoadModelStep == ASSUME PairedInv, LoadModel PROVE PairedInv'
<1> DEFINE pc == IF ResolvesDtype /\ (Variant = "base" \/ VerifyAdapterIntegrity)
                 THEN "generating" ELSE "failing"
           w  == [evaluator EXCEPT !.pc = pc]
<1>1. /\ EAt("loading") /\ EGoTo(pc)
      /\ UNCHANGED <<runs, benchmark, catalog, evaluations>>
  BY AloneKeeps DEF LoadModel
<1>2. /\ Evaluating(evaluator, This, WholeRuns) /\ EvaluatorFields \subseteq DOMAIN evaluator
      /\ Configured(This, DOMAIN runs)
  BY <1>1, AtWork DEF EAt
<1>3. w.pc = pc /\ w.variant = evaluator.variant /\ w.catalog = evaluator.catalog
  BY <1>2 DEF EvaluatorFields
<1>4. Wanted(This) \in Nat \ {0}
  BY <1>2 DEF Configured, Wanted
<1>5. Blank(This, Variant) /\ evaluator.variant \in DOMAIN This.models
  BY <1>1, <1>2 DEF Evaluating, Variant, EAt
<1>6. Len(This.generations[Variant]) < Wanted(This) /\ This.judgements[Variant] = <<>>
  BY <1>4, <1>5, EmptyLog DEF Blank
<1>7. pc = "generating" /\ Variant = "dpo" => This.run \in WholeRuns
  BY <1>2 DEF VerifyAdapterIntegrity, WholeRuns, Configured
<1> HIDE DEF w
<1>8. Evaluating(w, This, WholeRuns)
  BY <1>1, <1>2, <1>3, <1>6, <1>7 DEF Evaluating, Variant, EAt
<1>9. QED BY <1>1, <1>8, EvaluatorGoesOn DEF w, EAt

LEMMA NextVariantStep == ASSUME PairedInv, NextVariant PROVE PairedInv'
<1> DEFINE v == evaluator.variant
           w == IF v < Len(This.models)
                THEN [evaluator EXCEPT !.pc = "loading", !.variant = @ + 1]
                ELSE [evaluator EXCEPT !.pc = "completing"]
<1>1. /\ EAt("judging") /\ evaluator' = w
      /\ Len(This.judgements[Variant]) = Len(ToJudge)
      /\ UNCHANGED <<runs, benchmark, catalog, evaluations>>
  BY AloneKeeps DEF NextVariant
<1>2. /\ Evaluating(evaluator, This, WholeRuns) /\ EvaluatorFields \subseteq DOMAIN evaluator
      /\ Configured(This, DOMAIN runs)
  BY <1>1, AtWork DEF EAt
<1>3. Complete(This, This.models[v])
  BY <1>1, <1>2 DEF Evaluating, Complete, ToJudge, Variant, EAt
<1>4. /\ DOMAIN This.models = 1..Len(This.models) /\ Len(This.models) \in Nat
      /\ v \in DOMAIN This.models
  BY <1>2 DEF Configured, Evaluating
<1>5. /\ EvaluatorFields \subseteq DOMAIN w /\ w.evaluation = evaluator.evaluation
      /\ w.catalog = evaluator.catalog
      /\ w.pc = IF v < Len(This.models) THEN "loading" ELSE "completing"
      /\ w.variant = IF v < Len(This.models) THEN v + 1 ELSE v
  BY <1>2 DEF EvaluatorFields
<1> HIDE DEF w
<1>6. Evaluating(w, This, WholeRuns)
  <2>1. CASE v < Len(This.models)
    <3>1. /\ v + 1 \in DOMAIN This.models
          /\ \A i \in DOMAIN This.models : (i < v + 1 => i < v \/ i = v) /\ (i >= v + 1 => i > v)
      BY <1>4, <2>1
    <3>2. \A i \in DOMAIN This.models : /\ i < v + 1 => Complete(This, This.models[i])
                                        /\ i >= v + 1 => Blank(This, This.models[i])
      BY <1>2, <1>3, <3>1 DEF Evaluating
    <3>3. QED BY <1>1, <1>2, <1>4, <1>5, <2>1, <3>1, <3>2 DEF Evaluating, EAt
  <2>2. CASE ~(v < Len(This.models))
    <3>1. \A i \in DOMAIN This.models : i < v \/ i = v
      BY <1>4, <2>2
    <3>2. \A i \in DOMAIN This.models : Complete(This, This.models[i])
      BY <1>2, <1>3, <3>1 DEF Evaluating
    <3>3. QED BY <1>1, <1>2, <1>4, <1>5, <2>2, <3>1, <3>2 DEF Evaluating, EAt
  <2>3. QED BY <2>1, <2>2
<1>7. EvaluatorOK(w, evaluations, DOMAIN runs, WholeRuns)
  BY <1>1, <1>5, <1>6, AtWork DEF EvaluatorOK, EAt, This
<1>8. QED BY <1>1, <1>7, EvaluatorThinks

-----------------------------------------------------------------------------
(* A record is appended. *)

\* What an appended answer leaves of a run.
LEMMA FollowsOn ==
  ASSUME NEW r, NEW D, Configured(r, D), NEW v, Follows(r, v), NEW g,
         Len(r.generations[v]) < Wanted(r), AsPlanned(g, r, Len(r.generations[v])),
         NEW x, Plan(x) = Plan(r), x.generations[v] = Append(r.generations[v], g)
  PROVE  Follows(x, v) /\ Len(x.generations[v]) = Len(r.generations[v]) + 1
<1> DEFINE G == r.generations[v]
           H == x.generations[v]
<1>1. IsLog(G) /\ Len(G) \in Nat /\ DOMAIN G = 1..Len(G)
  BY LogLength DEF Follows
<1>2. /\ IsLog(H) /\ Len(H) = Len(G) + 1
      /\ \A i \in 1..Len(G) : H[i] = G[i]
      /\ H[Len(G) + 1] = g
  BY <1>1, AppendLog
<1>3. DOMAIN H = 1..(Len(G) + 1)
  BY <1>2, LogLength
<1>4. Wanted(x) = Wanted(r) /\ Wanted(r) \in Nat
  BY DEF Plan, Wanted, Configured
<1>5. \A h, j : AsPlanned(h, x, j) <=> AsPlanned(h, r, j)
  BY DEF Plan, AsPlanned
<1>6. \A i \in 1..Len(G) : AsPlanned(G[i], r, i - 1)
  BY <1>1 DEF Follows
<1>7. AsPlanned(H[Len(G) + 1], r, (Len(G) + 1) - 1)
  BY <1>1, <1>2
<1> HIDE DEF G, H
<1>8. \A i \in DOMAIN H : AsPlanned(H[i], x, i - 1)
  <2> SUFFICES ASSUME NEW i \in DOMAIN H PROVE AsPlanned(H[i], r, i - 1)
    BY <1>5
  <2>1. CASE i \in 1..Len(G)
    BY <1>2, <1>6, <2>1
  <2>2. CASE i = Len(G) + 1
    BY <1>7, <2>2
  <2>3. QED BY <1>1, <1>3, <2>1, <2>2
<1>9. Len(G) + 1 <= Wanted(r)
  BY <1>1, <1>4 DEF G
<1>10. QED BY <1>2, <1>4, <1>8, <1>9 DEF Follows, G, H

LEMMA GenerateStep == ASSUME PairedInv, NEW a \in Answers, Generate(a) PROVE PairedInv'
<1> DEFINE r == This
           v == Variant
           G == r.generations[v]
           g == GenerationRecord(Len(G), a)
           x == [r EXCEPT !.generations[v] = Append(@, g)]
           pc == IF Len(G) + 1 = Wanted(r) THEN "judging" ELSE "generating"
           w == [evaluator EXCEPT !.pc = pc]
<1>1. /\ EAt("generating") /\ evaluator' = w /\ UNCHANGED <<runs, benchmark, catalog>>
      /\ evaluations' = [evaluations EXCEPT ![evaluator.evaluation] = x]
  BY AloneKeeps DEF Generate, EGoTo, Wanted, This
<1>2. /\ SoundEvaluation(r, DOMAIN runs, WholeRuns) /\ Configured(r, DOMAIN runs)
      /\ Evaluating(evaluator, r, WholeRuns) /\ EvaluatorFields \subseteq DOMAIN evaluator
  BY <1>1, AtWork DEF EAt
<1>3. /\ evaluator.variant \in DOMAIN r.models /\ v = r.models[evaluator.variant]
      /\ v \in ModelVariants /\ evaluator.catalog = r.catalog
  BY <1>2, VariantsAreDistinct DEF Evaluating, Variant
<1>4. /\ r.judgements[v] = <<>> /\ Len(G) < Wanted(r) /\ r.status = "running" /\ r.recorded
      /\ v = "dpo" => r.run \in WholeRuns
  BY <1>1, <1>2, <1>3 DEF Evaluating, EAt
<1>5. Follows(r, v) /\ Len(G) \in Nat /\ Wanted(r) \in Nat
  BY <1>2, <1>3, LogLength DEF SoundEvaluation, Follows, Configured, Wanted
<1>6. AsPlanned(g, r, Len(G))
  BY <1>3 DEF GenerationRecord, AsPlanned
<1>7. /\ EvaluationFields \subseteq DOMAIN x /\ Plan(x) = Plan(r)
      /\ x.status = r.status /\ x.error = r.error /\ x.recorded = r.recorded
      /\ x.judgements = r.judgements
      /\ x.generations = [r.generations EXCEPT ![v] = Append(@, g)]
  BY <1>2 DEF Configured, EvaluationFields, Plan
<1>8. /\ x.generations[v] = Append(G, g)
      /\ \A u \in ModelVariants : u # v => x.generations[u] = r.generations[u]
      /\ x.generations = [u \in ModelVariants |-> x.generations[u]]
  <2> HIDE DEF x, g, v, r
  <2>1. r.generations = [u \in ModelVariants |-> r.generations[u]] /\ v \in ModelVariants
    BY <1>2, <1>3 DEF Configured
  <2>2. QED BY <1>7, <2>1
<1>9. /\ EvaluatorFields \subseteq DOMAIN w /\ w.pc = pc /\ w.evaluation = evaluator.evaluation
      /\ w.variant = evaluator.variant /\ w.catalog = evaluator.catalog
  BY <1>2 DEF EvaluatorFields
<1> HIDE DEF x, w, g
<1>10. Configured(x, DOMAIN runs)
  BY <1>2, <1>7, <1>8 DEF Configured, Plan
<1>11. Follows(x, v) /\ Len(x.generations[v]) = Len(G) + 1
  <2> HIDE DEF v, r
  <2>1. Plan(x) = Plan(r) /\ x.generations[v] = Append(r.generations[v], g)
    BY <1>7, <1>8
  <2>2. QED BY <1>2, <1>4, <1>5, <1>6, <2>1, FollowsOn
<1>12. InOrder(x, v)
  <2>1. IsLog(x.generations[v]) /\ x.judgements[v] = <<>>
    BY <1>4, <1>7, <1>11 DEF Follows
  <2>2. QED BY <2>1, EmptyLog, AnsweredPlaces DEF InOrder
<1>13. \A u \in ModelVariants :
         u # v => /\ Follows(x, u) <=> Follows(r, u)
                  /\ InOrder(x, u) <=> InOrder(r, u)
                  /\ Complete(x, u) <=> Complete(r, u)
                  /\ Blank(x, u) <=> Blank(r, u)
  BY <1>7, <1>8, Alike
<1>14. Wanted(x) = Wanted(r) /\ x.models = r.models /\ x.run = r.run /\ x.catalog = r.catalog
  BY <1>7 DEF Plan, Wanted
<1>15. x.generations["dpo"] # <<>> => x.run \in WholeRuns /\ x.recorded
  <2>1. CASE v = "dpo"
    BY <1>4, <1>7, <1>14, <2>1
  <2>2. CASE v # "dpo"
    BY <1>2, <1>7, <1>8, <1>14, <2>2 DEF SoundEvaluation, ModelVariants
  <2>3. QED BY <2>1, <2>2
<1>16. SoundEvaluation(x, DOMAIN runs, WholeRuns)
  BY <1>2, <1>4, <1>7, <1>10, <1>11, <1>12, <1>13, <1>15 DEF SoundEvaluation
<1>17. Evaluating(w, x, WholeRuns)
  <2>1. \A i \in DOMAIN r.models :
          /\ i # evaluator.variant => r.models[i] # v /\ r.models[i] \in ModelVariants
          /\ i \in Nat
    BY <1>2, <1>3, VariantsAreDistinct
  <2>2. \A i \in DOMAIN r.models :
          i < evaluator.variant \/ i > evaluator.variant => i # evaluator.variant
    BY <1>3, <2>1
  <2>3. \A i \in DOMAIN x.models :
          /\ i < w.variant => Complete(x, x.models[i])
          /\ i > w.variant => Blank(x, x.models[i])
    BY <1>2, <1>9, <1>13, <1>14, <2>1, <2>2 DEF Evaluating
  <2>4. w.pc = "generating" => Len(x.generations[v]) < Wanted(x)
    BY <1>4, <1>5, <1>9, <1>11, <1>14
  <2>5. w.pc = "judging" => Len(x.generations[v]) = Wanted(x)
    BY <1>9, <1>11, <1>14
  <2>6. w.pc \in {"generating", "judging"}
    BY <1>9
  <2>7. QED BY <1>3, <1>4, <1>7, <1>9, <1>14, <2>3, <2>4, <2>5, <2>6 DEF Evaluating
<1>18. QED BY <1>1, <1>9, <1>16, <1>17, EvaluationWrite DEF EAt

\* What an appended judgement leaves of a run.
LEMMA InOrderOn ==
  ASSUME NEW r, NEW v, InOrder(r, v), NEW j, EvaluationRecord(j), Counted(j),
         Len(r.judgements[v]) + 1 <= Len(Answered(r.generations[v])),
         j.problem = Answered(r.generations[v])[Len(r.judgements[v]) + 1].problem,
         j.sample = Answered(r.generations[v])[Len(r.judgements[v]) + 1].sample,
         NEW x, x.generations = r.generations, x.judgements[v] = Append(r.judgements[v], j)
  PROVE  InOrder(x, v)
<1> DEFINE J == r.judgements[v]
           K == x.judgements[v]
           A == Answered(r.generations[v])
           Fits(k, i) == EvaluationRecord(k) /\ Counted(k) /\ k.problem = A[i].problem /\ k.sample = A[i].sample
<1>1. IsLog(J) /\ Len(J) \in Nat /\ DOMAIN J = 1..Len(J)
  BY LogLength DEF InOrder
<1>2. /\ IsLog(K) /\ Len(K) = Len(J) + 1
      /\ \A i \in 1..Len(J) : K[i] = J[i]
      /\ K[Len(J) + 1] = j
  BY <1>1, AppendLog
<1>3. DOMAIN K = 1..(Len(J) + 1)
  BY <1>2, LogLength
<1>4. \A i \in 1..Len(J) : Fits(J[i], i)
  BY <1>1 DEF InOrder
<1>5. Fits(K[Len(J) + 1], Len(J) + 1)
  BY <1>2
<1> HIDE DEF J, Fits
<1>6. \A i \in DOMAIN K : Fits(K[i], i)
  <2> SUFFICES ASSUME NEW i \in DOMAIN K PROVE Fits(K[i], i)
    OBVIOUS
  <2>1. CASE i \in 1..Len(J)
    BY <1>2, <1>4, <2>1
  <2>2. CASE i = Len(J) + 1
    BY <1>5, <2>2
  <2>3. QED BY <1>1, <1>3, <2>1, <2>2
<1>7. Len(K) <= Len(A)
  BY <1>2
<1>8. QED BY <1>2, <1>6, <1>7 DEF InOrder, Fits

LEMMA JudgedIsRecord ==
  ASSUME NEW g, NEW result \in Results
  PROVE  LET r == IF g.syntax THEN result
                  ELSE [status |-> "syntax_error", passed |-> 0, failed |-> 0, errors |-> 0,
                        skipped |-> 0, total |-> 0, import |-> FALSE]
         IN  /\ r.passed + r.failed + r.errors + r.skipped = r.total
             /\ r.status = "passed" <=> ClassifyErrorType(r) = "none"
             /\ ClassifyErrorType(r) \in ErrorTypes \cup {"none"}
             /\ {r.passed, r.failed, r.errors, r.skipped} \subseteq Nat
             /\ r.status = "infrastructure_error" <=> ClassifyErrorType(r) = "infrastructure_error"
BY ResultsAssumption DEF ClassifyErrorType, ErrorTypes

LEMMA JudgeStep == ASSUME PairedInv, NEW result \in Results, Judge(result) PROVE PairedInv'
<1> DEFINE r == This
           v == Variant
           g == ToJudge[Len(r.judgements[v]) + 1]
           f == IF g.syntax THEN result
                ELSE [status |-> "syntax_error", passed |-> 0, failed |-> 0, errors |-> 0,
                      skipped |-> 0, total |-> 0, import |-> FALSE]
           j == [problem |-> g.problem, sample |-> g.sample, status |-> f.status,
                 passed |-> f.passed, failed |-> f.failed, errors |-> f.errors,
                 skipped |-> f.skipped, total |-> f.total, type |-> ClassifyErrorType(f)]
           x == [r EXCEPT !.judgements[v] = Append(@, j)]
           w == [evaluator EXCEPT !.pc = "failing"]
<1>1. EAt("judging") /\ UNCHANGED <<runs, benchmark, catalog>>
  BY AloneKeeps DEF Judge
<1>2. /\ SoundEvaluation(r, DOMAIN runs, WholeRuns) /\ Configured(r, DOMAIN runs)
      /\ Evaluating(evaluator, r, WholeRuns) /\ EvaluatorFields \subseteq DOMAIN evaluator
  BY <1>1, AtWork DEF EAt
<1>3. CASE EGoTo("failing") /\ UNCHANGED evaluations
  <2>1. w.pc = "failing" /\ w.variant = evaluator.variant /\ w.catalog = evaluator.catalog
    BY <1>2 DEF EvaluatorFields
  <2> HIDE DEF w
  <2>2. Evaluating(w, r, WholeRuns)
    BY <1>1, <1>2, <2>1 DEF Evaluating, EAt
  <2>3. QED BY <1>1, <1>3, <2>2, EvaluatorGoesOn DEF w, EAt
<1>4. CASE evaluations' = [evaluations EXCEPT ![evaluator.evaluation] = x] /\ UNCHANGED evaluator
  <2>1. EvaluationRecord(j) /\ Counted(j) /\ j.problem = g.problem /\ j.sample = g.sample
    <3> HIDE DEF g
    <3>1. /\ f.passed + f.failed + f.errors + f.skipped = f.total
          /\ f.status = "passed" <=> ClassifyErrorType(f) = "none"
          /\ ClassifyErrorType(f) \in ErrorTypes \cup {"none"}
          /\ {f.passed, f.failed, f.errors, f.skipped} \subseteq Nat
          /\ f.status = "infrastructure_error" <=> ClassifyErrorType(f) = "infrastructure_error"
      BY JudgedIsRecord
    <3> HIDE DEF f
    <3>2. QED BY <3>1 DEF EvaluationRecord, Counted
  <2>2. /\ evaluator.variant \in DOMAIN r.models /\ v = r.models[evaluator.variant]
        /\ v \in ModelVariants /\ evaluator.catalog = r.catalog
    BY <1>2, VariantsAreDistinct DEF Evaluating, Variant
  <2>3. r.status = "running" /\ Len(r.generations[v]) = Wanted(r)
    BY <1>1, <1>2, <2>2 DEF Evaluating, EAt
  <2>4. InOrder(r, v) /\ Follows(r, v)
    BY <1>2, <2>2 DEF SoundEvaluation
  <2>5. /\ g = Answered(r.generations[v])[Len(r.judgements[v]) + 1]
        /\ Len(r.judgements[v]) + 1 <= Len(Answered(r.generations[v]))
    BY DEF ToJudge, Judge
  <2>6. /\ EvaluationFields \subseteq DOMAIN x /\ Plan(x) = Plan(r)
        /\ x.status = r.status /\ x.error = r.error /\ x.recorded = r.recorded
        /\ x.generations = r.generations
        /\ x.judgements = [r.judgements EXCEPT ![v] = Append(@, j)]
    <3> HIDE DEF j, r, v
    <3>1. QED BY <1>2 DEF Configured, EvaluationFields, Plan
  <2> HIDE DEF x, j, g, r, v
  <2>7. /\ x.judgements[v] = Append(r.judgements[v], j)
        /\ \A u \in ModelVariants : u # v => x.judgements[u] = r.judgements[u]
        /\ x.judgements = [u \in ModelVariants |-> x.judgements[u]]
    <3>1. r.judgements = [u \in ModelVariants |-> r.judgements[u]]
      BY <1>2 DEF Configured
    <3>2. QED BY <2>2, <2>6, <3>1
  <2>8. Configured(x, DOMAIN runs)
    BY <1>2, <2>6, <2>7 DEF Configured, Plan
  <2>9. InOrder(x, v)
    BY <2>1, <2>4, <2>5, <2>6, <2>7, InOrderOn
  <2>10. /\ Wanted(x) = Wanted(r) /\ x.models = r.models /\ x.run = r.run
         /\ x.catalog = r.catalog
    BY <2>6 DEF Plan, Wanted
  <2>11. Follows(x, v)
    BY <2>4, <2>6, <2>10 DEF Follows, AsPlanned, Plan
  <2>12. \A u \in ModelVariants :
           u # v => /\ Follows(x, u) <=> Follows(r, u)
                    /\ InOrder(x, u) <=> InOrder(r, u)
                    /\ Complete(x, u) <=> Complete(r, u)
                    /\ Blank(x, u) <=> Blank(r, u)
    BY <2>6, <2>7, Alike
  <2>13. SoundEvaluation(x, DOMAIN runs, WholeRuns)
    BY <1>2, <2>3, <2>6, <2>8, <2>9, <2>10, <2>11, <2>12 DEF SoundEvaluation
  <2>14. Evaluating(evaluator, x, WholeRuns)
    <3>1. \A i \in DOMAIN r.models :
            i < evaluator.variant \/ i > evaluator.variant =>
              r.models[i] # v /\ r.models[i] \in ModelVariants
      BY <1>2, <2>2, VariantsAreDistinct
    <3>2. \A i \in DOMAIN x.models :
            /\ i < evaluator.variant => Complete(x, x.models[i])
            /\ i > evaluator.variant => Blank(x, x.models[i])
      BY <1>2, <2>10, <2>12, <3>1 DEF Evaluating
    <3>3. QED BY <1>1, <1>2, <2>2, <2>3, <2>6, <2>10, <3>2 DEF Evaluating, EAt
  <2>15. QED BY <1>1, <1>2, <1>4, <2>13, <2>14, EvaluationWrite DEF EAt
<1>5. QED BY <1>3, <1>4 DEF Judge, This

-----------------------------------------------------------------------------
(* The commands around a run. *)

LEMMA OpenBenchmarkStep ==
  ASSUME PairedInv, NEW k \in DOMAIN Evaluations, NEW i \in DOMAIN runs, OpenBenchmark(k, i)
  PROVE  PairedInv'
<1> DEFINE found == IF LoadBenchmark(benchmark, Catalogs[catalog]) THEN benchmark
                    ELSE BuildBenchmark(Catalogs[catalog], DOMAIN Catalogs[catalog])
           w == [IdleEvaluator EXCEPT !.pc = "opened", !.cmd = k, !.run = i,
                                      !.catalog = catalog, !.benchmark = found]
<1>1. /\ UNCHANGED <<runs, catalog, evaluations>> /\ benchmark' = found /\ evaluator' = w
      /\ DOMAIN found # {} /\ EvaluationExperimentConfig(Resolved(Evaluations[k]))
  BY DEF OpenBenchmark, Elsewhere, tvars
<1>2. IsFiniteSet(DOMAIN found) /\ DOMAIN found \in SUBSET Nat
  BY CatalogsAssumption DEF PairedInv, BenchmarkOK, Listed, LoadBenchmark, BuildBenchmark
<1> HIDE DEF found
<1>3. /\ EvaluatorFields \subseteq DOMAIN w /\ w.pc = "opened" /\ w.cmd = k /\ w.run = i
      /\ w.benchmark = found
  BY DEF IdleEvaluator, EvaluatorFields
<1> HIDE DEF w
<1>4. EvaluatorOK(w, evaluations, DOMAIN runs, WholeRuns)
  BY <1>1, <1>2, <1>3 DEF EvaluatorOK, Opened, Listed
<1>5. BenchmarkOK(found)
  BY <1>1, <1>2 DEF BenchmarkOK, Listed
<1>6. WholeRuns' = WholeRuns
  BY <1>1 DEF WholeRuns
<1>7. QED BY <1>1, <1>4, <1>5, <1>6 DEF PairedInv

LEMMA DatasetSteps ==
  ASSUME PairedInv, ChangeCatalog \/ BenchmarkBuild
  PROVE  PairedInv'
<1>1. UNCHANGED <<runs, evaluations, evaluator>>
  BY DEF ChangeCatalog, BenchmarkBuild, Elsewhere, tvars
<1>2. BenchmarkOK(benchmark') /\ catalog' \in DOMAIN Catalogs
  <2>1. CASE ChangeCatalog
    BY <2>1 DEF ChangeCatalog, PairedInv
  <2>2. CASE BenchmarkBuild
    <3> DEFINE content == Catalogs[catalog]
    <3>1. PICK ids \in SUBSET DOMAIN content : ids # {} /\ benchmark' = BuildBenchmark(content, ids)
      BY <2>2 DEF BenchmarkBuild
    <3>2. IsFiniteSet(ids)
      <4>1. IsFiniteSet(DOMAIN content)
        BY CatalogsAssumption DEF PairedInv
      <4>2. QED BY <4>1, FS_Subset
    <3>3. DOMAIN BuildBenchmark(content, ids) = ids
      BY DEF BuildBenchmark
    <3>4. ids \in SUBSET Nat
      BY <3>1, CatalogsAssumption DEF PairedInv
    <3>5. QED BY <2>2, <3>1, <3>2, <3>3, <3>4 DEF BenchmarkOK, Listed, BenchmarkBuild, PairedInv
  <2>3. QED BY <2>1, <2>2
<1>3. WholeRuns' = WholeRuns
  BY <1>1 DEF WholeRuns
<1>4. QED BY <1>1, <1>2, <1>3 DEF PairedInv

\* That a report is written does not change what it is about.
LEMMA ReportWrite ==
  ASSUME PairedInv, NEW e \in EvaluationRuns, WriteEvaluationReport(e),
         SoundEvaluation(evaluations[e], DOMAIN runs, WholeRuns),
         UNCHANGED <<runs, benchmark, catalog>>, ELeave \/ UNCHANGED evaluator
  PROVE  PairedInv'
<1> DEFINE r == evaluations[e]
           x == [r EXCEPT !.reported = TRUE]
<1>1. evaluations' = [evaluations EXCEPT ![e] = x]
  BY DEF WriteEvaluationReport
<1>2. EvaluationFields \subseteq DOMAIN r
  BY DEF SoundEvaluation, Configured
<1>3. /\ EvaluationFields \subseteq DOMAIN x /\ Plan(x) = Plan(r)
      /\ x.generations = r.generations /\ x.judgements = r.judgements
      /\ x.recorded = r.recorded /\ x.status = r.status /\ x.error = r.error
  BY <1>2 DEF EvaluationFields, Plan
<1> HIDE DEF x
<1>4. SoundEvaluation(x, DOMAIN runs, WholeRuns)
  <2>1. /\ x.status = "failed" <=> x.error
        /\ x.status = "completed" => \A i \in DOMAIN r.models : Complete(r, r.models[i])
    BY <1>3 DEF SoundEvaluation
  <2>2. QED BY <1>3, <2>1, StatusWrite
<1>5. /\ evaluations' = [d \in EvaluationRuns |-> evaluations'[d]]
      /\ \A d \in EvaluationRuns : evaluations'[d] = IF d = e THEN x ELSE evaluations[d]
  BY <1>1 DEF PairedInv
<1>6. WholeRuns' = WholeRuns
  BY DEF WholeRuns
<1>7. \A w : EvaluatorOK(w, evaluations, DOMAIN runs, WholeRuns) =>
               EvaluatorOK(w, evaluations', DOMAIN runs, WholeRuns)
  <2>1. \A w : Evaluating(w, r, WholeRuns) => Evaluating(w, x, WholeRuns)
    <3>1. \A v : (Complete(x, v) <=> Complete(r, v)) /\ (Blank(x, v) <=> Blank(r, v))
      BY <1>3, Alike
    <3>2. x.models = r.models /\ x.catalog = r.catalog /\ Wanted(x) = Wanted(r) /\ x.run = r.run
      BY <1>3 DEF Plan, Wanted
    <3>3. QED BY <1>3, <3>1, <3>2 DEF Evaluating
  <2>2. QED BY <1>4, <1>5, <2>1 DEF EvaluatorOK
<1>8. EvaluatorOK(evaluator', evaluations', DOMAIN runs, WholeRuns)
  BY <1>7, IdleIsOK DEF ELeave, PairedInv
<1>9. \A d \in EvaluationRuns :
        evaluations'[d] # None => SoundEvaluation(evaluations'[d], DOMAIN runs, WholeRuns)
  BY <1>4, <1>5 DEF PairedInv
<1>10. QED BY <1>5, <1>6, <1>8, <1>9 DEF PairedInv

LEMMA ReportSteps ==
  ASSUME PairedInv, ReportRun \/ \E e \in EvaluationRuns : ReportAgain(e)
  PROVE  PairedInv'
<1>1. UNCHANGED <<runs, benchmark, catalog>> /\ (ELeave \/ UNCHANGED evaluator)
  BY DEF ReportRun, ReportAgain, Elsewhere, tvars
<1>2. CASE ReportRun
  <2>1. evaluator.pc \notin {"idle", "opened"} /\ WriteEvaluationReport(evaluator.evaluation)
    BY <1>2 DEF ReportRun, EAt
  <2>2. QED BY <1>1, <2>1, AtWork, ReportWrite DEF This
<1>3. ASSUME NEW e \in EvaluationRuns, ReportAgain(e) PROVE PairedInv'
  <2>1. SoundEvaluation(evaluations[e], DOMAIN runs, WholeRuns) /\ WriteEvaluationReport(e)
    BY <1>3 DEF ReportAgain, PairedInv
  <2>2. QED BY <1>1, <2>1, ReportWrite
<1>4. QED BY <1>2, <1>3

\* Training goes on, and its runs are only added to.
LEMMA RunsGrowOn ==
  ASSUME PairedInv, WholeRuns \subseteq WholeRuns', DOMAIN runs \subseteq DOMAIN runs',
         UNCHANGED evars
  PROVE  PairedInv'
<1>1. \A r : SoundEvaluation(r, DOMAIN runs, WholeRuns) =>
               SoundEvaluation(r, DOMAIN runs', WholeRuns')
  BY DEF SoundEvaluation, Configured
<1>2. \A w, r : Evaluating(w, r, WholeRuns) => Evaluating(w, r, WholeRuns')
  BY DEF Evaluating
<1>3. \A w : EvaluatorOK(w, evaluations, DOMAIN runs, WholeRuns) =>
               EvaluatorOK(w, evaluations, DOMAIN runs', WholeRuns')
  BY <1>1, <1>2 DEF EvaluatorOK, Opened
<1>4. QED BY <1>1, <1>3 DEF PairedInv, evars

LEMMA PairedInitial == ModelsInit => PairedInv
<1> SUFFICES ASSUME ModelsInit PROVE PairedInv
  OBVIOUS
<1>1. EvaluationInit
  BY DEF ModelsInit
<1>2. EvaluatorOK(evaluator, evaluations, DOMAIN runs, WholeRuns)
  BY <1>1, IdleIsOK DEF EvaluationInit
<1>3. \A e \in EvaluationRuns : evaluations[e] = None
  BY <1>1 DEF EvaluationInit
<1>4. evaluations = [e \in EvaluationRuns |-> evaluations[e]]
  BY <1>1 DEF EvaluationInit
<1>5. QED BY <1>1, <1>2, <1>3, <1>4 DEF PairedInv, EvaluationInit, BenchmarkOK

LEMMA PairedStep ==
  ASSUME RunsTyped, PairedInv, [ModelsNext]_mvars
  PROVE  PairedInv'
<1>1. CASE [TrainingNext]_tvars /\ UNCHANGED evars
  BY <1>1, RunsGrow, RunsGrowOn
<1>2. CASE PackagersNext /\ UNCHANGED evars
  <2>1. UNCHANGED runs
    BY <1>2 DEF PackagersNext, Package, ReadReport, Promote, Command, ClearPackage, CopyAdapter,
         DescribePackage, VerifyPackage, Register, Recommend, OpenTemporary, WriteTemporary,
         Replace, KillPackager, tvars
  <2>2. WholeRuns' = WholeRuns
    BY <2>1 DEF WholeRuns
  <2>3. QED BY <1>2, <2>1, <2>2, RunsGrowOn
<1>3. CASE EvaluationNext
  <2>1. ASSUME NEW k \in DOMAIN Evaluations, NEW r \in DOMAIN runs, OpenBenchmark(k, r)
        PROVE  PairedInv'
    BY <2>1, OpenBenchmarkStep
  <2>2. ASSUME NEW e \in EvaluationRuns, CreateEvaluation(e) PROVE PairedInv'
    BY <2>2, CreateEvaluationStep
  <2>3. CASE RecordExperiment
    BY <2>3, RecordExperimentStep
  <2>4. CASE StartEvaluation \/ CompleteEvaluation
    BY <2>4, StatusStep
  <2>5. CASE LoadModel
    BY <2>5, LoadModelStep
  <2>6. CASE NextVariant
    BY <2>6, NextVariantStep
  <2>7. ASSUME NEW a \in Answers, Generate(a) PROVE PairedInv'
    BY <2>7, GenerateStep
  <2>8. ASSUME NEW result \in Results, Judge(result) PROVE PairedInv'
    BY <2>8, JudgeStep
  <2>9. CASE RaiseInEvaluation
    BY <2>9, RaiseInEvaluationStep
  <2>10. CASE FailEvaluation
    BY <2>10, FailEvaluationStep
  <2>11. CASE ReportRun \/ \E e \in EvaluationRuns : ReportAgain(e)
    BY <2>11, ReportSteps
  <2>12. CASE ChangeCatalog \/ BenchmarkBuild
    BY <2>12, DatasetSteps
  <2>13. CASE InterruptEvaluation
    BY <2>13, InterruptEvaluationStep
  <2>14. CASE KillEvaluation
    BY <2>14, KillEvaluationStep
  <2>15. QED
    BY <1>3, <2>1, <2>2, <2>3, <2>4, <2>5, <2>6, <2>7, <2>8, <2>9, <2>10, <2>11, <2>12, <2>13,
       <2>14 DEF EvaluationNext, Evaluate
<1>4. CASE UNCHANGED mvars
  BY <1>1, <1>4 DEF mvars, vars
<1>5. QED BY <1>1, <1>2, <1>3, <1>4 DEF ModelsNext

-----------------------------------------------------------------------------
(* A complete schedule. *)

\* Every problem and sample is answered, and nothing else.
LEMMA AnswersEverything ==
  ASSUME NEW r, NEW D, Configured(r, D), NEW v, Follows(r, v), Complete(r, v)
  PROVE  LET G == r.generations[v] IN
         {<<G[i].problem, G[i].sample>> : i \in DOMAIN G} =
           {r.order[a] : a \in DOMAIN r.order} \X (0..r.samples - 1)
<1> DEFINE G == r.generations[v]
           n == Len(r.order)
           s == r.samples
           L == {<<G[i].problem, G[i].sample>> : i \in DOMAIN G}
           R == {r.order[a] : a \in DOMAIN r.order} \X (0..s - 1)
<1>1. /\ n \in Nat \ {0} /\ s \in Nat \ {0} /\ DOMAIN r.order = 1..n
      /\ DOMAIN G = 1..(n * s) /\ n * s \in Nat
  BY LogLength DEF Configured, Follows, Complete, Wanted
<1>2. \A i \in 1..(n * s) : /\ G[i].problem = r.order[((i - 1) \div s) + 1]
                            /\ G[i].sample = (i - 1) % s
  BY <1>1 DEF Follows, AsPlanned
<1> HIDE DEF G, n, s
<1>3. ASSUME NEW i \in DOMAIN G PROVE <<G[i].problem, G[i].sample>> \in R
  <2> DEFINE j == i - 1
  <2>1. i \in 1..(n * s) /\ j \in Nat /\ j < n * s
    BY <1>1
  <2>2. j \div s \in Nat /\ j \div s < n /\ (j % s) \in 0..(s - 1)
    BY <1>1, <2>1, DivBelow, DivMod
  <2>3. G[i].problem = r.order[(j \div s) + 1] /\ G[i].sample = (j % s)
    BY <1>2, <2>1
  <2> HIDE DEF j
  <2>4. (j \div s) + 1 \in DOMAIN r.order
    BY <1>1, <2>2
  <2>5. QED BY <2>2, <2>3, <2>4
<1>4. ASSUME NEW a \in DOMAIN r.order, NEW b \in 0..(s - 1) PROVE <<r.order[a], b>> \in L
  <2> DEFINE c == a - 1
             j == (c * s) + b
  <2>1. c \in Nat /\ c < n /\ c + 1 = a
    BY <1>1
  <2> HIDE DEF c
  <2>2. j \in Nat /\ j < n * s /\ j \div s = c /\ (j % s) = b
    BY <1>1, <2>1, DivOnto
  <2> HIDE DEF j
  <2>3. j + 1 \in 1..(n * s) /\ (j + 1) - 1 = j
    BY <1>1, <2>2
  <2>4. G[j + 1].problem = r.order[a] /\ G[j + 1].sample = b
    BY <1>2, <2>1, <2>2, <2>3
  <2>5. QED BY <1>1, <2>3, <2>4
<1>5. L \subseteq R
  BY <1>3
<1>6. R \subseteq L
  BY <1>4
<1>7. QED BY <1>5, <1>6 DEF G, s

\* No seed is used twice.
LEMMA SeedsAreMany ==
  ASSUME SeedsFit, NEW r, NEW D, Configured(r, D), NEW v, Follows(r, v)
  PROVE  LET G == r.generations[v] IN
         Cardinality({G[i].seed : i \in DOMAIN G}) = Len(G)
<1> DEFINE G == r.generations[v]
           T == {G[i].seed : i \in DOMAIN G}
           f == [i \in DOMAIN G |-> G[i].seed]
           s == r.samples
<1>1. DOMAIN G = 1..Len(G) /\ Len(G) \in Nat /\ s \in Nat \ {0} /\ s <= SeedStride /\ r.seed \in Int
  BY LogLength DEF Configured, Follows
<1>2. \A i \in DOMAIN G : G[i].seed = ComputeSeed(r.seed, (i - 1) \div s, (i - 1) % s)
  BY DEF Follows, AsPlanned
<1> HIDE DEF G, s
<1>3. ASSUME NEW i \in DOMAIN G, NEW k \in DOMAIN G, f[i] = f[k] PROVE i = k
  <2> DEFINE a == i - 1
             c == k - 1
  <2>1. a \in Nat /\ c \in Nat /\ i = a + 1 /\ k = c + 1
    BY <1>1
  <2>2. ComputeSeed(r.seed, a \div s, a % s) = ComputeSeed(r.seed, c \div s, c % s)
    BY <1>2, <1>3
  <2> HIDE DEF a, c
  <2>3. a = c
    BY <1>1, <2>1, <2>2, SeedsDiffer
  <2>4. QED BY <2>1, <2>3
<1>4. f \in Surjection(DOMAIN G, T) /\ f \in Injection(DOMAIN G, T)
  BY <1>3 DEF Surjection, Injection, IsInjective
<1> HIDE DEF T, f
<1>5. IsFiniteSet(DOMAIN G) /\ Cardinality(DOMAIN G) = Len(G)
  <2> DEFINE m == Len(G)
  <2>1. m \in Int /\ 1 \in Int /\ m \in Nat /\ DOMAIN G = 1..m
    BY <1>1
  <2> HIDE DEF m
  <2>2. /\ IsFiniteSet(1..m)
        /\ Cardinality(1..m) = IF 1 > m THEN 0 ELSE (m - 1) + 1
    BY <2>1, FS_Interval
  <2>3. Cardinality(1..m) = m
    BY <2>1, <2>2
  <2>4. QED BY <2>1, <2>2, <2>3 DEF m
<1>6. Cardinality(T) = Cardinality(DOMAIN G)
  BY <1>4, <1>5, FS_Surjection
<1>7. QED BY <1>5, <1>6 DEF G, T

\* All variants are asked the same.
LEMMA SchedulesAgree ==
  ASSUME NEW e, LET r == evaluations[e] IN
           \E D : Configured(r, D),
         NEW v, NEW w, Follows(evaluations[e], v), Follows(evaluations[e], w),
         Complete(evaluations[e], v), Complete(evaluations[e], w)
  PROVE  Schedule(e, v) = Schedule(e, w)
<1> DEFINE r == evaluations[e]
           G == r.generations[v]
           H == r.generations[w]
<1>1. DOMAIN G = 1..Wanted(r) /\ DOMAIN H = 1..Wanted(r)
  BY LogLength DEF Follows, Complete
<1>2. ASSUME NEW i \in DOMAIN G
      PROVE  /\ G[i].problem = H[i].problem /\ G[i].sample = H[i].sample
             /\ G[i].seed = H[i].seed /\ G[i].prompt = H[i].prompt
  <2>1. AsPlanned(G[i], r, i - 1) /\ AsPlanned(H[i], r, i - 1)
    BY <1>1 DEF Follows
  <2> HIDE DEF G, H, r
  <2>2. QED BY <2>1 DEF AsPlanned
<1> HIDE DEF G, H
<1>3. [i \in DOMAIN G |-> <<G[i].problem, G[i].sample, G[i].seed, G[i].prompt>>]
        = [i \in DOMAIN H |-> <<H[i].problem, H[i].sample, H[i].seed, H[i].prompt>>]
  BY <1>1, <1>2
<1>4. QED BY <1>3 DEF Schedule, G, H

LEMMA PairedIsPaired == SeedsFit /\ PairedInv => CompletedIsPaired
<1> SUFFICES ASSUME SeedsFit, PairedInv, NEW e \in EvaluationRuns, evaluations[e] # None
             PROVE  LET r == evaluations[e] IN
                    /\ r.status = "failed" <=> r.error
                    /\ r.generations["dpo"] # <<>> => runs[r.run].adapter = "whole" /\ r.recorded
                    /\ \A v \in ModelVariants : \A j \in Judged(e, v) : EvaluationRecord(j)
                    /\ r.status = "completed" =>
                         \A v \in ModelVariants : Requested(e, v) =>
                           /\ {<<g.problem, g.sample>> : g \in Gen(e, v)} =
                                {r.order[i] : i \in DOMAIN r.order} \X (0..r.samples - 1)
                           /\ Cardinality({g.seed : g \in Gen(e, v)}) = Len(r.generations[v])
                           /\ \A w \in ModelVariants :
                                Requested(e, w) => Schedule(e, v) = Schedule(e, w)
                           /\ LET answered == Answered(r.generations[v])
                              IN  /\ Len(answered) = Len(r.judgements[v])
                                  /\ \A i \in DOMAIN r.judgements[v] :
                                       /\ r.judgements[v][i].problem = answered[i].problem
                                       /\ r.judgements[v][i].sample = answered[i].sample
  BY DEF CompletedIsPaired
<1> DEFINE r == evaluations[e]
<1>1. SoundEvaluation(r, DOMAIN runs, WholeRuns) /\ Configured(r, DOMAIN runs)
  BY DEF PairedInv, SoundEvaluation
<1>2. r.status = "failed" <=> r.error
  BY <1>1 DEF SoundEvaluation
<1>3. r.generations["dpo"] # <<>> => runs[r.run].adapter = "whole" /\ r.recorded
  BY <1>1 DEF SoundEvaluation, WholeRuns
<1>4. \A v \in ModelVariants : \A j \in Judged(e, v) : EvaluationRecord(j)
  BY <1>1 DEF SoundEvaluation, InOrder, Judged
<1>5. ASSUME r.status = "completed", NEW v \in ModelVariants, Requested(e, v)
      PROVE  /\ {<<g.problem, g.sample>> : g \in Gen(e, v)} =
                  {r.order[i] : i \in DOMAIN r.order} \X (0..r.samples - 1)
             /\ Cardinality({g.seed : g \in Gen(e, v)}) = Len(r.generations[v])
             /\ \A w \in ModelVariants : Requested(e, w) => Schedule(e, v) = Schedule(e, w)
             /\ Len(Answered(r.generations[v])) = Len(r.judgements[v])
             /\ \A i \in DOMAIN r.judgements[v] :
                  /\ r.judgements[v][i].problem = Answered(r.generations[v])[i].problem
                  /\ r.judgements[v][i].sample = Answered(r.generations[v])[i].sample
  <2> DEFINE G == r.generations[v]
  <2>1. \A w \in ModelVariants : Requested(e, w) => Follows(r, w) /\ InOrder(r, w) /\ Complete(r, w)
    BY <1>1, <1>5 DEF SoundEvaluation, Requested
  <2>2. Follows(r, v) /\ InOrder(r, v) /\ Complete(r, v)
    BY <1>5, <2>1
  <2>3. {<<g.problem, g.sample>> : g \in Gen(e, v)} =
          {<<G[i].problem, G[i].sample>> : i \in DOMAIN G}
    BY DEF Gen
  <2>4. {g.seed : g \in Gen(e, v)} = {G[i].seed : i \in DOMAIN G}
    BY DEF Gen
  <2>5. {<<G[i].problem, G[i].sample>> : i \in DOMAIN G} =
          {r.order[i] : i \in DOMAIN r.order} \X (0..r.samples - 1)
    BY <1>1, <2>2, AnswersEverything
  <2>6. Cardinality({G[i].seed : i \in DOMAIN G}) = Len(G)
    BY <1>1, <2>2, SeedsAreMany
  <2>7. \A w \in ModelVariants : Requested(e, w) => Schedule(e, v) = Schedule(e, w)
    BY <1>1, <2>1, <2>2, SchedulesAgree
  <2>8. Len(Answered(r.generations[v])) = Len(r.judgements[v])
    BY <2>2 DEF Complete
  <2>9. \A i \in DOMAIN r.judgements[v] :
          /\ r.judgements[v][i].problem = Answered(r.generations[v])[i].problem
          /\ r.judgements[v][i].sample = Answered(r.generations[v])[i].sample
    BY <2>2 DEF InOrder
  <2> HIDE DEF G, r
  <2>10. QED BY <2>3, <2>4, <2>5, <2>6, <2>7, <2>8, <2>9 DEF G
<1>6. QED BY <1>2, <1>3, <1>4, <1>5

\* model_evaluation: base and DPO are compared on the same problems, samples, seeds and prompts.
\* However often the problems, the benchmark and the training runs change meanwhile, wherever a
\* run is killed and however many runs there are, a completed run holds every problem and sample
\* once for each variant that was asked for, no seed twice, the same schedule for all variants
\* and one judgement for each answer, in order; and no answer of the DPO model without a whole
\* adapter.  It is as true as no problem takes more samples than its stride of seeds.
THEOREM CompletedEvaluationsArePaired ==
  ASSUME SeedsFit
  PROVE  ModelsSpec => []CompletedIsPaired
<1>1. ModelsInit => IInv /\ PairedInv
  BY InitialInv, PairedInitial
<1>2. IInv /\ PairedInv /\ [ModelsNext]_mvars => (IInv /\ PairedInv)'
  BY InvStep, PairedStep DEF IInv
<1>3. PairedInv => CompletedIsPaired
  BY PairedIsPaired
<1>4. QED BY <1>1, <1>2, <1>3, PTL DEF ModelsSpec

=============================================================================

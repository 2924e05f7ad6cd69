----------------------------- MODULE Packaging -----------------------------
(***************************************************************************)
(* What becomes of a trained adapter: `model package` and the packaging    *)
(* stage copy it into a package, have the packaged model answer a fixed    *)
(* problem in the sandbox, and enter it in models/registry.json; `model    *)
(* promote` moves it on.  Training goes on meanwhile.                      *)
(*                                                                         *)
(* The registry is read, changed and written back without a lock, through  *)
(* one temporary file that all writers share.                              *)
(***************************************************************************)
EXTENDS Training

CONSTANTS
  Packagers,       \* processes that package or promote
  Models,          \* model ids: an experiment's id, a training run's, or --model-id
  EvaluationRuns,  \* evaluate-model runs that `model promote` may name
  MaxCommands,     \* bound: commands of the packagers
  None             \* stands for an absent value

ASSUME CommandsAssumption == MaxCommands \in Nat
ASSUME NoneAssumption == None \notin EvaluationRuns

VARIABLES
  packages,   \* the package directory of each model id
  registry,   \* models/registry.json
  temporary,  \* models/registry.json.tmp
  torn,       \* which of these two hold a part of a text, or two texts mixed: no JSON
  reports,    \* reports/base_vs_dpo.json of each evaluation run; ModelEvaluation writes it
  packager,
  commands    \* given to the packagers so far

pvars == <<packages, registry, temporary, torn, reports, packager, commands>>
vars  == <<tvars, pvars>>

-----------------------------------------------------------------------------
(* The package and the registry. *)

NoPackage == [adapter |-> None, manifest |-> None]

STATUSES == {"EXPERIMENTAL", "VALIDATED", "RECOMMENDED", "RETIRED", "REJECTED"}

StatusTransitions(s) ==
  CASE s = "EXPERIMENTAL" -> {"VALIDATED", "RETIRED", "REJECTED"}
    [] s = "VALIDATED"    -> {"RECOMMENDED", "RETIRED", "REJECTED"}
    [] s = "RECOMMENDED"  -> {"RETIRED"}
    [] OTHER              -> {}

\* RegistryEntry: what was packaged, what answered the verification problem, and the
\* evaluation run it was recommended on.
RegistryEntry(run, answered) ==
  [status |-> "EXPERIMENTAL", run |-> run, verified |-> answered, evaluation |-> None]

Registered(m) == registry[m] # None

IdlePackager ==
  [pc |-> "idle", model |-> None, run |-> 0, answered |-> None, evaluation |-> None,
   passed |-> FALSE, content |-> None, file |-> "none", shared |-> FALSE]

PAt(p, pc)   == packager[p].pc = pc
PGoTo(p, pc) == packager' = [packager EXCEPT ![p].pc = pc]
PLeave(p)    == packager' = [packager EXCEPT ![p] = IdlePackager]
Dest(p)      == packages[packager[p].model]

Begin(p, w) ==
  /\ PAt(p, "idle")
  /\ commands < MaxCommands
  /\ commands' = commands + 1
  /\ packager' = [packager EXCEPT ![p] = w]

PackagingInit ==
  /\ packages = [m \in Models |-> NoPackage]
  /\ registry = [m \in Models |-> None]
  /\ temporary = None /\ torn = {}
  /\ reports = [e \in EvaluationRuns |-> [now |-> "none", ever |-> FALSE]]
  /\ packager = [p \in Packagers |-> IdlePackager]

-----------------------------------------------------------------------------
(* package_and_verify. *)

\* get_run, whose status does not matter; an empty adapter directory is a PackagingError.
Package(p, m, r) ==
  /\ runs[r].adapter # "none"
  /\ Begin(p, [IdlePackager EXCEPT !.pc = "clearing", !.model = m, !.run = r])
  /\ UNCHANGED <<tvars, packages, registry, temporary, torn, reports>>

\* rmtree of the adapter an earlier command left.
ClearPackage(p) ==
  /\ PAt(p, "clearing")
  /\ packages' = [packages EXCEPT ![packager[p].model].adapter = None]
  /\ PGoTo(p, "copying")
  /\ UNCHANGED <<tvars, registry, temporary, torn, reports, commands>>

\* copytree: it raises if another command has put an adapter there meanwhile.
CopyAdapter(p) ==
  LET r == packager[p].run IN
  /\ PAt(p, "copying")
  /\ IF Dest(p).adapter # None
     THEN PLeave(p) /\ UNCHANGED packages
     ELSE /\ packages' = [packages EXCEPT ![packager[p].model].adapter =
                            [run |-> r, state |-> runs[r].adapter]]
          /\ PGoTo(p, "describing")
  /\ UNCHANGED <<tvars, registry, temporary, torn, reports, commands>>

\* The tokenizer's copy, and the package's manifest.
DescribePackage(p) ==
  /\ PAt(p, "describing")
  /\ packages' = [packages EXCEPT ![packager[p].model].manifest = packager[p].run]
  /\ PGoTo(p, "verifying")
  /\ UNCHANGED <<tvars, registry, temporary, torn, reports, commands>>

\* verify_package: the model in the package directory answers, and the answer must pass in
\* the sandbox; a partial adapter does not load.
VerifyPackage(p) ==
  /\ PAt(p, "verifying")
  /\ \/ PLeave(p)
     \/ /\ Dest(p).adapter # None
        /\ Dest(p).adapter.state = "whole"
        /\ packager' = [packager EXCEPT ![p].pc = "registering",
                                        ![p].answered = Dest(p).adapter]
  /\ UNCHANGED <<tvars, packages, registry, temporary, torn, reports, commands>>

\* register: it reads the whole registry, and refuses an id that is there.  What is no JSON
\* raises.
Register(p) ==
  LET w == packager[p] IN
  /\ PAt(p, "registering")
  /\ IF Registered(w.model) \/ "registry" \in torn THEN PLeave(p)
     ELSE packager' = [packager EXCEPT
            ![p].pc = "writing",
            ![p].content = [registry EXCEPT ![w.model] = RegistryEntry(w.run, w.answered)]]
  /\ UNCHANGED <<tvars, packages, registry, temporary, torn, reports, commands>>

-----------------------------------------------------------------------------
(* model promote. *)

Promoted(m, status, e) ==
  [registry EXCEPT ![m].status = status, ![m].evaluation = IF e = None THEN @ ELSE e]

MayMove(m, status) ==
  "registry" \notin torn /\ Registered(m) /\ status \in StatusTransitions(registry[m].status)

\* For any other status the evaluation run, if it is given at all, is not looked at.
Promote(p, m, status, e) ==
  /\ status # "RECOMMENDED"
  /\ MayMove(m, status)
  /\ Begin(p, [IdlePackager EXCEPT !.pc = "writing", !.content = Promoted(m, status, e)])
  /\ UNCHANGED <<tvars, packages, registry, temporary, torn, reports>>

\* For RECOMMENDED the command first reads the report of the evaluation run it was given.
ReadReport(p, m, e) ==
  /\ reports[e].now # "none"
  /\ Begin(p, [IdlePackager EXCEPT !.pc = "recommending", !.model = m, !.evaluation = e,
                                   !.passed = (reports[e].now = "success")])
  /\ UNCHANGED <<tvars, packages, registry, temporary, torn, reports>>

\* Mutant: the caller's evaluation run id is taken for the proof.
RecommendOnWord(p) ==
  LET w == packager[p] IN
  /\ PAt(p, "recommending")
  /\ IF MayMove(w.model, "RECOMMENDED")
     THEN packager' = [packager EXCEPT
            ![p].pc = "writing", ![p].content = Promoted(w.model, "RECOMMENDED", w.evaluation)]
     ELSE PLeave(p)
  /\ UNCHANGED <<tvars, packages, registry, temporary, torn, reports, commands>>

Recommend(p) ==
  LET w == packager[p] IN
  /\ PAt(p, "recommending")
  /\ IF MayMove(w.model, "RECOMMENDED") /\ w.passed
     THEN packager' = [packager EXCEPT
            ![p].pc = "writing", ![p].content = Promoted(w.model, "RECOMMENDED", w.evaluation)]
     ELSE PLeave(p)
  /\ UNCHANGED <<tvars, packages, registry, temporary, torn, reports, commands>>

-----------------------------------------------------------------------------
(* atomic_write_json, whose temporary file has one name.  A process goes on writing the file it *)
(* opened (w.file) when another has moved it over the registry; who opened it while another was *)
(* at it (w.shared) may leave more than its own text there.                                     *)

OpenTemporary(p) ==
  LET others == {q \in Packagers : PAt(q, "filling") /\ packager[q].file = "temporary"} IN
  /\ PAt(p, "writing")
  /\ temporary' = packager[p].content    \* once it is written
  /\ torn' = torn \cup {"temporary"}
  /\ packager' = [q \in Packagers |->
       IF q = p THEN [packager[p] EXCEPT !.pc = "filling", !.file = "temporary", !.shared = (others # {})]
       ELSE [packager[q] EXCEPT !.shared = (@ \/ q \in others)]]
  /\ UNCHANGED <<tvars, packages, registry, reports, commands>>

WriteTemporary(p) ==
  LET w == packager[p]
      spoilt == IF w.shared /\ w.file # "gone" THEN {w.file} ELSE {}
  IN  /\ PAt(p, "filling")
      /\ temporary' = IF w.file = "temporary" THEN w.content ELSE temporary
      /\ registry' = IF w.file = "registry" THEN w.content ELSE registry
      /\ torn' \in {torn \ {w.file}, (torn \ {w.file}) \cup spoilt}
      /\ packager' = [packager EXCEPT ![p] = [w EXCEPT !.pc = "replacing", !.file = "none", !.shared = FALSE]]
      /\ UNCHANGED <<tvars, packages, reports, commands>>

Moved(file) == CASE file = "temporary" -> "registry" [] file = "registry" -> "gone" [] OTHER -> file

\* The temporary file may be another writer's, or gone: then os.replace raises.
Replace(p) ==
  /\ PAt(p, "replacing")
  /\ registry' = IF temporary = None THEN registry ELSE temporary
  /\ torn' = IF temporary = None THEN torn ELSE {Moved(f) : f \in torn} \ {"gone"}
  /\ temporary' = None
  /\ packager' = [q \in Packagers |->
       IF q = p THEN IdlePackager
       ELSE [packager[q] EXCEPT !.file = IF temporary = None THEN @ ELSE Moved(@)]]
  /\ UNCHANGED <<tvars, packages, reports, commands>>

-----------------------------------------------------------------------------

\* A packager is killed; a copy that is under way stays partial, and so may a file.
KillPackager(p) ==
  /\ ~PAt(p, "idle")
  /\ Fault
  /\ packages' = IF PAt(p, "copying") /\ Dest(p).adapter = None
                 THEN [packages EXCEPT ![packager[p].model].adapter =
                         [run |-> packager[p].run, state |-> "partial"]]
                 ELSE packages
  /\ torn' \in {torn, torn \cup ({packager[p].file} \ {"none", "gone"})}
  /\ PLeave(p)
  /\ UNCHANGED <<dataset, runs, trainer, registry, temporary, reports, commands>>

Command(p) ==
  \/ ClearPackage(p) \/ CopyAdapter(p) \/ DescribePackage(p) \/ VerifyPackage(p) \/ Register(p)
  \/ Recommend(p) \/ OpenTemporary(p) \/ WriteTemporary(p) \/ Replace(p)

PackagersNext ==
  \E p \in Packagers :
    \/ \E m \in Models :
         \/ \E r \in DOMAIN runs : Package(p, m, r)
         \/ \E e \in EvaluationRuns : ReadReport(p, m, e)
         \/ \E s \in STATUSES, e \in EvaluationRuns \cup {None} : Promote(p, m, s, e)
    \/ Command(p)
    \/ KillPackager(p)

\* A training command that was started goes on; nobody has to start one.
Progress == \A t \in Trainers : WF_tvars(Job(t))

-----------------------------------------------------------------------------
(* Properties. *)

Settled == {"completed", "failed", "interrupted"}

\* trainer.py: an adapter is not final until it was reloaded from disk, and nothing is
\* trained before the inputs are recorded.  A completed run that trained has a whole adapter
\* and a final report of that; its pairs are sound and no problem crosses its splits; a smoke
\* test took at most two steps; exactly the failed runs have an error record; a dry run
\* leaves no adapter.
TrainedIsProven ==
  \A i \in DOMAIN runs :
    LET r == runs[i] IN
    /\ TrainingManifest(r)
    /\ r.adapter # "none" => r.recorded /\ r.mode # "dry_run"
    /\ r.status = "failed" <=> r.error
    /\ r.status = "completed" /\ r.mode # "dry_run" =>
         /\ r.adapter = "whole" /\ r.report.reload
         /\ LoadTrainingDataset(DataSets[r.data], TRUE)
         /\ r.report.evaluated => DataSets[r.data].records.validation # <<>>
         /\ r.mode = "smoke_test" => r.report.steps <= 2

\* packaging/registry.py: "a model is never recommended sight-unseen".  However commands
\* interleave and overwrite each other's registry, a registered model was verified with a
\* whole adapter, and a recommended one names an evaluation whose report once was a success.
RecommendedOnEvidence ==
  \A m \in Models : Registered(m) =>
    /\ registry[m].status \in STATUSES
    /\ registry[m].verified.state = "whole"
    /\ runs[registry[m].verified.run].adapter = "whole"
    /\ registry[m].status = "RECOMMENDED" =>
         registry[m].evaluation # None /\ reports[registry[m].evaluation].ever

\* cli.py and the stage: every run that is created reaches an end, unless a fault struck or
\* it was refused the checkpoint it was to resume from.
TrainingSettles ==
  \A i \in 1..MaxTrainings :
    i \in DOMAIN runs ~> /\ i \in DOMAIN runs
                         /\ \/ runs[i].status \in Settled
                            \/ faults > 0
                            \/ runs[i].status = "created" /\ ~runs[i].recorded

\* packaging/pipeline_stage.py: "there is no partial success: a package that fails
\* verification is never registered".  While no command is under way, the package of a
\* registered model is the one that was verified.
RegisteredIsThePackage ==
  (\A p \in Packagers : PAt(p, "idle")) =>
    \A m \in Models : Registered(m) =>
      /\ packages[m].adapter = registry[m].verified
      /\ packages[m].manifest = registry[m].run
=============================================================================

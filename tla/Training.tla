------------------------------ MODULE Training ------------------------------
(***************************************************************************)
(* DPO training: `train dpo` and the dpo_training stage.  A command loads  *)
(* a preference dataset, creates a run, checks machine, model and data     *)
(* before the first gradient, trains, saves the adapter, reloads it from   *)
(* disk, and writes the final report.                                      *)
(*                                                                         *)
(* A text is its number of tokens: 0 is the empty text, and two texts of   *)
(* one length are the same text.  What torch, peft and trl do is a choice. *)
(***************************************************************************)
EXTENDS Integers, Sequences, FiniteSets

CONSTANTS
  Trainers,      \* processes: one GPU, so one of them in the instances
  Configs,       \* name of an experiment configuration -> what it says
  Commands,      \* name of a command -> its mode, configuration and flags
  DataSets,      \* name of a preference dataset -> what its directory holds
  Machines,      \* what the GPU, the base model and its tokenizer may be
  MaxTrainings,  \* bound: training runs
  MaxFaults      \* bound: Ctrl-C and kills, of trainers and of packagers

TRAINING_MODES == {"dry_run", "smoke_test", "train"}

ASSUME TrainingAssumption ==
  /\ MaxTrainings \in Nat /\ MaxFaults \in Nat
  /\ \A k \in DOMAIN Commands :
       /\ Commands[k].mode \in TRAINING_MODES
       /\ Commands[k].mode = "dry_run" => Commands[k].cli
       /\ Commands[k].config \in DOMAIN Configs

\* Steps and epochs are whole numbers.
ASSUME ConfigsAssumption ==
  \A k \in DOMAIN Configs : /\ Configs[k].maxSteps \in Int /\ Configs[k].epochs \in Int
                            /\ Configs[k].batch \in Int

VARIABLES
  dataset,   \* the preference run's directory, now
  runs,      \* data/training/runs, in the order of creation
  trainer,   \* the processes
  faults

tvars == <<dataset, runs, trainer, faults>>

TRAINING_RUN_STATUS_TRANSITIONS(s) ==
  CASE s = "created"     -> {"running", "cancelled"}
    [] s = "running"     -> {"running", "completed", "failed", "interrupted", "cancelled"}
    [] s = "interrupted" -> {"running", "cancelled"}
    [] s = "failed"      -> {"running"}
    [] OTHER             -> {}

-----------------------------------------------------------------------------
(* The configuration, as ExperimentConfig.from_mapping accepts it. *)

COMPUTE_DTYPES == {"bfloat16", "float16", "float32", "auto"}

\* Its `enabled` flag decides nothing here: check_hardware() wants bitsandbytes either way.
QuantizationSettings(c) == c.bits \in {4, 8} /\ c.dtype \in COMPUTE_DTYPES

LoraSettings(c) == c.r > 0 /\ c.targets # {}

TrainingSettings(c) ==
  /\ c.maxLength > 0 /\ c.maxPrompt > 0 /\ c.maxPrompt < c.maxLength
  /\ c.epochs > 0 /\ c.batch > 0
  /\ c.maxSteps = -1 \/ c.maxSteps > 0
  /\ c.maxTruncation \in 0..100
  /\ c.evalStrategy \in {"no", "steps", "epoch"}

\* Accepted, and rejected when enabled.
DistributedSettings(c) == ~c.distributed

ExperimentConfig(c) ==
  QuantizationSettings(c) /\ LoraSettings(c) /\ TrainingSettings(c) /\ DistributedSettings(c)

\* What a resumed run must share with its source: CRITICAL_CONFIG_PATHS.
Critical(c) == <<c.r, c.targets, c.bits>>

-----------------------------------------------------------------------------
(* The dataset. *)

Splits == {"train", "validation", "test"}

\* Each split is a list of pairs.
ASSUME DataSetsAssumption ==
  \A k \in DOMAIN DataSets : \A s \in Splits :
    DataSets[k].records[s] \in Seq([prompt : Nat, chosen : Nat, rejected : Nat])

ReadSplit(s) ==
  \A i \in DOMAIN s : /\ s[i].prompt > 0 /\ s[i].chosen > 0 /\ s[i].rejected > 0
                      /\ s[i].chosen # s[i].rejected

SplitsDisjoint(d) == \A s, t \in Splits : s # t => d.problems[s] \cap d.problems[t] = {}

\* The manifest of what a run consumed checks the three splits a second time.  They are sets:
\* the SplitManifest they come from lists no problem twice.
DatasetManifest(d) == SplitsDisjoint(d)

\* load_training_dataset: it reads the files, whatever the preference run's status is.
LoadTrainingDataset(d, allowSmall) ==
  /\ \A s \in Splits : ReadSplit(d.records[s])
  /\ d.records.train # <<>>
  /\ d.records.validation # <<>> \/ allowSmall
  /\ SplitsDisjoint(d)
  /\ d.provenance

\* analyze_lengths: either sequence of a pair counts.
Truncated(c, r) == r.prompt + r.chosen > c.maxLength \/ r.prompt + r.rejected > c.maxLength

TruncationAcceptable(c, d, override) ==
  LET examples == d.records.train \o d.records.validation
      lost     == Cardinality({i \in DOMAIN examples : Truncated(c, examples[i])})
  IN  override \/ lost * 100 <= c.maxTruncation * Len(examples)

AtMost(n, s) == IF Len(s) <= n THEN s ELSE SubSeq(s, 1, n)

\* _select_records: a smoke test takes four pairs and two to evaluate on.
SelectRecords(mode, d) ==
  IF mode = "smoke_test"
  THEN [train |-> AtMost(4, d.records.train), validation |-> AtMost(2, d.records.validation)]
  ELSE [train |-> d.records.train, validation |-> d.records.validation]

Larger(a, b)  == IF a >= b THEN a ELSE b
Smaller(a, b) == IF a <= b THEN a ELSE b

\* Mutant: a configured step count replaces the smoke test's two.
SmokeStepsConfigured(c, mode) ==
  IF mode # "smoke_test" THEN c.maxSteps ELSE IF c.maxSteps > 0 THEN c.maxSteps ELSE 2

SmokeSteps(c, mode) ==
  IF mode # "smoke_test" THEN c.maxSteps
  ELSE IF c.maxSteps > 0 THEN Smaller(2, c.maxSteps) ELSE 2

\* _build_dpo_config: how many steps, and whether it evaluates.
BuildDpoConfig(c, mode, chosen) ==
  LET perEpoch == Larger(1, Len(chosen.train) \div c.batch)
      epochs   == IF mode = "smoke_test" THEN 1 ELSE c.epochs
      capped   == SmokeSteps(c, mode)
  IN  [steps |-> IF capped > 0 THEN capped ELSE perEpoch * epochs,
       evaluates |-> c.evalStrategy # "no" /\ chosen.validation # <<>>]

-----------------------------------------------------------------------------
(* The machine: every check before a single gradient is computed. *)

CheckHardware(m) == m.cuda /\ m.vram /\ m.bitsandbytes

ComputeDtype(c, m) ==
  IF c.dtype = "auto" THEN IF m.bf16 THEN "bfloat16" ELSE "float16"
  ELSE IF c.dtype = "bfloat16" /\ ~m.bf16 THEN "float16" ELSE c.dtype

\* Padding needs a pad token, or an EOS token in its place.
LoadTokenizer(m) == m.pad \/ m.eos

ModelCompatible(c, m) == m.causal /\ m.positions >= c.maxLength

ValidateTargetModules(c, m) == c.targets \cap m.modules # {}

\* The base must be frozen: neither no parameter nor every parameter is trainable.
CountParameters(m) == m.trainable = "some"

Preflight(c, m, d, override) ==
  /\ CheckHardware(m)
  /\ LoadTokenizer(m)
  /\ TruncationAcceptable(c, d, override)
  /\ ModelCompatible(c, m)
  /\ ValidateTargetModules(c, m)
  /\ CountParameters(m)

-----------------------------------------------------------------------------
(* The run's directory. *)

NoReport == [steps |-> 0, evaluated |-> FALSE, dtype |-> "none", reload |-> FALSE]

NewRun(cmd) ==
  [status |-> "created", mode |-> cmd.mode, config |-> cmd.config, data |-> dataset,
   recorded |-> FALSE, adapter |-> "none", report |-> NoReport, error |-> FALSE,
   override |-> FALSE]

\* TrainingManifest and FinalReport refuse anything else.
TrainingManifest(r) ==
  /\ r.status \in {"created", "running", "completed", "failed", "interrupted"}
  /\ r.mode \in TRAINING_MODES
  /\ ExperimentConfig(Configs[r.config])
  /\ r.report # NoReport => r.report.dtype \in COMPUTE_DTYPES

IdleTrainer == [pc |-> "idle"]

Asked(t)   == Commands[trainer[t].cmd]
Setting(t) == Configs[Asked(t).config]
Loaded(t)  == DataSets[trainer[t].data]

TAt(t, pc)   == trainer[t].pc = pc
TGoTo(t, pc) == trainer' = [trainer EXCEPT ![t].pc = pc]
TLeave(t)    == trainer' = [trainer EXCEPT ![t] = IdleTrainer]
Mine(t)      == runs[trainer[t].run]

TrainingInit ==
  /\ dataset \in DOMAIN DataSets
  /\ runs = <<>>
  /\ trainer = [t \in Trainers |-> IdleTrainer]
  /\ faults = 0

\* Stage 8 writes its dataset again; bound: while another run can read it.
Regenerate ==
  /\ Len(runs) < MaxTrainings
  /\ dataset' \in DOMAIN DataSets \ {dataset}
  /\ UNCHANGED <<runs, trainer, faults>>

\* The command, up to create_run; one whose configuration or dataset is refused leaves no run.
TrainDpo(t, k) ==
  LET cmd == Commands[k] IN
  /\ TAt(t, "idle")
  /\ Len(runs) < MaxTrainings
  /\ ExperimentConfig(Configs[cmd.config])
  /\ LoadTrainingDataset(DataSets[dataset], cmd.allowSmall)
  /\ runs' = Append(runs, NewRun(cmd))
  /\ trainer' = [trainer EXCEPT ![t] =
       [pc |-> IF cmd.resume THEN "checking" ELSE "recording", run |-> Len(runs) + 1,
        cmd |-> k, data |-> dataset, dtype |-> "none"]]
  /\ UNCHANGED <<dataset, faults>>

\* check_resume_compatibility(source), where 0 names no run: a critical difference is never
\* overridable, a changed dataset is, and is then noted in the source's directory.
CheckResume(t, source) ==
  LET critical == Critical(Configs[runs[source].config]) # Critical(Setting(t))
      changed  == runs[source].data # trainer[t].data
  IN  /\ TAt(t, "checking")
      /\ source < trainer[t].run
      /\ IF source = 0 \/ critical \/ (changed /\ ~Asked(t).force)
         THEN TLeave(t) /\ UNCHANGED runs
         ELSE /\ TGoTo(t, "recording")
              /\ runs' = [runs EXCEPT ![source].override = @ \/ changed]
      /\ UNCHANGED <<dataset, faults>>

\* write_config, write_hardware, write_dataset_manifest.
RecordInputs(t) ==
  /\ TAt(t, "recording")
  /\ DatasetManifest(Loaded(t))
  /\ runs' = [runs EXCEPT ![trainer[t].run].recorded = TRUE]
  /\ TGoTo(t, "starting")
  /\ UNCHANGED <<dataset, faults>>

UpdateTraining(t, s, pc) ==
  /\ s = Mine(t).status \/ s \in TRAINING_RUN_STATUS_TRANSITIONS(Mine(t).status)
  /\ runs' = [runs EXCEPT ![trainer[t].run].status = s]
  /\ IF pc = "idle" THEN TLeave(t) ELSE TGoTo(t, pc)

StartTraining(t) ==
  /\ TAt(t, "starting")
  /\ UpdateTraining(t, "running", "preflight")
  /\ UNCHANGED <<dataset, faults>>

\* preflight, and the end of a dry run.
RunPreflight(t, m) ==
  /\ TAt(t, "preflight")
  /\ trainer' = [trainer EXCEPT
       ![t].pc = IF ~Preflight(Setting(t), m, Loaded(t), Asked(t).override) THEN "failing"
                 ELSE IF Asked(t).mode = "dry_run" THEN "completing" ELSE "training",
       ![t].dtype = ComputeDtype(Setting(t), m)]
  /\ UNCHANGED <<dataset, runs, faults>>

\* trainer.train().
Train(t) ==
  /\ TAt(t, "training")
  /\ TGoTo(t, "saving")
  /\ UNCHANGED <<dataset, runs, faults>>

\* save_model begins to write the adapter's directory, and ends.
BeginSave(t) ==
  /\ TAt(t, "saving")
  /\ Mine(t).adapter = "none"
  /\ runs' = [runs EXCEPT ![trainer[t].run].adapter = "partial"]
  /\ UNCHANGED <<dataset, trainer, faults>>

SaveAdapter(t) ==
  /\ TAt(t, "saving")
  /\ Mine(t).adapter = "partial"
  /\ runs' = [runs EXCEPT ![trainer[t].run].adapter = "whole"]
  /\ TGoTo(t, "verifying")
  /\ UNCHANGED <<dataset, faults>>

\* verify_adapter: base and adapter are loaded afresh, and must generate a token.
VerifyAdapter(t) ==
  /\ TAt(t, "verifying")
  /\ Mine(t).adapter = "whole"
  /\ TGoTo(t, "reporting")
  /\ UNCHANGED <<dataset, runs, faults>>

\* Out of memory, a full disk, an adapter that does not reload or generates nothing.
Raise(t) ==
  /\ trainer[t].pc \in {"preflight", "training", "saving", "verifying"}
  /\ TGoTo(t, "failing")
  /\ UNCHANGED <<dataset, runs, faults>>

\* Mutant: the error is logged, and the run left as it is.
FailRunLogged(t) ==
  /\ TAt(t, "failing")
  /\ TLeave(t)
  /\ UNCHANGED <<dataset, runs, faults>>

\* fail_run, with error type, message and traceback.
FailRun(t) ==
  /\ TAt(t, "failing")
  /\ "failed" \in TRAINING_RUN_STATUS_TRANSITIONS(Mine(t).status)
  /\ runs' = [runs EXCEPT ![trainer[t].run].status = "failed", ![trainer[t].run].error = TRUE]
  /\ TLeave(t)
  /\ UNCHANGED <<dataset, faults>>

\* After job.run(), outside of its try block.
WriteFinalReport(t) ==
  LET dpo == BuildDpoConfig(Setting(t), Asked(t).mode,
                            SelectRecords(Asked(t).mode, Loaded(t)))
  IN  /\ TAt(t, "reporting")
      /\ runs' = [runs EXCEPT ![trainer[t].run].report =
                    [steps |-> dpo.steps, evaluated |-> dpo.evaluates,
                     dtype |-> trainer[t].dtype, reload |-> TRUE]]
      /\ TGoTo(t, "completing")
      /\ UNCHANGED <<dataset, faults>>

CompleteTraining(t) ==
  /\ TAt(t, "completing")
  /\ UpdateTraining(t, "completed", "idle")
  /\ UNCHANGED <<dataset, faults>>

Fault == faults < MaxFaults /\ faults' = faults + 1

\* Ctrl-C inside job.run(): the command interrupts the run, the stage does not catch it.
InterruptTraining(t) ==
  /\ trainer[t].pc \in {"preflight", "training", "saving", "verifying"}
  /\ Fault
  /\ IF Asked(t).cli THEN UpdateTraining(t, "interrupted", "idle")
     ELSE TLeave(t) /\ UNCHANGED runs
  /\ UNCHANGED dataset

\* SIGKILL, or a failure outside of the try block.
KillTraining(t) ==
  /\ ~TAt(t, "idle")
  /\ Fault
  /\ TLeave(t)
  /\ UNCHANGED <<dataset, runs>>

Job(t) ==
  \/ \E source \in {0} \cup DOMAIN runs : CheckResume(t, source)
  \/ \E m \in Machines : RunPreflight(t, m)
  \/ RecordInputs(t) \/ StartTraining(t) \/ Train(t) \/ BeginSave(t) \/ SaveAdapter(t)
  \/ VerifyAdapter(t) \/ Raise(t) \/ FailRun(t) \/ WriteFinalReport(t) \/ CompleteTraining(t)

TrainingNext ==
  \/ Regenerate
  \/ \E t \in Trainers :
       (\E k \in DOMAIN Commands : TrainDpo(t, k)) \/ Job(t) \/ InterruptTraining(t)
         \/ KillTraining(t)

TrainingSpec == TrainingInit /\ [][TrainingNext]_tvars
=============================================================================

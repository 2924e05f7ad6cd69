---------------------------- MODULE Orchestrator ----------------------------
(***************************************************************************)
(* The experiment orchestrator of python_dpo.pipeline: one `experiment     *)
(* run`, `resume` or `retry` process per member of Procs drives an         *)
(* experiment through the stage graph, one stage manifest at a time.       *)
(*                                                                         *)
(* The state is what is on disk (experiment manifest, resolved config,     *)
(* stage manifests) and what each driving process holds in memory.  Every  *)
(* action is one durable write, or one decision taken between two writes,  *)
(* so that a signal, a second process or the death of the process can fall *)
(* between any two of them.                                                *)
(*                                                                         *)
(* Stages are numbered by their place in topological_order(); StageGraph   *)
(* checks that order on its own.                                           *)
(***************************************************************************)
EXTENDS Naturals, Sequences

CONSTANTS
  N,              \* number of stages
  Requires,       \* Requires[s]: the stages s needs, all earlier than s
  Deterministic,  \* stages whose output hash is a function of their inputs and setting
  Swallows,       \* stages whose adapter turns KeyboardInterrupt into a failure
  Off,            \* the setting of a disabled stage
  Plans,          \* the experiment configurations: a setting for every stage
  Versions,       \* code version and model version a process may run with
  NoKey,          \* cache_key of a manifest that has none
  Procs,          \* processes that may run the command
  MaxExps,        \* bound: experiments ever created
  MaxRuns,        \* bound: invocations of the command
  MaxFaults,      \* bound: stage failures, signals, policy refusals and deaths
  DirtyStops,     \* TRUE when some plan says `on_dirty: fail`
  Forcing,        \* TRUE when --force and `experiment retry` are used
  MayOverlap      \* TRUE when two processes may drive one experiment at once

Stages == 1..N
Exps   == 1..MaxExps

ASSUME NAssumption        == N \in Nat \ {0}
ASSUME RequiresAssumption == /\ Requires \in [Stages -> SUBSET Stages]
                             /\ \A s \in Stages : \A d \in Requires[s] : d < s
ASSUME PlansAssumption    == \A plan \in Plans : DOMAIN plan = Stages
ASSUME BoundsAssumption   == MaxExps \in Nat /\ MaxRuns \in Nat /\ MaxFaults \in Nat
ASSUME FlagsAssumption    == /\ DirtyStops \in BOOLEAN
                             /\ Forcing \in BOOLEAN
                             /\ MayOverlap \in BOOLEAN

VARIABLES
  expStatus,   \* expStatus[e]: status field of e's manifest.json, "none" before it exists
  resolved,    \* resolved[e]: e's resolved_config.yaml, NoPlan before it is written
  manifest,    \* manifest[e][s]: stage_manifest.json of stage s in e
  made,        \* every adapter execution that was recorded, in order: its cache key
  proc,        \* proc[p]: the memory of process p
  runs,        \* invocations so far
  faults       \* faults so far

vars == <<expStatus, resolved, manifest, made, proc, runs, faults>>

-----------------------------------------------------------------------------
(* The data. *)

NoPlan == <<>>

\* An output of each stage, 0 where there is none.
Outputs == [Stages -> Nat]

Settings == UNION {{plan[s] : s \in Stages} : plan \in Plans}

\* What a stage's cache key is computed from; two keys are equal iff these are.
Keys == [stage   : Stages,
         inputs  : Outputs,   \* those of the required stages
         setting : Settings,
         ver     : Versions]

StageStates == {"PENDING", "RUNNING", "COMPLETED", "FAILED", "SKIPPED", "CANCELLED", "BLOCKED"}

\* A missing stage_manifest.json is a PENDING stage.
Manifests == [status : StageStates, key : Keys \cup {NoKey}, out : Nat]

Bare(status) == [status |-> status, key |-> NoKey, out |-> 0]

EXPERIMENT_STATUSES == {"created", "running", "completed", "failed", "interrupted", "cancelled"}

\* Mutant: an interrupted experiment can only be cancelled.
TransitionsNoReturn(status) ==
  CASE status = "created"     -> {"running", "cancelled"}
    [] status = "running"     -> {"running", "completed", "failed", "interrupted", "cancelled"}
    [] status = "interrupted" -> {"cancelled"}
    [] status = "failed"      -> {"running"}
    [] OTHER                  -> {}

EXPERIMENT_STATUS_TRANSITIONS(status) ==
  CASE status = "created"     -> {"running", "cancelled"}
    [] status = "running"     -> {"running", "completed", "failed", "interrupted", "cancelled"}
    [] status = "interrupted" -> {"running", "cancelled"}
    [] status = "failed"      -> {"running"}
    [] OTHER                  -> {}

Resumable == {"created", "running", "failed", "interrupted"}

\* The stages `--force s` invalidates: s and whatever transitively requires it.
Cascade(s) ==
  {t \in Stages : \A closed \in SUBSET Stages :
     (/\ s \in closed
      /\ \A u \in Stages : Requires[u] \cap closed # {} => u \in closed) => t \in closed}

ForceTargets == IF Forcing THEN {{}} \cup {Cascade(s) : s \in Stages} ELSE {{}}

-----------------------------------------------------------------------------
(* The processes. *)

PCs == {"idle", "configuring", "starting", "restarting", "checking", "saving", "loop",
        "adapter", "returned", "failing", "cancelling", "blocking", "interrupting",
        "recording", "completing"}

Idle == [pc        |-> "idle",
         exp       |-> 0,          \* the experiment it drives
         plan      |-> NoPlan,     \* the configuration it loaded
         ver       |-> NoKey,      \* the code and model version it runs
         force     |-> {},         \* force_targets
         cur       |-> 0,          \* the stage the loop is at, N + 1 past the last
         up        |-> [s \in Stages |-> 0],   \* upstream: outputs seen so far, 0 if absent
         result    |-> 0,          \* what _run_one_stage returned, 0 for None
         todo      |-> {},         \* stages _block_remaining has yet to write
         seen      |-> "none",     \* the status read by _finalize before it saves
         born      |-> 0,          \* executions recorded before this invocation
         signalled |-> FALSE]      \* a signal arrived while the current stage was in flight

Enabled(p, s) == proc[p].plan[s] # Off

\* cache_key of the stage a process with record r is at.
KeyOf(r) == [stage   |-> r.cur,
             inputs  |-> [d \in Stages |-> IF d \in Requires[r.cur] THEN r.up[d] ELSE 0],
             setting |-> r.plan[r.cur],
             ver     |-> r.ver]

StageKey(p) == KeyOf(proc[p])

\* Mutants: a cache hit that ignores the code version, or the stage's setting.
IsReusableAnyVersion(m, key) ==
  m.status = "COMPLETED" /\ m.key.inputs = key.inputs /\ m.key.setting = key.setting
IsReusableAnySetting(m, key) ==
  m.status = "COMPLETED" /\ m.key.inputs = key.inputs /\ m.key.ver = key.ver

IsReusable(m, key) == m.status = "COMPLETED" /\ m.key = key

\* The experiments find_reusable_stage accepts, for the stage p is at.
ReusableFrom(p) ==
  {e \in Exps : /\ e # proc[p].exp
                /\ expStatus[e] # "none"
                /\ IsReusable(manifest[e][proc[p].cur], StageKey(p))}

\* p is about to run an enabled stage whose inputs are all available.
AtStage(p) ==
  /\ proc[p].pc = "loop"
  /\ proc[p].cur \in Stages
  /\ Enabled(p, proc[p].cur)
  /\ \A d \in Requires[proc[p].cur] : proc[p].up[d] # 0

\* Mutant: --force does not reach the experiment's own manifests.
OwnHitDespiteForce(p) == IsReusable(manifest[proc[p].exp][proc[p].cur], StageKey(p))

OwnHit(p) ==
  /\ proc[p].cur \notin proc[p].force
  /\ IsReusable(manifest[proc[p].exp][proc[p].cur], StageKey(p))

Leave(p)     == proc' = [proc EXCEPT ![p] = Idle]
GoTo(p, pc)  == proc' = [proc EXCEPT ![p].pc = pc]
Return(p, r) == proc' = [proc EXCEPT ![p].pc = "returned", ![p].result = r]

WriteManifest(p, s, m) == manifest' = [manifest EXCEPT ![proc[p].exp][s] = m]

\* update_status: re-read, validate the transition, write; or raise and write nothing.
UpdateStatus(p, status) ==
  expStatus' = IF status \in EXPERIMENT_STATUS_TRANSITIONS(expStatus[proc[p].exp])
               THEN [expStatus EXCEPT ![proc[p].exp] = status]
               ELSE expStatus
Refused(p, status) == status \notin EXPERIMENT_STATUS_TRANSITIONS(expStatus[proc[p].exp])

Fault == faults < MaxFaults /\ faults' = faults + 1
-----------------------------------------------------------------------------
Init ==
  /\ expStatus = [e \in Exps |-> "none"]
  /\ resolved = [e \in Exps |-> NoPlan]
  /\ manifest = [e \in Exps |-> [s \in Stages |-> Bare("PENDING")]]
  /\ made = <<>>
  /\ proc = [p \in Procs |-> Idle]
  /\ runs = 0
  /\ faults = 0

Invoke(p, e, pc, plan) ==
  /\ runs < MaxRuns
  /\ runs' = runs + 1
  /\ \E ver \in Versions, force \in ForceTargets :
       proc' = [proc EXCEPT ![p] =
                  [Idle EXCEPT !.pc = pc, !.exp = e, !.plan = plan, !.ver = ver,
                               !.force = force, !.born = Len(made)]]

\* Mutant: the id is minted without looking at the ids that exist.
CreateAnyId(p) ==
  /\ proc[p].pc = "idle"
  /\ \E e \in Exps, plan \in Plans :
       /\ \A f \in Exps : f < e => expStatus[f] # "none"
       /\ expStatus' = [expStatus EXCEPT ![e] = "created"]
       /\ Invoke(p, e, "configuring", plan)
  /\ UNCHANGED <<resolved, manifest, made, faults>>

\* `experiment run`: create_run mints an id and writes the manifest, status created.
\* The dirty-worktree policy was applied before anything was written.
Create(p) ==
  /\ proc[p].pc = "idle"
  /\ \E e \in Exps, plan \in Plans :
       /\ expStatus[e] = "none"
       /\ \A f \in Exps : f < e => expStatus[f] # "none"
       /\ expStatus' = [expStatus EXCEPT ![e] = "created"]
       /\ Invoke(p, e, "configuring", plan)
  /\ UNCHANGED <<resolved, manifest, made, faults>>

WriteResolvedConfig(p) ==
  /\ proc[p].pc = "configuring"
  /\ resolved' = [resolved EXCEPT ![proc[p].exp] = proc[p].plan]
  /\ GoTo(p, "starting")
  /\ UNCHANGED <<expStatus, manifest, made, runs, faults>>

\* `experiment resume` and `experiment retry`: the configuration is the resolved one.
Resume(p) ==
  /\ proc[p].pc = "idle"
  /\ \E e \in Exps :
       /\ expStatus[e] \in Resumable
       /\ resolved[e] # NoPlan
       /\ MayOverlap \/ \A q \in Procs : proc[q].exp # e
       /\ Invoke(p, e, IF expStatus[e] = "running" THEN "checking" ELSE "restarting",
                 resolved[e])
  /\ UNCHANGED <<expStatus, resolved, manifest, made, faults>>

StartRun(p) ==
  /\ proc[p].pc \in {"starting", "restarting"}
  /\ UpdateStatus(p, "running")
  /\ IF Refused(p, "running") THEN Leave(p)
     ELSE GoTo(p, IF proc[p].pc = "starting" THEN "saving" ELSE "checking")
  /\ UNCHANGED <<resolved, manifest, made, runs, faults>>

\* enforce_dirty_policy raises after the resume has already moved the status.
PolicyRefuses(p) ==
  /\ proc[p].pc = "checking"
  /\ DirtyStops
  /\ Fault
  /\ Leave(p)
  /\ UNCHANGED <<expStatus, resolved, manifest, made, runs>>

\* save(manifest with git_commit): the status written is the one read earlier.
SaveGit(p) ==
  /\ proc[p].pc \in {"checking", "saving"}
  /\ expStatus' = [expStatus EXCEPT ![proc[p].exp] = "running"]
  /\ proc' = [proc EXCEPT ![p].pc = "loop", ![p].cur = 1]
  /\ UNCHANGED <<resolved, manifest, made, runs, faults>>

-----------------------------------------------------------------------------
(* _run_one_stage. *)

SkipDisabled(p) ==
  /\ proc[p].pc = "loop"
  /\ proc[p].cur \in Stages
  /\ ~Enabled(p, proc[p].cur)
  /\ WriteManifest(p, proc[p].cur, Bare("SKIPPED"))
  /\ Return(p, 0)
  /\ UNCHANGED <<expStatus, resolved, made, runs, faults>>

\* DependencyError: a required stage has no output in `upstream`.
MissDependency(p) ==
  /\ proc[p].pc = "loop"
  /\ proc[p].cur \in Stages
  /\ Enabled(p, proc[p].cur)
  /\ \E d \in Requires[proc[p].cur] : proc[p].up[d] = 0
  /\ GoTo(p, "failing")
  /\ UNCHANGED <<expStatus, resolved, manifest, made, runs, faults>>

ReuseOwn(p) ==
  /\ AtStage(p)
  /\ OwnHit(p)
  /\ Return(p, manifest[proc[p].exp][proc[p].cur].out)
  /\ UNCHANGED <<expStatus, resolved, manifest, made, runs, faults>>

\* Mutant: the reused stage is returned but never recorded in this experiment.
ReuseOtherUnrecorded(p) ==
  /\ AtStage(p)
  /\ proc[p].cur \notin proc[p].force
  /\ ~OwnHit(p)
  /\ \E e \in ReusableFrom(p) :
       /\ \A f \in ReusableFrom(p) : f <= e
       /\ Return(p, manifest[e][proc[p].cur].out)
  /\ UNCHANGED <<expStatus, resolved, manifest, made, runs, faults>>

\* find_reusable_stage: the newest other experiment with the same key.
ReuseOther(p) ==
  /\ AtStage(p)
  /\ proc[p].cur \notin proc[p].force
  /\ ~OwnHit(p)
  /\ \E e \in ReusableFrom(p) :
       /\ \A f \in ReusableFrom(p) : f <= e
       /\ WriteManifest(p, proc[p].cur,
                        [status |-> "COMPLETED", key |-> StageKey(p),
                         out |-> manifest[e][proc[p].cur].out])
       /\ Return(p, manifest[e][proc[p].cur].out)
  /\ UNCHANGED <<expStatus, resolved, made, runs, faults>>

BeginStage(p) ==
  /\ AtStage(p)
  /\ proc[p].cur \in proc[p].force \/ (~OwnHit(p) /\ ReusableFrom(p) = {})
  /\ WriteManifest(p, proc[p].cur, [status |-> "RUNNING", key |-> StageKey(p), out |-> 0])
  /\ GoTo(p, "adapter")
  /\ UNCHANGED <<expStatus, resolved, made, runs, faults>>

\* Earlier executions with the inputs and setting of p's stage: a deterministic
\* stage hashes to the same output again.
SameWork(p) ==
  {i \in 1..Len(made) : /\ made[i].stage = StageKey(p).stage
                        /\ made[i].inputs = StageKey(p).inputs
                        /\ made[i].setting = StageKey(p).setting}

\* The adapter returns a StageResult and the COMPLETED manifest is written.
AdapterSucceeds(p) ==
  /\ proc[p].pc = "adapter"
  /\ \E out \in 1..(Len(made) + 1) :
       /\ IF proc[p].cur \in Deterministic /\ SameWork(p) # {}
          THEN /\ out \in SameWork(p)
               /\ \A i \in SameWork(p) : out <= i
               /\ made' = made
          ELSE /\ out = Len(made) + 1
               /\ made' = Append(made, StageKey(p))
       /\ WriteManifest(p, proc[p].cur,
                        [status |-> "COMPLETED", key |-> StageKey(p), out |-> out])
       /\ Return(p, out)
  /\ UNCHANGED <<expStatus, resolved, runs, faults>>

\* StageFailedError or StageNotImplementedError.
AdapterFails(p) ==
  /\ proc[p].pc = "adapter"
  /\ Fault
  /\ GoTo(p, "failing")
  /\ UNCHANGED <<expStatus, resolved, manifest, made, runs>>

\* upstream[name] = result, and on to the next stage.
Advance(p) ==
  /\ proc[p].pc = "returned"
  /\ proc' = [proc EXCEPT ![p].pc = "loop",
                          ![p].up[proc[p].cur] = proc[p].result,
                          ![p].result = 0,
                          ![p].cur = proc[p].cur + 1]
  /\ UNCHANGED <<expStatus, resolved, manifest, made, runs, faults>>

-----------------------------------------------------------------------------
(* Signals, failure and the end of a run. *)

\* SIGINT or SIGTERM inside the try around _run_one_stage.
Interrupt(p) ==
  /\ proc[p].pc \in {"loop", "adapter", "returned"}
  /\ proc[p].cur \in Stages
  /\ Fault
  /\ proc' = [proc EXCEPT ![p].pc = "cancelling", ![p].signalled = TRUE]
  /\ UNCHANGED <<expStatus, resolved, manifest, made, runs>>

\* The adapter catches KeyboardInterrupt itself and reports a failed stage.
InterruptSwallowed(p) ==
  /\ proc[p].pc = "adapter"
  /\ proc[p].cur \in Swallows
  /\ Fault
  /\ proc' = [proc EXCEPT ![p].pc = "failing", ![p].signalled = TRUE]
  /\ UNCHANGED <<expStatus, resolved, manifest, made, runs>>

\* with_status on a RUNNING manifest, otherwise a fresh manifest replaces it.
Settled(p, status) ==
  LET m == manifest[proc[p].exp][proc[p].cur]
  IN  IF m.status = "RUNNING" THEN [m EXCEPT !.status = status] ELSE Bare(status)

\* Mutant: a stage with no RUNNING manifest is left as it was.
MarkCancelledRunningOnly(p) ==
  /\ proc[p].pc = "cancelling"
  /\ IF manifest[proc[p].exp][proc[p].cur].status = "RUNNING"
     THEN WriteManifest(p, proc[p].cur, Settled(p, "CANCELLED"))
     ELSE manifest' = manifest
  /\ GoTo(p, "interrupting")
  /\ UNCHANGED <<expStatus, resolved, made, runs, faults>>

MarkCancelled(p) ==
  /\ proc[p].pc = "cancelling"
  /\ WriteManifest(p, proc[p].cur, Settled(p, "CANCELLED"))
  /\ GoTo(p, "interrupting")
  /\ UNCHANGED <<expStatus, resolved, made, runs, faults>>

InterruptRun(p) ==
  /\ proc[p].pc = "interrupting"
  /\ UpdateStatus(p, "interrupted")
  /\ Leave(p)
  /\ UNCHANGED <<resolved, manifest, made, runs, faults>>

\* Mutant: the experiment's spelling of the status.
MarkFailedLowerCase(p) ==
  /\ proc[p].pc = "failing"
  /\ WriteManifest(p, proc[p].cur, Settled(p, "failed"))
  /\ proc' = [proc EXCEPT ![p].pc = "blocking"]
  /\ UNCHANGED <<expStatus, resolved, made, runs, faults>>

MarkFailed(p) ==
  /\ proc[p].pc = "failing"
  /\ WriteManifest(p, proc[p].cur, Settled(p, "FAILED"))
  /\ proc' = [proc EXCEPT ![p].pc = "blocking",
                          ![p].todo = {s \in Stages : /\ s # proc[p].cur
                                                      /\ proc[p].up[s] = 0
                                                      /\ Enabled(p, s)}]
  /\ UNCHANGED <<expStatus, resolved, made, runs, faults>>

\* One iteration of _block_remaining.
BlockStage(p) ==
  /\ proc[p].pc = "blocking"
  /\ \E s \in proc[p].todo :
       /\ \A t \in proc[p].todo : s <= t
       /\ WriteManifest(p, s, Bare("BLOCKED"))
       /\ proc' = [proc EXCEPT ![p].todo = proc[p].todo \ {s}]
  /\ UNCHANGED <<expStatus, resolved, made, runs, faults>>

FailRun(p) ==
  /\ proc[p].pc = "blocking"
  /\ proc[p].todo = {}
  /\ UpdateStatus(p, "failed")
  /\ Leave(p)
  /\ UNCHANGED <<resolved, manifest, made, runs, faults>>

\* Mutant: the loop ends one stage early.
FinalizeEarly(p) ==
  /\ proc[p].pc = "loop"
  /\ proc[p].cur = N
  /\ proc' = [proc EXCEPT ![p].pc = "recording", ![p].seen = expStatus[proc[p].exp]]
  /\ UNCHANGED <<expStatus, resolved, manifest, made, runs, faults>>

\* _finalize reads the manifest, then saves it with stage_runs filled in.
FinalizeRead(p) ==
  /\ proc[p].pc = "loop"
  /\ proc[p].cur = N + 1
  /\ proc' = [proc EXCEPT ![p].pc = "recording", ![p].seen = expStatus[proc[p].exp]]
  /\ UNCHANGED <<expStatus, resolved, manifest, made, runs, faults>>

RecordStageRuns(p) ==
  /\ proc[p].pc = "recording"
  /\ expStatus' = [expStatus EXCEPT ![proc[p].exp] = proc[p].seen]
  /\ GoTo(p, "completing")
  /\ UNCHANGED <<resolved, manifest, made, runs, faults>>

CompleteRun(p) ==
  /\ proc[p].pc = "completing"
  /\ UpdateStatus(p, "completed")
  /\ Leave(p)
  /\ UNCHANGED <<resolved, manifest, made, runs, faults>>

\* The process is killed, or an exception leaves run(): a signal outside the try,
\* an adapter error of a type run() does not catch, an OSError of a write.
Die(p) ==
  /\ proc[p].pc # "idle"
  /\ Fault
  /\ Leave(p)
  /\ UNCHANGED <<expStatus, resolved, manifest, made, runs>>

-----------------------------------------------------------------------------
\* What the process does when nothing goes wrong outside it.
Step(p) ==
  \/ WriteResolvedConfig(p) \/ StartRun(p) \/ SaveGit(p)
  \/ SkipDisabled(p) \/ MissDependency(p) \/ ReuseOwn(p) \/ ReuseOther(p)
  \/ BeginStage(p) \/ AdapterSucceeds(p) \/ Advance(p)
  \/ MarkCancelled(p) \/ InterruptRun(p) \/ MarkFailed(p) \/ BlockStage(p) \/ FailRun(p)
  \/ FinalizeRead(p) \/ RecordStageRuns(p) \/ CompleteRun(p)

Trouble(p) ==
  PolicyRefuses(p) \/ AdapterFails(p) \/ Interrupt(p) \/ InterruptSwallowed(p) \/ Die(p)

Next == \E p \in Procs : Create(p) \/ Resume(p) \/ Step(p) \/ Trouble(p)

Spec == Init /\ [][Next]_vars

\* A process that is scheduled goes on; an adapter that is not disturbed returns.
\* An operator resumes what can be resumed.
Fairness == \A p \in Procs : WF_vars(Step(p)) /\ WF_vars(Resume(p))

LiveSpec == Spec /\ Fairness
-----------------------------------------------------------------------------
(* Properties. *)

ProcStates ==
  [pc : PCs, exp : 0..MaxExps, plan : Plans \cup {NoPlan}, ver : Versions \cup {NoKey},
   force : SUBSET Stages, cur : 0..(N + 1), up : Outputs, result : Nat,
   todo : SUBSET Stages, seen : EXPERIMENT_STATUSES \cup {"none"}, born : Nat,
   signalled : BOOLEAN]

\* Every variable has its type; a manifest never holds a status outside its enumeration.
TypeOK ==
  /\ expStatus \in [Exps -> EXPERIMENT_STATUSES \cup {"none"}]
  /\ resolved \in [Exps -> Plans \cup {NoPlan}]
  /\ manifest \in [Exps -> [Stages -> Manifests]]
  /\ made \in Seq(Keys)
  /\ proc \in [Procs -> ProcStates]
  /\ runs \in Nat
  /\ faults \in Nat

\* Provenance of every completed stage, its own work or reused from any experiment:
\* its output was produced by a recorded execution of that stage on the same inputs
\* and setting, and each input of an execution is the output of an earlier execution
\* of the required stage.  This is what makes cross-experiment reuse sound
\* (find_reusable_stage, cache_key).
BackedBy(s, m) ==
  /\ m.out \in 1..Len(made)
  /\ made[m.out].stage = s
  /\ made[m.out].inputs = m.key.inputs
  /\ made[m.out].setting = m.key.setting

Provenance ==
  /\ \A e \in Exps, s \in Stages :
       manifest[e][s].status = "COMPLETED" => BackedBy(s, manifest[e][s])
  /\ \A i \in 1..Len(made) : \A d \in Requires[made[i].stage] :
       /\ made[i].inputs[d] \in 1..(i - 1)
       /\ made[made[i].inputs[d]].stage = d

\* A stage whose output the rest of experiment e may stand on: done as `plan` asks,
\* from the outputs its required stages have in the same experiment.
Consistent(e, s, plan) ==
  IF plan[s] = Off
  THEN manifest[e][s].status = "SKIPPED"
  ELSE /\ manifest[e][s].status = "COMPLETED"
       /\ manifest[e][s].key.setting = plan[s]
       /\ \A d \in Requires[s] : /\ manifest[e][d].status = "COMPLETED"
                                 /\ manifest[e][s].key.inputs[d] = manifest[e][d].out

\* A completed experiment is one coherent build: every enabled stage is COMPLETED with
\* the resolved setting, on exactly the outputs its required stages show in this
\* experiment, whatever crashes, resumes, forces and upgrades came before; and no two
\* stages were keyed under different code or model versions.
CompletedIsCoherent ==
  \A e \in Exps : expStatus[e] = "completed" =>
    /\ \A s \in Stages : Consistent(e, s, resolved[e])
    /\ \A s, t \in Stages : resolved[e][s] # Off /\ resolved[e][t] # Off =>
         manifest[e][s].key.ver = manifest[e][t].key.ver

\* A failed experiment shows where it failed: one stage is FAILED, every stage before it
\* is done, and every enabled stage after it is BLOCKED, so that no RUNNING or COMPLETED
\* manifest of an earlier attempt survives downstream of the failure.  An interrupted one
\* shows where it stopped: that stage is CANCELLED and every stage before it is done.
StoppedShape ==
  \A e \in Exps : expStatus[e] \in {"failed", "interrupted"} =>
    \E c \in Stages :
      /\ manifest[e][c].status = IF expStatus[e] = "failed" THEN "FAILED" ELSE "CANCELLED"
      /\ \A s \in Stages : s < c => Consistent(e, s, resolved[e])
      /\ expStatus[e] = "failed" =>
           \A s \in Stages : s > c /\ resolved[e][s] # Off => manifest[e][s].status = "BLOCKED"

\* While an adapter runs, what it was given is what the disk says: its manifest is
\* RUNNING under the key computed for it and every required stage is COMPLETED with
\* the output handed to it -- never executed against incomplete artifacts.
InputsAreOnDisk ==
  \A p \in Procs : proc[p].pc = "adapter" =>
    LET e == proc[p].exp  s == proc[p].cur IN
      /\ manifest[e][s].status = "RUNNING"
      /\ manifest[e][s].key = StageKey(p)
      /\ \A d \in Requires[s] : /\ manifest[e][d].status = "COMPLETED"
                                /\ manifest[e][d].out = proc[p].up[d]

\* --force and retry: when the run ends, each stage it invalidated, directly or by the
\* cascade, was executed by this very invocation and not taken from any cache.
ForceIsHonoured ==
  \A p \in Procs : proc[p].pc = "completing" =>
    \A s \in proc[p].force \ Deterministic :
      Enabled(p, s) => manifest[proc[p].exp][s].out > proc[p].born

\* Nothing about a completed experiment ever changes again.
CompletedIsFrozen ==
  [][\A e \in Exps : expStatus[e] = "completed" =>
       /\ expStatus'[e] = "completed"
       /\ manifest'[e] = manifest[e]
       /\ resolved'[e] = resolved[e]]_vars

\* Once its configuration is on disk no experiment is ever stuck: resuming it again
\* after every crash, failure and signal ends with it completed.
ResumingCompletes ==
  \A e \in Exps : resolved[e] # NoPlan ~> expStatus[e] = "completed"
=============================================================================

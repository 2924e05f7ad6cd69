------------------------- MODULE OrchestratorProofs -------------------------
(***************************************************************************)
(* Theorems about Orchestrator, for every number of stages, dependency     *)
(* relation, set of processes, configurations and versions.                *)
(***************************************************************************)
EXTENDS OrchestratorInvariants, TLAPS

\* What the program counter says of the rest of a process's memory: TypeOK alone is
\* not inductive, since a key is built from plan, ver and cur.
Controlled(r) ==
  /\ r.pc # "idle" => r.exp \in Exps /\ r.plan \in Plans /\ r.ver \in Versions
  /\ r.pc = "loop" => r.cur \in 1..(N + 1)
  /\ r.pc \in {"adapter", "returned", "failing", "cancelling"} => r.cur \in Stages

ControlOK == \A p \in Procs : Controlled(proc[p])

Typed == TypeOK /\ ControlOK

LEMMA KeyType ==
  ASSUME TypeOK, ControlOK, NEW p \in Procs,
         proc[p].pc # "idle", proc[p].cur \in Stages
  PROVE  StageKey(p) \in Keys
<1>1. proc[p] \in ProcStates /\ proc[p].plan \in Plans /\ proc[p].ver \in Versions
  BY DEF TypeOK, ControlOK, Controlled
<1>2. proc[p].plan[proc[p].cur] \in Settings
  BY <1>1 DEF Settings
<1>3. [d \in Stages |-> IF d \in Requires[proc[p].cur] THEN proc[p].up[d] ELSE 0]
        \in Outputs
  BY <1>1 DEF ProcStates, Outputs
<1>4. QED BY <1>1, <1>2, <1>3 DEF StageKey, KeyOf, Keys

LEMMA IdleType == Idle \in ProcStates
  BY NAssumption, BoundsAssumption
  DEF Idle, ProcStates, PCs, NoPlan, Stages, Outputs

LEMMA IdleControlled == Controlled(Idle)
  BY DEF Controlled, Idle

LEMMA BareType ==
  ASSUME NEW status \in StageStates PROVE Bare(status) \in Manifests
  BY DEF Bare, Manifests

LEMMA ForceType == ForceTargets \subseteq SUBSET Stages
  BY DEF ForceTargets, Cascade

LEMMA TypedInit == Init => Typed
<1> SUFFICES ASSUME Init PROVE TypeOK /\ ControlOK
  BY DEF Typed
<1>1. TypeOK
  <2>1. \A e \in Exps, s \in Stages : manifest[e][s] \in Manifests
    BY BareType DEF Init, StageStates
  <2>2. manifest \in [Exps -> [Stages -> Manifests]]
    BY <2>1, BareType DEF Init, StageStates
  <2>3. made \in Seq(Keys)
    BY DEF Init
  <2>4. QED BY <2>2, <2>3, IdleType DEF Init, TypeOK
<1>2. ControlOK
  BY DEF Init, ControlOK, Controlled, Idle
<1>3. QED BY <1>1, <1>2

\* A process record stays well typed when fields are replaced by values of their type.
LEMMA Updates ==
  ASSUME NEW r \in ProcStates, NEW pc \in PCs
  PROVE  /\ [r EXCEPT !.pc = pc] \in ProcStates
         /\ \A n \in 0..(N + 1) : [r EXCEPT !.pc = pc, !.cur = n] \in ProcStates
         /\ \A n \in Nat : [r EXCEPT !.pc = pc, !.result = n] \in ProcStates
         /\ \A b \in BOOLEAN : [r EXCEPT !.pc = pc, !.signalled = b] \in ProcStates
         /\ \A t \in SUBSET Stages : [r EXCEPT !.pc = pc, !.todo = t] \in ProcStates
         /\ \A t \in SUBSET Stages : [r EXCEPT !.todo = t] \in ProcStates
         /\ \A x \in EXPERIMENT_STATUSES \cup {"none"} :
              [r EXCEPT !.pc = pc, !.seen = x] \in ProcStates
         /\ \A u \in Outputs, n \in 0..(N + 1) :
              [r EXCEPT !.pc = pc, !.up = u, !.result = 0, !.cur = n] \in ProcStates
<1>1. [r EXCEPT !.pc = pc] \in ProcStates
  BY DEF ProcStates
<1>2. ASSUME NEW n \in 0..(N + 1) PROVE [r EXCEPT !.pc = pc, !.cur = n] \in ProcStates
  BY <1>2 DEF ProcStates
<1>3. ASSUME NEW n \in Nat PROVE [r EXCEPT !.pc = pc, !.result = n] \in ProcStates
  BY <1>3 DEF ProcStates
<1>4. ASSUME NEW b \in BOOLEAN PROVE [r EXCEPT !.pc = pc, !.signalled = b] \in ProcStates
  BY <1>4 DEF ProcStates
<1>5. ASSUME NEW t \in SUBSET Stages
      PROVE [r EXCEPT !.pc = pc, !.todo = t] \in ProcStates /\ [r EXCEPT !.todo = t] \in ProcStates
  BY <1>5 DEF ProcStates
<1>6. ASSUME NEW x \in EXPERIMENT_STATUSES \cup {"none"}
      PROVE [r EXCEPT !.pc = pc, !.seen = x] \in ProcStates
  BY <1>6 DEF ProcStates
<1>7. ASSUME NEW u \in Outputs, NEW n \in 0..(N + 1)
      PROVE [r EXCEPT !.pc = pc, !.up = u, !.result = 0, !.cur = n] \in ProcStates
  BY <1>7 DEF ProcStates
<1>8. QED BY <1>1, <1>2, <1>3, <1>4, <1>5, <1>6, <1>7

LEMMA Starts ==
  ASSUME NEW pc \in PCs, NEW e \in Exps, NEW plan \in Plans, NEW ver \in Versions,
         NEW force \in SUBSET Stages, NEW born \in Nat
  PROVE  [Idle EXCEPT !.pc = pc, !.exp = e, !.plan = plan, !.ver = ver,
                      !.force = force, !.born = born] \in ProcStates
<1>1. Idle \in ProcStates BY IdleType
<1>2. e \in 0..MaxExps BY BoundsAssumption DEF Exps
<1>3. QED BY <1>1, <1>2 DEF ProcStates

LEMMA PCMembers ==
  \A pc \in {"configuring", "starting", "restarting", "checking", "saving", "loop", "adapter",
             "returned", "failing", "cancelling", "blocking", "interrupting", "recording",
             "completing"} : pc \in PCs
  BY DEF PCs

\* Writing one process's record, one stage manifest or one status.
LEMMA ProcWrite ==
  ASSUME TypeOK, ControlOK, NEW p \in Procs,
         NEW r \in ProcStates, Controlled(r), proc' = [proc EXCEPT ![p] = r]
  PROVE  proc' \in [Procs -> ProcStates] /\ ControlOK'
<1>1. proc' \in [Procs -> ProcStates]
  BY DEF TypeOK
<1>2. \A q \in Procs : proc'[q] = IF q = p THEN r ELSE proc[q]
  BY DEF TypeOK
<1>3. \A q \in Procs : Controlled(proc'[q])
  BY <1>2 DEF ControlOK
<1>4. QED BY <1>1, <1>3 DEF ControlOK

LEMMA ManifestWrite ==
  ASSUME manifest \in [Exps -> [Stages -> Manifests]], NEW e \in Exps, NEW s \in Stages,
         NEW m \in Manifests, manifest' = [manifest EXCEPT ![e][s] = m]
  PROVE  /\ manifest' \in [Exps -> [Stages -> Manifests]]
         /\ manifest'[e][s] = m
         /\ \A f \in Exps, t \in Stages : f # e \/ t # s => manifest'[f][t] = manifest[f][t]
  OBVIOUS

LEMMA StatusWrite ==
  ASSUME expStatus \in [Exps -> EXPERIMENT_STATUSES \cup {"none"}],
         NEW p \in Procs, proc[p].exp \in Exps, NEW status \in EXPERIMENT_STATUSES,
         UpdateStatus(p, status)
  PROVE  expStatus' \in [Exps -> EXPERIMENT_STATUSES \cup {"none"}]
  BY DEF UpdateStatus

LEMMA SettledType ==
  ASSUME TypeOK, NEW p \in Procs, proc[p].exp \in Exps, proc[p].cur \in Stages,
         NEW status \in StageStates
  PROVE  Settled(p, status) \in Manifests
<1> DEFINE m == manifest[proc[p].exp][proc[p].cur]
<1>1. m \in Manifests
  BY DEF TypeOK
<1>2. [m EXCEPT !.status = status] \in Manifests
  BY <1>1 DEF Manifests
<1>3. QED BY <1>2, BareType DEF Settled

\* What is recorded on a cross-experiment hit is what the other experiment recorded.
LEMMA ReuseRecord ==
  ASSUME manifest \in [Exps -> [Stages -> Manifests]], NEW p, proc[p].cur \in Stages,
         NEW e \in ReusableFrom(p)
  PROVE  manifest[e][proc[p].cur] = [status |-> "COMPLETED", key |-> StageKey(p),
                                     out |-> manifest[e][proc[p].cur].out]
<1>1. manifest[e][proc[p].cur] \in Manifests
  BY DEF ReusableFrom
<1>2. /\ manifest[e][proc[p].cur].status = "COMPLETED"
      /\ manifest[e][proc[p].cur].key = StageKey(p)
  BY DEF ReusableFrom, IsReusable
<1>3. QED BY <1>1, <1>2 DEF Manifests

\* One step keeps the types: the process's record, then what is on disk.
LEMMA TypedStep == Typed /\ [Next]_vars => Typed'
<1> SUFFICES ASSUME TypeOK, ControlOK, [Next]_vars PROVE TypeOK' /\ ControlOK'
  BY DEF Typed
<1>1. \A p \in Procs : proc[p] \in ProcStates /\ Controlled(proc[p])
  BY DEF TypeOK, ControlOK
<1>2. ASSUME NEW p \in Procs, proc[p].pc # "idle", proc[p].cur \in Stages
      PROVE StageKey(p) \in Keys
  BY <1>2, KeyType
<1>3. ASSUME NEW p \in Procs, WriteResolvedConfig(p) PROVE TypeOK' /\ ControlOK'
  <2> DEFINE r == [proc[p] EXCEPT !.pc = "starting"]
  <2>1. r \in ProcStates
    BY <1>1, Updates, PCMembers
  <2>2. Controlled(r)
    BY <1>3, <1>1 DEF WriteResolvedConfig, Controlled, ProcStates
  <2>3. proc' = [proc EXCEPT ![p] = r]
    BY <1>3 DEF WriteResolvedConfig, GoTo
  <2>4. proc' \in [Procs -> ProcStates] /\ ControlOK'
    BY <2>1, <2>2, <2>3, ProcWrite
  <2>5. QED BY <1>3, <1>1, <2>4 DEF WriteResolvedConfig, TypeOK, Controlled, EXPERIMENT_STATUSES
<1>4. ASSUME NEW p \in Procs, SaveGit(p) PROVE TypeOK' /\ ControlOK'
  <2> DEFINE r == [proc[p] EXCEPT !.pc = "loop", !.cur = 1]
  <2>0. 1 \in 0..(N + 1) /\ 1 \in 1..(N + 1)
    BY NAssumption
  <2>1. r \in ProcStates
    BY <1>1, Updates, PCMembers, <2>0
  <2>2. Controlled(r)
    BY <1>4, <1>1, <2>0 DEF SaveGit, Controlled, ProcStates
  <2>3. proc' = [proc EXCEPT ![p] = r]
    BY <1>4 DEF SaveGit
  <2>4. proc' \in [Procs -> ProcStates] /\ ControlOK'
    BY <2>1, <2>2, <2>3, ProcWrite
  <2>5. QED BY <1>4, <1>1, <2>4 DEF SaveGit, TypeOK, Controlled, EXPERIMENT_STATUSES
<1>5. ASSUME NEW p \in Procs, SkipDisabled(p) PROVE TypeOK' /\ ControlOK'
  <2> DEFINE r == [proc[p] EXCEPT !.pc = "returned", !.result = 0]
  <2>1. r \in ProcStates
    BY <1>1, Updates, PCMembers
  <2>2. Controlled(r)
    BY <1>5, <1>1 DEF SkipDisabled, Controlled, ProcStates
  <2>3. proc' = [proc EXCEPT ![p] = r]
    BY <1>5 DEF SkipDisabled, Return
  <2>4. proc' \in [Procs -> ProcStates] /\ ControlOK'
    BY <2>1, <2>2, <2>3, ProcWrite
  <2>5. Bare("SKIPPED") \in Manifests
    BY BareType DEF StageStates
  <2>6. QED BY <1>5, <1>1, <2>4, <2>5, ManifestWrite DEF SkipDisabled, WriteManifest, TypeOK, Controlled
<1>6. ASSUME NEW p \in Procs, MissDependency(p) PROVE TypeOK' /\ ControlOK'
  <2> DEFINE r == [proc[p] EXCEPT !.pc = "failing"]
  <2>1. r \in ProcStates
    BY <1>1, Updates, PCMembers
  <2>2. Controlled(r)
    BY <1>6, <1>1 DEF MissDependency, Controlled, ProcStates
  <2>3. proc' = [proc EXCEPT ![p] = r]
    BY <1>6 DEF MissDependency, GoTo
  <2>4. proc' \in [Procs -> ProcStates] /\ ControlOK'
    BY <2>1, <2>2, <2>3, ProcWrite
  <2>5. QED BY <1>6, <2>4 DEF MissDependency, TypeOK
<1>7. ASSUME NEW p \in Procs, ReuseOwn(p) PROVE TypeOK' /\ ControlOK'
  <2> DEFINE r == [proc[p] EXCEPT !.pc = "returned", !.result = manifest[proc[p].exp][proc[p].cur].out]
  <2>0. manifest[proc[p].exp][proc[p].cur].out \in Nat
    BY <1>7, <1>1 DEF ReuseOwn, AtStage, TypeOK, Controlled, Manifests
  <2>1. r \in ProcStates
    BY <1>1, Updates, PCMembers, <2>0
  <2>2. Controlled(r)
    BY <1>7, <1>1 DEF ReuseOwn, AtStage, Controlled, ProcStates
  <2>3. proc' = [proc EXCEPT ![p] = r]
    BY <1>7 DEF ReuseOwn, Return
  <2>4. proc' \in [Procs -> ProcStates] /\ ControlOK'
    BY <2>1, <2>2, <2>3, ProcWrite
  <2>5. QED BY <1>7, <2>4 DEF ReuseOwn, TypeOK
<1>8. ASSUME NEW p \in Procs, BeginStage(p) PROVE TypeOK' /\ ControlOK'
  <2> DEFINE r == [proc[p] EXCEPT !.pc = "adapter"]
  <2>1. r \in ProcStates
    BY <1>1, Updates, PCMembers
  <2>2. Controlled(r)
    BY <1>8, <1>1 DEF BeginStage, AtStage, Controlled, ProcStates
  <2>3. proc' = [proc EXCEPT ![p] = r]
    BY <1>8 DEF BeginStage, GoTo
  <2>4. proc' \in [Procs -> ProcStates] /\ ControlOK'
    BY <2>1, <2>2, <2>3, ProcWrite
  <2>5. [status |-> "RUNNING", key |-> StageKey(p), out |-> 0] \in Manifests
    BY <1>8, <1>2 DEF BeginStage, AtStage, Manifests, StageStates
  <2>6. QED BY <1>8, <1>1, <2>4, <2>5, ManifestWrite DEF BeginStage, AtStage, WriteManifest, TypeOK, Controlled
<1>9. ASSUME NEW p \in Procs, AdapterFails(p) PROVE TypeOK' /\ ControlOK'
  <2> DEFINE r == [proc[p] EXCEPT !.pc = "failing"]
  <2>1. r \in ProcStates
    BY <1>1, Updates, PCMembers
  <2>2. Controlled(r)
    BY <1>9, <1>1 DEF AdapterFails, Controlled, ProcStates
  <2>3. proc' = [proc EXCEPT ![p] = r]
    BY <1>9 DEF AdapterFails, GoTo
  <2>4. proc' \in [Procs -> ProcStates] /\ ControlOK'
    BY <2>1, <2>2, <2>3, ProcWrite
  <2>5. QED BY <1>9, <2>4 DEF AdapterFails, Fault, TypeOK
<1>10. ASSUME NEW p \in Procs, Advance(p) PROVE TypeOK' /\ ControlOK'
  <2> DEFINE r == [proc[p] EXCEPT !.pc = "loop",
                           !.up = [proc[p].up EXCEPT ![proc[p].cur] = proc[p].result],
                           !.result = 0, !.cur = proc[p].cur + 1]
  <2>0. /\ proc[p].cur + 1 \in 1..(N + 1)
        /\ proc[p].cur + 1 \in 0..(N + 1)
        /\ [proc[p].up EXCEPT ![proc[p].cur] = proc[p].result] \in Outputs
    BY <1>10, <1>1, NAssumption DEF Advance, Controlled, ProcStates, Stages, Outputs
  <2>1. r \in ProcStates
    BY <1>1, Updates, PCMembers, <2>0
  <2>2. Controlled(r)
    BY <1>10, <1>1, <2>0 DEF Advance, Controlled, ProcStates
  <2>3. proc' = [proc EXCEPT ![p] = r]
    BY <1>10 DEF Advance
  <2>4. proc' \in [Procs -> ProcStates] /\ ControlOK'
    BY <2>1, <2>2, <2>3, ProcWrite
  <2>5. QED BY <1>10, <2>4 DEF Advance, TypeOK
<1>11. ASSUME NEW p \in Procs, Interrupt(p) PROVE TypeOK' /\ ControlOK'
  <2> DEFINE r == [proc[p] EXCEPT !.pc = "cancelling", !.signalled = TRUE]
  <2>1. r \in ProcStates
    BY <1>1, Updates, PCMembers
  <2>2. Controlled(r)
    BY <1>11, <1>1 DEF Interrupt, Controlled, ProcStates
  <2>3. proc' = [proc EXCEPT ![p] = r]
    BY <1>11 DEF Interrupt
  <2>4. proc' \in [Procs -> ProcStates] /\ ControlOK'
    BY <2>1, <2>2, <2>3, ProcWrite
  <2>5. QED BY <1>11, <2>4 DEF Interrupt, Fault, TypeOK
<1>12. ASSUME NEW p \in Procs, InterruptSwallowed(p) PROVE TypeOK' /\ ControlOK'
  <2> DEFINE r == [proc[p] EXCEPT !.pc = "failing", !.signalled = TRUE]
  <2>1. r \in ProcStates
    BY <1>1, Updates, PCMembers
  <2>2. Controlled(r)
    BY <1>12, <1>1 DEF InterruptSwallowed, Controlled, ProcStates
  <2>3. proc' = [proc EXCEPT ![p] = r]
    BY <1>12 DEF InterruptSwallowed
  <2>4. proc' \in [Procs -> ProcStates] /\ ControlOK'
    BY <2>1, <2>2, <2>3, ProcWrite
  <2>5. QED BY <1>12, <2>4 DEF InterruptSwallowed, Fault, TypeOK
<1>13. ASSUME NEW p \in Procs, MarkCancelled(p) PROVE TypeOK' /\ ControlOK'
  <2> DEFINE r == [proc[p] EXCEPT !.pc = "interrupting"]
  <2>1. r \in ProcStates
    BY <1>1, Updates, PCMembers
  <2>2. Controlled(r)
    BY <1>13, <1>1 DEF MarkCancelled, Controlled, ProcStates
  <2>3. proc' = [proc EXCEPT ![p] = r]
    BY <1>13 DEF MarkCancelled, GoTo
  <2>4. proc' \in [Procs -> ProcStates] /\ ControlOK'
    BY <2>1, <2>2, <2>3, ProcWrite
  <2>5. Settled(p, "CANCELLED") \in Manifests
    BY <1>13, <1>1, SettledType DEF MarkCancelled, TypeOK, Controlled, StageStates
  <2>6. QED BY <1>13, <1>1, <2>4, <2>5, ManifestWrite DEF MarkCancelled, WriteManifest, TypeOK, Controlled
<1>14. ASSUME NEW p \in Procs, MarkFailed(p) PROVE TypeOK' /\ ControlOK'
  <2> DEFINE r == [proc[p] EXCEPT !.pc = "blocking",
                           !.todo = {s \in Stages : /\ s # proc[p].cur
                                                    /\ proc[p].up[s] = 0
                                                    /\ Enabled(p, s)}]
  <2>1. r \in ProcStates
    BY <1>1, Updates, PCMembers
  <2>2. Controlled(r)
    BY <1>14, <1>1 DEF MarkFailed, Controlled, ProcStates
  <2>3. proc' = [proc EXCEPT ![p] = r]
    BY <1>14 DEF MarkFailed
  <2>4. proc' \in [Procs -> ProcStates] /\ ControlOK'
    BY <2>1, <2>2, <2>3, ProcWrite
  <2>5. Settled(p, "FAILED") \in Manifests
    BY <1>14, <1>1, SettledType DEF MarkFailed, TypeOK, Controlled, StageStates
  <2>6. QED BY <1>14, <1>1, <2>4, <2>5, ManifestWrite DEF MarkFailed, WriteManifest, TypeOK, Controlled
<1>15. ASSUME NEW p \in Procs, FinalizeRead(p) PROVE TypeOK' /\ ControlOK'
  <2> DEFINE r == [proc[p] EXCEPT !.pc = "recording", !.seen = expStatus[proc[p].exp]]
  <2>0. expStatus[proc[p].exp] \in EXPERIMENT_STATUSES \cup {"none"}
    BY <1>15, <1>1 DEF FinalizeRead, TypeOK, Controlled
  <2>1. r \in ProcStates
    BY <1>1, Updates, PCMembers, <2>0
  <2>2. Controlled(r)
    BY <1>15, <1>1 DEF FinalizeRead, Controlled, ProcStates
  <2>3. proc' = [proc EXCEPT ![p] = r]
    BY <1>15 DEF FinalizeRead
  <2>4. proc' \in [Procs -> ProcStates] /\ ControlOK'
    BY <2>1, <2>2, <2>3, ProcWrite
  <2>5. QED BY <1>15, <2>4 DEF FinalizeRead, TypeOK
<1>16. ASSUME NEW p \in Procs, RecordStageRuns(p) PROVE TypeOK' /\ ControlOK'
  <2> DEFINE r == [proc[p] EXCEPT !.pc = "completing"]
  <2>1. r \in ProcStates
    BY <1>1, Updates, PCMembers
  <2>2. Controlled(r)
    BY <1>16, <1>1 DEF RecordStageRuns, Controlled, ProcStates
  <2>3. proc' = [proc EXCEPT ![p] = r]
    BY <1>16 DEF RecordStageRuns, GoTo
  <2>4. proc' \in [Procs -> ProcStates] /\ ControlOK'
    BY <2>1, <2>2, <2>3, ProcWrite
  <2>5. QED BY <1>16, <1>1, <2>4 DEF RecordStageRuns, TypeOK, Controlled, ProcStates
<1>17. ASSUME NEW p \in Procs, InterruptRun(p) PROVE TypeOK' /\ ControlOK'
  <2>1. proc' \in [Procs -> ProcStates] /\ ControlOK'
    BY <1>17, IdleType, IdleControlled, ProcWrite DEF InterruptRun, Leave
  <2>2. QED BY <1>17, <1>1, <2>1, StatusWrite DEF InterruptRun, TypeOK, Controlled, EXPERIMENT_STATUSES
<1>18. ASSUME NEW p \in Procs, FailRun(p) PROVE TypeOK' /\ ControlOK'
  <2>1. proc' \in [Procs -> ProcStates] /\ ControlOK'
    BY <1>18, IdleType, IdleControlled, ProcWrite DEF FailRun, Leave
  <2>2. QED BY <1>18, <1>1, <2>1, StatusWrite DEF FailRun, TypeOK, Controlled, EXPERIMENT_STATUSES
<1>19. ASSUME NEW p \in Procs, CompleteRun(p) PROVE TypeOK' /\ ControlOK'
  <2>1. proc' \in [Procs -> ProcStates] /\ ControlOK'
    BY <1>19, IdleType, IdleControlled, ProcWrite DEF CompleteRun, Leave
  <2>2. QED BY <1>19, <1>1, <2>1, StatusWrite DEF CompleteRun, TypeOK, Controlled, EXPERIMENT_STATUSES
<1>20. ASSUME NEW p \in Procs, PolicyRefuses(p) PROVE TypeOK' /\ ControlOK'
  <2>1. proc' \in [Procs -> ProcStates] /\ ControlOK'
    BY <1>20, IdleType, IdleControlled, ProcWrite DEF PolicyRefuses, Leave
  <2>2. QED BY <1>20, <2>1 DEF PolicyRefuses, TypeOK, Fault
<1>21. ASSUME NEW p \in Procs, Die(p) PROVE TypeOK' /\ ControlOK'
  <2>1. proc' \in [Procs -> ProcStates] /\ ControlOK'
    BY <1>21, IdleType, IdleControlled, ProcWrite DEF Die, Leave
  <2>2. QED BY <1>21, <2>1 DEF Die, TypeOK, Fault
<1>22. ASSUME NEW p \in Procs, BlockStage(p) PROVE TypeOK' /\ ControlOK'
  <2>1. PICK s \in proc[p].todo :
          /\ WriteManifest(p, s, Bare("BLOCKED"))
          /\ proc' = [proc EXCEPT ![p].todo = proc[p].todo \ {s}]
    BY <1>22 DEF BlockStage
  <2> DEFINE r == [proc[p] EXCEPT !.todo = proc[p].todo \ {s}]
  <2>2. s \in Stages /\ proc[p].todo \ {s} \in SUBSET Stages
    BY <1>1 DEF ProcStates
  <2>3. r \in ProcStates
    BY <1>1, <2>2, Updates, PCMembers
  <2>4. Controlled(r)
    BY <1>1 DEF Controlled, ProcStates
  <2>5. proc' \in [Procs -> ProcStates] /\ ControlOK'
    BY <2>1, <2>3, <2>4, ProcWrite
  <2>6. Bare("BLOCKED") \in Manifests
    BY BareType DEF StageStates
  <2>7. QED BY <1>22, <1>1, <2>1, <2>2, <2>5, <2>6, ManifestWrite
            DEF BlockStage, WriteManifest, TypeOK, Controlled
<1>23. ASSUME NEW p \in Procs, StartRun(p) PROVE TypeOK' /\ ControlOK'
  <2>1. expStatus' \in [Exps -> EXPERIMENT_STATUSES \cup {"none"}]
    BY <1>23, <1>1, StatusWrite DEF StartRun, TypeOK, Controlled, EXPERIMENT_STATUSES
  <2>2. CASE Refused(p, "running")
    <3>1. proc' \in [Procs -> ProcStates] /\ ControlOK'
      BY <1>23, <2>2, IdleType, IdleControlled, ProcWrite DEF StartRun, Leave
    <3>2. QED BY <1>23, <2>1, <3>1 DEF StartRun, TypeOK
  <2>3. CASE ~Refused(p, "running")
    <3> DEFINE pc == IF proc[p].pc = "starting" THEN "saving" ELSE "checking"
    <3> DEFINE r  == [proc[p] EXCEPT !.pc = pc]
    <3>1. pc \in PCs
      BY PCMembers
    <3>2. r \in ProcStates
      BY <1>1, <3>1, Updates
    <3>3. Controlled(r)
      BY <1>23, <1>1 DEF StartRun, Controlled, ProcStates
    <3>4. proc' \in [Procs -> ProcStates] /\ ControlOK'
      BY <1>23, <2>3, <3>2, <3>3, ProcWrite DEF StartRun, GoTo
    <3>5. QED BY <1>23, <2>1, <3>4 DEF StartRun, TypeOK
  <2>4. QED BY <2>2, <2>3
<1>24. ASSUME NEW p \in Procs, ReuseOther(p) PROVE TypeOK' /\ ControlOK'
  <2>1. PICK e \in ReusableFrom(p) :
          /\ WriteManifest(p, proc[p].cur,
                           [status |-> "COMPLETED", key |-> StageKey(p),
                            out |-> manifest[e][proc[p].cur].out])
          /\ Return(p, manifest[e][proc[p].cur].out)
    BY <1>24 DEF ReuseOther
  <2>7. e \in Exps /\ proc[p].cur \in Stages
    BY <1>24, <2>1 DEF ReuseOther, AtStage, ReusableFrom
  <2>8. manifest[e][proc[p].cur] = [status |-> "COMPLETED", key |-> StageKey(p),
                                    out |-> manifest[e][proc[p].cur].out]
    BY <2>1, <2>7, ReuseRecord DEF TypeOK
  <2> DEFINE m == manifest[e][proc[p].cur]
             r == [proc[p] EXCEPT !.pc = "returned", !.result = m.out]
  <2>2. /\ m \in Manifests /\ m.out \in Nat
        /\ proc[p].exp \in Exps /\ proc[p].cur \in Stages
    BY <1>24, <1>1, <2>7 DEF ReuseOther, AtStage, TypeOK, Controlled, Manifests
  <2>3. r \in ProcStates
    BY <1>1, <2>2, Updates, PCMembers
  <2>4. Controlled(r)
    BY <1>24, <1>1 DEF ReuseOther, AtStage, Controlled, ProcStates
  <2>5. proc' \in [Procs -> ProcStates] /\ ControlOK'
    BY <2>1, <2>3, <2>4, ProcWrite DEF Return
  <2>6. QED
    BY <1>24, <2>1, <2>2, <2>5, <2>8, ManifestWrite DEF ReuseOther, WriteManifest, TypeOK
<1>25. ASSUME NEW p \in Procs, AdapterSucceeds(p) PROVE TypeOK' /\ ControlOK'
  <2>1. PICK out \in 1..(Len(made) + 1) :
          /\ made' = made \/ made' = Append(made, StageKey(p))
          /\ WriteManifest(p, proc[p].cur,
                           [status |-> "COMPLETED", key |-> StageKey(p), out |-> out])
          /\ Return(p, out)
    BY <1>25 DEF AdapterSucceeds
  <2> DEFINE m == [status |-> "COMPLETED", key |-> StageKey(p), out |-> out]
             r == [proc[p] EXCEPT !.pc = "returned", !.result = out]
  <2>2. /\ proc[p].exp \in Exps /\ proc[p].cur \in Stages
        /\ StageKey(p) \in Keys
        /\ out \in Nat
        /\ made' \in Seq(Keys)
    <3>1. proc[p].exp \in Exps /\ proc[p].cur \in Stages /\ StageKey(p) \in Keys
      BY <1>25, <1>1, <1>2 DEF AdapterSucceeds, Controlled
    <3>2. made \in Seq(Keys)
      BY DEF TypeOK
    <3>3. QED BY <2>1, <3>1, <3>2
  <2>3. m \in Manifests
    BY <2>2 DEF Manifests, StageStates
  <2>4. r \in ProcStates
    BY <1>1, <2>2, Updates, PCMembers
  <2>5. Controlled(r)
    BY <1>25, <1>1 DEF AdapterSucceeds, Controlled, ProcStates
  <2>6. proc' \in [Procs -> ProcStates] /\ ControlOK'
    BY <2>1, <2>4, <2>5, ProcWrite DEF Return
  <2>7. QED BY <1>25, <2>1, <2>2, <2>3, <2>6, ManifestWrite
            DEF AdapterSucceeds, WriteManifest, TypeOK
<1>26. ASSUME NEW p \in Procs, NEW e \in Exps, NEW plan \in Plans, NEW pc \in PCs,
             pc \in {"configuring", "checking", "restarting"}, Invoke(p, e, pc, plan)
      PROVE  proc' \in [Procs -> ProcStates] /\ ControlOK' /\ runs' \in Nat
  <2>1. PICK ver \in Versions, force \in SUBSET Stages :
          proc' = [proc EXCEPT ![p] =
                     [Idle EXCEPT !.pc = pc, !.exp = e, !.plan = plan, !.ver = ver,
                                  !.force = force, !.born = Len(made)]]
    BY <1>26, ForceType DEF Invoke
  <2> DEFINE r == [Idle EXCEPT !.pc = pc, !.exp = e, !.plan = plan, !.ver = ver,
                               !.force = force, !.born = Len(made)]
  <2>2. Len(made) \in Nat
    BY DEF TypeOK
  <2>3. r \in ProcStates
    BY <2>2, Starts
  <2>4. Controlled(r)
    BY <1>26 DEF Controlled, Idle
  <2>5. proc' \in [Procs -> ProcStates] /\ ControlOK'
    BY <2>1, <2>3, <2>4, ProcWrite
  <2>6. runs' \in Nat
    BY <1>26 DEF Invoke, TypeOK
  <2>7. QED BY <2>5, <2>6
<1>27. ASSUME NEW p \in Procs, Create(p) PROVE TypeOK' /\ ControlOK'
  <2>1. PICK e \in Exps, plan \in Plans :
          /\ expStatus' = [expStatus EXCEPT ![e] = "created"]
          /\ Invoke(p, e, "configuring", plan)
    BY <1>27 DEF Create
  <2>2. proc' \in [Procs -> ProcStates] /\ ControlOK' /\ runs' \in Nat
    BY <1>26, <2>1, PCMembers
  <2>3. QED BY <1>27, <2>1, <2>2 DEF Create, TypeOK, EXPERIMENT_STATUSES
<1>28. ASSUME NEW p \in Procs, Resume(p) PROVE TypeOK' /\ ControlOK'
  <2>1. PICK e \in Exps :
          /\ resolved[e] # NoPlan
          /\ Invoke(p, e, IF expStatus[e] = "running" THEN "checking" ELSE "restarting",
                    resolved[e])
    BY <1>28 DEF Resume
  <2>2. resolved[e] \in Plans
    BY <2>1 DEF TypeOK
  <2>3. proc' \in [Procs -> ProcStates] /\ ControlOK' /\ runs' \in Nat
    BY <1>26, <2>1, <2>2, PCMembers
  <2>4. QED BY <1>28, <2>3 DEF Resume, TypeOK
<1>29. CASE UNCHANGED vars
  BY <1>29 DEF vars, TypeOK, ControlOK
<1>30. QED
  BY <1>3, <1>4, <1>5, <1>6, <1>7, <1>8, <1>9, <1>10, <1>11, <1>12, <1>13, <1>14,
     <1>15, <1>16, <1>17, <1>18, <1>19, <1>20, <1>21, <1>22, <1>23, <1>24,
     <1>25, <1>27, <1>28, <1>29
  DEF Next, Step, Trouble

\* Every reachable state is well typed.
THEOREM TypeCorrect == Spec => []TypeOK
<1>1. Spec => []Typed
  BY TypedInit, TypedStep, PTL DEF Spec
<1>2. Typed => TypeOK
  BY DEF Typed
<1>3. QED BY <1>1, <1>2, PTL

-----------------------------------------------------------------------------
(* Provenance, with any number of processes on any experiment. *)

LEMMA HoldsIdle == Holds(Idle)
  BY DEF Holds, Idle

\* Replacing one process's record by one that holds only produced outputs.
LEMMA HoldsWrite ==
  ASSUME proc \in [Procs -> ProcStates], \A q \in Procs : Holds(proc[q]),
         NEW p \in Procs, NEW r, Holds(r), proc' = [proc EXCEPT ![p] = r], made' = made
  PROVE  \A q \in Procs : Holds(proc[q])'
<1> TAKE q \in Procs
<1>1. proc'[q] = IF q = p THEN r ELSE proc[q]
  OBVIOUS
<1>2. Holds(proc'[q])
  BY <1>1
<1>3. Holds(proc[q])' <=> Holds(proc'[q])
  BY DEF Holds, Produced
<1>4. QED BY <1>2, <1>3

\* The steps that record no execution leave every process holding produced outputs.
LEMMA MemoryStep ==
  ASSUME Typed, ProvenanceInv, NEW p \in Procs,
         Create(p) \/ Resume(p) \/ Step(p) \/ Trouble(p), ~AdapterSucceeds(p)
  PROVE  made' = made /\ \A q \in Procs : Holds(proc[q])'
<1>1. /\ proc \in [Procs -> ProcStates]
      /\ proc[p] \in ProcStates
      /\ \A q \in Procs : Holds(proc[q])
  BY DEF Typed, TypeOK, ProvenanceInv
<1>2. Holds(proc[p])
  BY <1>1
<1>3. CASE WriteResolvedConfig(p)
  <2> DEFINE r == [proc[p] EXCEPT !.pc = "starting"]
  <2>1. Holds(r)
    BY <1>3, <1>1, <1>2 DEF WriteResolvedConfig, Holds, ProcStates
  <2>2. proc' = [proc EXCEPT ![p] = r] /\ made' = made
    BY <1>3 DEF WriteResolvedConfig, GoTo
  <2>3. QED BY <1>1, <2>1, <2>2, HoldsWrite
<1>4. CASE SaveGit(p)
  <2> DEFINE r == [proc[p] EXCEPT !.pc = "loop", !.cur = 1]
  <2>1. Holds(r)
    BY <1>4, <1>1, <1>2 DEF SaveGit, Holds, ProcStates
  <2>2. proc' = [proc EXCEPT ![p] = r] /\ made' = made
    BY <1>4 DEF SaveGit
  <2>3. QED BY <1>1, <2>1, <2>2, HoldsWrite
<1>5. CASE SkipDisabled(p)
  <2> DEFINE r == [proc[p] EXCEPT !.pc = "returned", !.result = 0]
  <2>1. Holds(r)
    BY <1>5, <1>1, <1>2 DEF SkipDisabled, Holds, ProcStates
  <2>2. proc' = [proc EXCEPT ![p] = r] /\ made' = made
    BY <1>5 DEF SkipDisabled, Return
  <2>3. QED BY <1>1, <2>1, <2>2, HoldsWrite
<1>6. CASE MissDependency(p)
  <2> DEFINE r == [proc[p] EXCEPT !.pc = "failing"]
  <2>1. Holds(r)
    BY <1>6, <1>1, <1>2 DEF MissDependency, Holds, ProcStates
  <2>2. proc' = [proc EXCEPT ![p] = r] /\ made' = made
    BY <1>6 DEF MissDependency, GoTo
  <2>3. QED BY <1>1, <2>1, <2>2, HoldsWrite
<1>7. CASE ReuseOwn(p)
  <2> DEFINE m == manifest[proc[p].exp][proc[p].cur]
             r == [proc[p] EXCEPT !.pc = "returned", !.result = m.out]
  <2>1. /\ proc[p].exp \in Exps /\ proc[p].cur \in Stages
        /\ m.status = "COMPLETED"
    BY <1>7 DEF ReuseOwn, AtStage, OwnHit, IsReusable, Typed, ControlOK, Controlled
  <2>2. Produced(proc[p].cur, m.out)
    BY <2>1 DEF ProvenanceInv, Provenance, BackedBy, Produced
  <2>3. Holds(r)
    BY <1>1, <1>2, <2>2 DEF Holds, ProcStates
  <2>4. proc' = [proc EXCEPT ![p] = r] /\ made' = made
    BY <1>7 DEF ReuseOwn, Return
  <2>5. QED BY <1>1, <2>3, <2>4, HoldsWrite
<1>8. CASE ReuseOther(p)
  <2>1. PICK e \in Exps :
          /\ manifest[e][proc[p].cur].status = "COMPLETED"
          /\ Return(p, manifest[e][proc[p].cur].out)
    BY <1>8 DEF ReuseOther, ReusableFrom, IsReusable
  <2> DEFINE m == manifest[e][proc[p].cur]
             r == [proc[p] EXCEPT !.pc = "returned", !.result = m.out]
  <2>2. Produced(proc[p].cur, m.out)
    BY <1>8, <2>1 DEF ReuseOther, AtStage, ProvenanceInv, Provenance, BackedBy, Produced
  <2>3. Holds(r)
    BY <1>1, <1>2, <2>2 DEF Holds, ProcStates
  <2>4. proc' = [proc EXCEPT ![p] = r] /\ made' = made
    BY <1>8, <2>1 DEF ReuseOther, Return
  <2>5. QED BY <1>1, <2>3, <2>4, HoldsWrite
<1>9. CASE BeginStage(p)
  <2> DEFINE r == [proc[p] EXCEPT !.pc = "adapter"]
  <2>1. Holds(r)
    BY <1>9, <1>1, <1>2 DEF BeginStage, AtStage, Holds, ProcStates
  <2>2. proc' = [proc EXCEPT ![p] = r] /\ made' = made
    BY <1>9 DEF BeginStage, GoTo
  <2>3. QED BY <1>1, <2>1, <2>2, HoldsWrite
<1>10. CASE Advance(p)
  <2> DEFINE r == [proc[p] EXCEPT !.pc = "loop",
                                  !.up = [proc[p].up EXCEPT ![proc[p].cur] = proc[p].result],
                                  !.result = 0, !.cur = proc[p].cur + 1]
  <2>1. r.pc = "loop" /\ r.up = [proc[p].up EXCEPT ![proc[p].cur] = proc[p].result]
    BY <1>1 DEF ProcStates
  <2>2. ASSUME NEW s \in Stages, r.up[s] # 0 PROVE Produced(s, r.up[s])
    BY <1>10, <1>1, <1>2, <2>1, <2>2 DEF Advance, Holds, ProcStates, Outputs
  <2>3. Holds(r)
    BY <2>1, <2>2 DEF Holds
  <2>4. proc' = [proc EXCEPT ![p] = r] /\ made' = made
    BY <1>10 DEF Advance
  <2>5. QED BY <1>1, <2>3, <2>4, HoldsWrite
<1>11. CASE AdapterFails(p)
  <2> DEFINE r == [proc[p] EXCEPT !.pc = "failing"]
  <2>1. Holds(r)
    BY <1>11, <1>1, <1>2 DEF AdapterFails, Holds, ProcStates
  <2>2. proc' = [proc EXCEPT ![p] = r] /\ made' = made
    BY <1>11 DEF AdapterFails, GoTo
  <2>3. QED BY <1>1, <2>1, <2>2, HoldsWrite
<1>12. CASE Interrupt(p)
  <2> DEFINE r == [proc[p] EXCEPT !.pc = "cancelling", !.signalled = TRUE]
  <2>1. Holds(r)
    BY <1>12, <1>1, <1>2 DEF Interrupt, Holds, ProcStates
  <2>2. proc' = [proc EXCEPT ![p] = r] /\ made' = made
    BY <1>12 DEF Interrupt
  <2>3. QED BY <1>1, <2>1, <2>2, HoldsWrite
<1>13. CASE InterruptSwallowed(p)
  <2> DEFINE r == [proc[p] EXCEPT !.pc = "failing", !.signalled = TRUE]
  <2>1. Holds(r)
    BY <1>13, <1>1, <1>2 DEF InterruptSwallowed, Holds, ProcStates
  <2>2. proc' = [proc EXCEPT ![p] = r] /\ made' = made
    BY <1>13 DEF InterruptSwallowed
  <2>3. QED BY <1>1, <2>1, <2>2, HoldsWrite
<1>14. CASE MarkCancelled(p)
  <2> DEFINE r == [proc[p] EXCEPT !.pc = "interrupting"]
  <2>1. Holds(r)
    BY <1>14, <1>1, <1>2 DEF MarkCancelled, Holds, ProcStates
  <2>2. proc' = [proc EXCEPT ![p] = r] /\ made' = made
    BY <1>14 DEF MarkCancelled, GoTo
  <2>3. QED BY <1>1, <2>1, <2>2, HoldsWrite
<1>15. CASE MarkFailed(p)
  <2> DEFINE r == [proc[p] EXCEPT !.pc = "blocking",
                                  !.todo = {s \in Stages : /\ s # proc[p].cur
                                                           /\ proc[p].up[s] = 0
                                                           /\ Enabled(p, s)}]
  <2>1. Holds(r)
    BY <1>15, <1>1, <1>2 DEF MarkFailed, Holds, ProcStates
  <2>2. proc' = [proc EXCEPT ![p] = r] /\ made' = made
    BY <1>15 DEF MarkFailed
  <2>3. QED BY <1>1, <2>1, <2>2, HoldsWrite
<1>16. CASE FinalizeRead(p)
  <2> DEFINE r == [proc[p] EXCEPT !.pc = "recording", !.seen = expStatus[proc[p].exp]]
  <2>1. Holds(r)
    BY <1>16, <1>1, <1>2 DEF FinalizeRead, Holds, ProcStates
  <2>2. proc' = [proc EXCEPT ![p] = r] /\ made' = made
    BY <1>16 DEF FinalizeRead
  <2>3. QED BY <1>1, <2>1, <2>2, HoldsWrite
<1>17. CASE RecordStageRuns(p)
  <2> DEFINE r == [proc[p] EXCEPT !.pc = "completing"]
  <2>1. Holds(r)
    BY <1>17, <1>1, <1>2 DEF RecordStageRuns, Holds, ProcStates
  <2>2. proc' = [proc EXCEPT ![p] = r] /\ made' = made
    BY <1>17 DEF RecordStageRuns, GoTo
  <2>3. QED BY <1>1, <2>1, <2>2, HoldsWrite
<1>18. CASE InterruptRun(p)
  BY <1>18, <1>1, HoldsIdle, HoldsWrite DEF InterruptRun, Leave
<1>19. CASE FailRun(p)
  BY <1>19, <1>1, HoldsIdle, HoldsWrite DEF FailRun, Leave
<1>20. CASE CompleteRun(p)
  BY <1>20, <1>1, HoldsIdle, HoldsWrite DEF CompleteRun, Leave
<1>21. CASE PolicyRefuses(p)
  BY <1>21, <1>1, HoldsIdle, HoldsWrite DEF PolicyRefuses, Leave
<1>22. CASE Die(p)
  BY <1>22, <1>1, HoldsIdle, HoldsWrite DEF Die, Leave
<1>23. CASE BlockStage(p)
  <2>1. PICK s \in proc[p].todo :
          proc' = [proc EXCEPT ![p].todo = proc[p].todo \ {s}]
    BY <1>23 DEF BlockStage
  <2> DEFINE r == [proc[p] EXCEPT !.todo = proc[p].todo \ {s}]
  <2>2. Holds(r)
    BY <1>1, <1>2 DEF Holds, ProcStates
  <2>3. proc' = [proc EXCEPT ![p] = r] /\ made' = made
    BY <1>23, <2>1 DEF BlockStage
  <2>4. QED BY <1>1, <2>2, <2>3, HoldsWrite
<1>24. CASE StartRun(p)
  <2>1. CASE Refused(p, "running")
    BY <1>24, <1>1, <2>1, HoldsIdle, HoldsWrite DEF StartRun, Leave
  <2>2. CASE ~Refused(p, "running")
    <3> DEFINE r == [proc[p] EXCEPT !.pc = IF proc[p].pc = "starting" THEN "saving"
                                           ELSE "checking"]
    <3>1. Holds(r)
      BY <1>1, <1>2 DEF Holds, ProcStates
    <3>2. proc' = [proc EXCEPT ![p] = r] /\ made' = made
      BY <1>24, <2>2 DEF StartRun, GoTo
    <3>3. QED BY <1>1, <3>1, <3>2, HoldsWrite
  <2>3. QED BY <2>1, <2>2
<1>25. CASE Create(p) \/ Resume(p)
  <2>1. PICK e \in Exps, plan \in Plans \cup {NoPlan},
             pc \in {"configuring", "checking", "restarting"} : Invoke(p, e, pc, plan)
    BY <1>25 DEF Create, Resume, Typed, TypeOK
  <2>2. PICK ver \in Versions, force \in ForceTargets :
          proc' = [proc EXCEPT ![p] =
                     [Idle EXCEPT !.pc = pc, !.exp = e, !.plan = plan, !.ver = ver,
                                  !.force = force, !.born = Len(made)]]
    BY <2>1 DEF Invoke
  <2> DEFINE r == [Idle EXCEPT !.pc = pc, !.exp = e, !.plan = plan, !.ver = ver,
                               !.force = force, !.born = Len(made)]
  <2>3. Holds(r)
    BY DEF Holds, Idle
  <2>4. made' = made
    BY <1>25 DEF Create, Resume
  <2>5. QED BY <1>1, <2>2, <2>3, <2>4, HoldsWrite
<1>26. QED
  BY <1>3, <1>4, <1>5, <1>6, <1>7, <1>8, <1>9, <1>10, <1>11, <1>12, <1>13, <1>14,
     <1>15, <1>16, <1>17, <1>18, <1>19, <1>20, <1>21, <1>22, <1>23, <1>24, <1>25
  DEF Step, Trouble

\* No step but an adapter's success makes a manifest COMPLETED that was not so already,
\* for the same stage, in some experiment.
LEMMA CompletedStep ==
  ASSUME Typed, NEW p \in Procs,
         Create(p) \/ Resume(p) \/ Step(p) \/ Trouble(p), ~AdapterSucceeds(p),
         NEW e \in Exps, NEW s \in Stages, manifest'[e][s].status = "COMPLETED"
  PROVE  \E f \in Exps : manifest'[e][s] = manifest[f][s]
<1>1. /\ manifest \in [Exps -> [Stages -> Manifests]]
      /\ Controlled(proc[p])
      /\ proc[p] \in ProcStates
  BY DEF Typed, TypeOK, ControlOK
<1>2. ASSUME NEW c \in Stages, NEW m, m.status # "COMPLETED", WriteManifest(p, c, m)
      PROVE  manifest'[e][s] = manifest[e][s]
  BY <1>1, <1>2 DEF WriteManifest
<1>3. CASE SkipDisabled(p)
  BY <1>2, <1>3 DEF SkipDisabled, Bare
<1>4. CASE BeginStage(p)
  BY <1>2, <1>4 DEF BeginStage, AtStage
<1>5. ASSUME NEW status \in {"CANCELLED", "FAILED"}, proc[p].exp \in Exps,
             proc[p].cur \in Stages
      PROVE  Settled(p, status).status # "COMPLETED"
  BY <1>1, <1>5 DEF Settled, Bare, Manifests
<1>6. CASE MarkCancelled(p) \/ MarkFailed(p)
  BY <1>1, <1>2, <1>5, <1>6 DEF MarkCancelled, MarkFailed, Controlled
<1>7. CASE BlockStage(p)
  BY <1>1, <1>2, <1>7 DEF BlockStage, Bare, ProcStates
<1>8. CASE ReuseOther(p)
  <2>1. PICK f \in ReusableFrom(p) :
          WriteManifest(p, proc[p].cur,
                        [status |-> "COMPLETED", key |-> StageKey(p),
                         out |-> manifest[f][proc[p].cur].out])
    BY <1>8 DEF ReuseOther
  <2>2. f \in Exps /\ proc[p].cur \in Stages
    BY <1>8, <2>1 DEF ReuseOther, AtStage, ReusableFrom
  <2>3. manifest[f][proc[p].cur] = [status |-> "COMPLETED", key |-> StageKey(p),
                                    out |-> manifest[f][proc[p].cur].out]
    BY <1>1, <2>1, <2>2, ReuseRecord
  <2>4. WriteManifest(p, proc[p].cur, manifest[f][proc[p].cur])
    BY <2>1, <2>3
  <2>5. QED BY <1>1, <2>2, <2>4 DEF WriteManifest
<1>9. CASE UNCHANGED manifest
  BY <1>9
<1>10. QED
  BY <1>3, <1>4, <1>6, <1>7, <1>8, <1>9
  DEF Create, Resume, Step, Trouble, WriteResolvedConfig, StartRun, SaveGit, MissDependency,
      ReuseOwn, Advance, InterruptRun, FailRun, FinalizeRead, RecordStageRuns, CompleteRun,
      PolicyRefuses, AdapterFails, Interrupt, InterruptSwallowed, Die

\* An adapter's success adds an execution whose inputs are produced, and a manifest
\* backed by that execution or, for a deterministic stage, by an equal earlier one.
LEMMA ProvenanceAdapter ==
  ASSUME Typed, ProvenanceInv, NEW p \in Procs, AdapterSucceeds(p)
  PROVE  ProvenanceInv'
<1> DEFINE k == StageKey(p)
<1>1. /\ proc \in [Procs -> ProcStates]
      /\ proc[p] \in ProcStates
      /\ manifest \in [Exps -> [Stages -> Manifests]]
      /\ made \in Seq(Keys)
      /\ Len(made) \in Nat
  BY DEF Typed, TypeOK
<1>2. /\ proc[p].pc = "adapter"
      /\ proc[p].exp \in Exps
      /\ proc[p].cur \in Stages
      /\ k \in Keys
  BY KeyType DEF AdapterSucceeds, Typed, ControlOK, Controlled
<1>3. PICK out \in 1..(Len(made) + 1) :
        /\ IF proc[p].cur \in Deterministic /\ SameWork(p) # {}
           THEN out \in SameWork(p) /\ made' = made
           ELSE out = Len(made) + 1 /\ made' = Append(made, k)
        /\ WriteManifest(p, proc[p].cur, [status |-> "COMPLETED", key |-> k, out |-> out])
        /\ Return(p, out)
  BY DEF AdapterSucceeds
<1>4. /\ Len(made') \in Nat
      /\ Len(made') = Len(made) \/ (Len(made') = Len(made) + 1 /\ made'[Len(made) + 1] = k)
      /\ \A i \in 1..Len(made) : i \in 1..Len(made') /\ made'[i] = made[i]
  <2>1. CASE made' = made
    BY <1>1, <2>1
  <2>2. CASE made' = Append(made, k)
    <3> HIDE DEF k
    <3> QED BY <1>1, <1>2, <2>2
  <2>3. QED BY <1>3, <2>1, <2>2
<1>5. /\ k.stage = proc[p].cur
      /\ \A d \in Requires[proc[p].cur] : k.inputs[d] = proc[p].up[d]
  BY <1>2, RequiresAssumption DEF StageKey, KeyOf
<1>6. /\ out \in 1..Len(made')
      /\ made'[out].stage = proc[p].cur
      /\ made'[out].inputs = k.inputs
      /\ made'[out].setting = k.setting
  BY <1>1, <1>2, <1>3, <1>4, <1>5 DEF SameWork
<1>7. ASSUME NEW e \in Exps, NEW s \in Stages, manifest'[e][s].status = "COMPLETED"
      PROVE  BackedBy(s, manifest[e][s])'
  <2>1. CASE e = proc[p].exp /\ s = proc[p].cur
    <3>1. manifest'[e][s] = [status |-> "COMPLETED", key |-> k, out |-> out]
      BY <1>1, <1>2, <1>3, <2>1 DEF WriteManifest
    <3>2. QED BY <1>6, <2>1, <3>1 DEF BackedBy
  <2>2. CASE ~(e = proc[p].exp /\ s = proc[p].cur)
    <3>1. manifest'[e][s] = manifest[e][s]
      BY <1>1, <1>2, <1>3, <2>2 DEF WriteManifest
    <3>2. BackedBy(s, manifest[e][s])
      BY <1>7, <3>1 DEF ProvenanceInv, Provenance
    <3>3. QED BY <1>4, <3>1, <3>2 DEF BackedBy
  <2>3. QED BY <2>1, <2>2
<1>8. ASSUME NEW i \in 1..Len(made'), NEW d \in Requires[made'[i].stage]
      PROVE  /\ made'[i].inputs[d] \in 1..(i - 1)
             /\ made'[made'[i].inputs[d]].stage = d
  <2>1. CASE i \in 1..Len(made)
    <3>1. made'[i] = made[i]
      BY <1>4, <2>1
    <3>2. /\ made[i].inputs[d] \in 1..(i - 1)
          /\ made[made[i].inputs[d]].stage = d
      BY <1>8, <2>1, <3>1 DEF ProvenanceInv, Provenance
    <3>3. made[i].inputs[d] \in 1..Len(made)
      BY <1>1, <2>1, <3>2
    <3>4. QED BY <1>4, <3>1, <3>2, <3>3
  <2>2. CASE i \notin 1..Len(made)
    <3>1. i = Len(made) + 1 /\ made'[i] = k
      BY <1>1, <1>4, <2>2
    <3>2. d \in Requires[proc[p].cur] /\ d \in Stages
      BY <1>2, <1>5, <1>8, <3>1, RequiresAssumption
    <3>3. Produced(d, proc[p].up[d])
      BY <1>2, <3>2 DEF ProvenanceInv, Holds
    <3>4. QED BY <1>1, <1>4, <1>5, <3>1, <3>2, <3>3 DEF Produced
  <2>3. QED BY <2>1, <2>2
<1>9. ASSUME NEW q \in Procs PROVE Holds(proc[q])'
  <2>1. Holds(proc[q])
    BY DEF ProvenanceInv
  <2>2. \A s \in Stages, n \in Nat : Produced(s, n) => Produced(s, n)'
    BY <1>4 DEF Produced
  <2>3. proc[q] \in ProcStates /\ proc[q].up \in Outputs
    BY <1>1 DEF ProcStates
  <2>4. CASE q # p
    <3>1. proc'[q] = proc[q]
      BY <1>1, <1>3, <2>4 DEF Return
    <3>2. proc[q].pc = "returned" => proc[q].cur \in Stages
      BY DEF Typed, ControlOK, Controlled
    <3>3. proc[q].result \in Nat /\ \A s \in Stages : proc[q].up[s] \in Nat
      BY <2>3 DEF ProcStates, Outputs
    <3>4. QED BY <2>1, <2>2, <3>1, <3>2, <3>3 DEF Holds
  <2>5. CASE q = p
    <3>1. /\ proc'[q].up = proc[q].up
          /\ proc'[q].cur = proc[q].cur
          /\ proc'[q].result = out
          /\ proc'[q].pc = "returned"
      BY <1>1, <1>3, <2>3, <2>5 DEF Return, ProcStates
    <3>2. \A s \in Stages : proc[q].up[s] \in Nat
      BY <2>3 DEF Outputs
    <3>3. Produced(proc[q].cur, out)'
      BY <1>6, <2>5, <3>1 DEF Produced
    <3>4. \A s \in Stages : proc[q].up[s] # 0 => Produced(s, proc[q].up[s])'
      BY <2>1, <2>2, <3>1, <3>2 DEF Holds, Produced
    <3>5. QED BY <3>1, <3>3, <3>4 DEF Holds
  <2>6. QED BY <2>4, <2>5
<1>10. QED BY <1>7, <1>8, <1>9 DEF ProvenanceInv, Provenance

LEMMA ProvenanceStep == Typed /\ ProvenanceInv /\ [Next]_vars => ProvenanceInv'
<1> SUFFICES ASSUME Typed, ProvenanceInv, [Next]_vars PROVE ProvenanceInv'
  OBVIOUS
<1>1. CASE UNCHANGED vars
  BY <1>1 DEF vars, ProvenanceInv, Provenance, BackedBy, Holds, Produced
<1>2. ASSUME NEW p \in Procs, Create(p) \/ Resume(p) \/ Step(p) \/ Trouble(p)
      PROVE  ProvenanceInv'
  <2>1. CASE AdapterSucceeds(p)
    BY <2>1, ProvenanceAdapter
  <2>2. CASE ~AdapterSucceeds(p)
    <3>1. made' = made /\ \A q \in Procs : Holds(proc[q])'
      BY <1>2, <2>2, MemoryStep
    <3>2. ASSUME NEW e \in Exps, NEW s \in Stages, manifest'[e][s].status = "COMPLETED"
          PROVE  BackedBy(s, manifest[e][s])'
      <4>1. PICK f \in Exps : manifest'[e][s] = manifest[f][s]
        BY <1>2, <2>2, <3>2, CompletedStep
      <4>2. BackedBy(s, manifest[f][s])
        BY <3>2, <4>1 DEF ProvenanceInv, Provenance
      <4>3. QED BY <3>1, <4>1, <4>2 DEF BackedBy
    <3>3. QED BY <3>1, <3>2 DEF ProvenanceInv, Provenance
  <2>3. QED BY <2>1, <2>2
<1>3. QED BY <1>1, <1>2 DEF Next

\* What a COMPLETED stage shows, reused or not, was really made by that stage from the
\* inputs and the setting of its key, and so were its inputs, back to the first stage:
\* for any number of experiments and processes, even driving one experiment together.
THEOREM ProvenanceHolds == Spec => []Provenance
<1>1. Init => Typed /\ ProvenanceInv
  <2>1. Init => ProvenanceInv
    BY HoldsIdle DEF Init, ProvenanceInv, Provenance, Bare, Holds, Idle
  <2>2. QED BY <2>1, TypedInit
<1>2. Typed /\ ProvenanceInv /\ [Next]_vars => (Typed /\ ProvenanceInv)'
  BY TypedStep, ProvenanceStep
<1>3. Typed /\ ProvenanceInv => Provenance
  BY DEF ProvenanceInv
<1>4. QED BY <1>1, <1>2, <1>3, PTL DEF Spec

-----------------------------------------------------------------------------
(* One driver per experiment: what it assumes is what the disk shows. *)

\* The record of a driver that goes on with the same invocation.
Same(r, q) ==
  /\ r.exp = q.exp /\ r.plan = q.plan /\ r.ver = q.ver /\ r.force = q.force /\ r.born = q.born

Conforms(r, e) == Driving(r, expStatus[e], resolved[e], manifest[e])

\* A process writes only to its own experiment, and there leaves what it assumes, or leaves.
LEMMA DriverWrite ==
  ASSUME Typed, DriverInv, made' \in Seq(Keys), Len(made) <= Len(made'),
         NEW p \in Procs, proc[p].pc # "idle", NEW r \in ProcStates,
         proc' = [proc EXCEPT ![p] = r],
         \A e \in Exps : e # proc[p].exp => /\ expStatus'[e] = expStatus[e]
                                            /\ resolved'[e] = resolved[e]
                                            /\ manifest'[e] = manifest[e],
         \/ r = Idle
         \/ Same(r, proc[p]) /\ Driving(r, expStatus'[r.exp], resolved'[r.exp], manifest'[r.exp]),
         Shape(expStatus'[proc[p].exp], resolved'[proc[p].exp], manifest'[proc[p].exp])
  PROVE  DriverInv'
<1>1. proc \in [Procs -> ProcStates] /\ Len(made) \in Nat /\ Len(made') \in Nat
  BY DEF Typed, TypeOK
<1>2. \A q \in Procs : proc'[q] = IF q = p THEN r ELSE proc[q]
  BY <1>1
<1>3. proc[p].exp \in Exps
  BY DEF Typed, ControlOK, Controlled
<1>4. r.exp = proc[p].exp \/ (r.exp = 0 /\ r.pc = "idle")
  BY DEF Same, Idle
<1>5. r.born \in Nat /\ r.born <= Len(made)
  BY <1>1 DEF DriverInv, Same, Idle, ProcStates
<1>6. ASSUME NEW a \in Procs, NEW b \in Procs, a # b, proc'[a].pc # "idle", proc'[b].pc # "idle"
      PROVE  proc'[a].exp # proc'[b].exp
  <2>1. \A c \in Procs : proc'[c].pc # "idle" => proc[c].pc # "idle" /\ proc'[c].exp = proc[c].exp
    BY <1>2, <1>4
  <2>2. QED BY <1>6, <2>1 DEF DriverInv
<1>7. ASSUME NEW q \in Procs, proc'[q].pc # "idle"
      PROVE  Driving(proc[q], expStatus[proc[q].exp], resolved[proc[q].exp], manifest[proc[q].exp])'
  <2>1. CASE q = p
    BY <1>2, <1>7, <2>1 DEF Idle
  <2>2. CASE q # p
    <3>1. proc'[q] = proc[q] /\ proc[q].pc # "idle" /\ proc[q].exp \in Exps
      BY <1>2, <1>7, <2>2 DEF Typed, ControlOK, Controlled
    <3>2. proc[q].exp # proc[p].exp
      BY <2>2, <3>1 DEF DriverInv
    <3>3. Driving(proc[q], expStatus[proc[q].exp], resolved[proc[q].exp], manifest[proc[q].exp])
      BY <3>1 DEF DriverInv
    <3>4. QED BY <3>1, <3>2, <3>3
  <2>3. QED BY <2>1, <2>2
<1>8. \A q \in Procs : proc'[q].born <= Len(made')
  BY <1>1, <1>2, <1>5 DEF DriverInv, ProcStates
<1>9. \A e \in Exps : Shape(expStatus'[e], resolved'[e], manifest'[e])
  BY DEF DriverInv
<1>10. QED BY <1>6, <1>7, <1>8, <1>9 DEF DriverInv

\* A running experiment has no shape to keep.
LEMMA RunningShape ==
  ASSUME NEW status, status \notin {"completed", "failed", "interrupted"}, NEW plan, NEW m
  PROVE  Shape(status, plan, m)
  BY DEF Shape

\* A process that leaves without a write.
LEMMA DriverLeaves ==
  ASSUME Typed, DriverInv, NEW p \in Procs, proc[p].pc # "idle", Leave(p),
         UNCHANGED <<expStatus, resolved, manifest, made>>
  PROVE  DriverInv'
<1>1. proc[p].exp \in Exps /\ made \in Seq(Keys) /\ Len(made) \in Nat
  BY DEF Typed, TypeOK, ControlOK, Controlled
<1>2. Shape(expStatus'[proc[p].exp], resolved'[proc[p].exp], manifest'[proc[p].exp])
  BY <1>1 DEF DriverInv
<1>3. made' \in Seq(Keys) /\ Len(made) <= Len(made') /\ proc' = [proc EXCEPT ![p] = Idle]
  BY <1>1 DEF Leave
<1>4. QED BY <1>2, <1>3, IdleType, DriverWrite

\* A stage that was done stays done while its manifest and what came before it stay.
LEMMA DoneStays ==
  ASSUME NEW q, NEW r, Same(r, q), NEW m, NEW n, NEW s \in Stages, NEW out, DoneFor(q, m, s, out),
         n[s] = m[s], \A d \in Stages : d < s => r.up[d] = q.up[d]
  PROVE  DoneFor(r, n, s, out)
  BY RequiresAssumption DEF DoneFor, Same, Stages

LEMMA BehindStays ==
  ASSUME NEW q, NEW r, Same(r, q), r.up = q.up, r.cur = q.cur, q.pc \in Working, r.pc \in Working,
         NEW m, NEW n, \A s \in Stages : s < q.cur => n[s] = m[s], Behind(q, m)
  PROVE  Behind(r, n)
<1>1. ASSUME NEW s \in Stages, s < q.cur PROVE DoneFor(r, n, s, r.up[s])
  BY <1>1, DoneStays DEF Behind
<1>2. QED BY <1>1 DEF Behind

\* What an action leaves of the rest, in the words of DriverWrite.
LEMMA DriverGoesOn ==
  ASSUME Typed, DriverInv, NEW p \in Procs, proc[p].pc # "idle", NEW r \in ProcStates,
         proc' = [proc EXCEPT ![p] = r], UNCHANGED resolved,
         made' \in Seq(Keys), Len(made) <= Len(made'),
         NEW status, NEW m,
         expStatus' = [expStatus EXCEPT ![proc[p].exp] = status],
         status \notin {"completed", "failed", "interrupted"},
         manifest' = [manifest EXCEPT ![proc[p].exp] = m],
         Same(r, proc[p]), Driving(r, status, resolved[proc[p].exp], m)
  PROVE  DriverInv'
<1>1. /\ proc[p].exp \in Exps
      /\ DOMAIN expStatus = Exps /\ DOMAIN manifest = Exps
  BY DEF Typed, TypeOK, ControlOK, Controlled
<1>2. expStatus'[proc[p].exp] = status /\ manifest'[proc[p].exp] = m
  BY <1>1
<1>3. Shape(expStatus'[proc[p].exp], resolved'[proc[p].exp], manifest'[proc[p].exp])
  BY <1>2, RunningShape
<1>4. Driving(r, expStatus'[r.exp], resolved'[r.exp], manifest'[r.exp])
  BY <1>2 DEF Same
<1>5. \A e \in Exps : e # proc[p].exp => /\ expStatus'[e] = expStatus[e]
                                         /\ resolved'[e] = resolved[e]
                                         /\ manifest'[e] = manifest[e]
  BY <1>1
<1>6. QED BY <1>3, <1>4, <1>5, DriverWrite

\* The same where the disk and the executions are left alone.
LEMMA DriverThinks ==
  ASSUME Typed, DriverInv, NEW p \in Procs, proc[p].pc # "idle", NEW r \in ProcStates,
         proc' = [proc EXCEPT ![p] = r], UNCHANGED <<expStatus, resolved, manifest, made>>,
         expStatus[proc[p].exp] = "running",
         Same(r, proc[p]), Conforms(r, proc[p].exp)
  PROVE  DriverInv'
<1>1. /\ proc[p].exp \in Exps /\ made \in Seq(Keys) /\ Len(made) \in Nat
      /\ DOMAIN expStatus = Exps /\ DOMAIN manifest = Exps
      /\ expStatus = [e \in Exps |-> expStatus[e]] /\ manifest = [e \in Exps |-> manifest[e]]
  BY DEF Typed, TypeOK, ControlOK, Controlled
<1>2. /\ expStatus' = [expStatus EXCEPT ![proc[p].exp] = "running"]
      /\ manifest' = [manifest EXCEPT ![proc[p].exp] = manifest[proc[p].exp]]
  BY <1>1
<1>3. made' \in Seq(Keys) /\ Len(made) <= Len(made')
  BY <1>1
<1>4. Driving(r, "running", resolved[proc[p].exp], manifest[proc[p].exp])
  BY DEF Conforms
<1>5. QED BY <1>2, <1>3, <1>4, DriverGoesOn

\* What is known of a process that drives.
LEMMA DriverKnows ==
  ASSUME Typed, DriverInv, NEW p \in Procs, proc[p].pc # "idle"
  PROVE  /\ proc[p] \in ProcStates /\ proc[p].exp \in Exps
         /\ Conforms(proc[p], proc[p].exp)
         /\ manifest[proc[p].exp] \in [Stages -> Manifests]
         /\ made \in Seq(Keys) /\ Len(made) \in Nat
         /\ proc[p].cur \in Nat /\ proc[p].up \in Outputs
BY NAssumption DEF Typed, TypeOK, ControlOK, Controlled, DriverInv, Conforms, ProcStates

\* The steps of a driver that leave the disk alone.
LEMMA DriverStepInMemory ==
  ASSUME Typed, ProvenanceInv, DriverInv, NEW p \in Procs,
         \/ MissDependency(p) \/ ReuseOwn(p) \/ AdapterFails(p) \/ Advance(p)
         \/ Interrupt(p) \/ InterruptSwallowed(p) \/ FinalizeRead(p)
  PROVE  DriverInv'
<1> DEFINE q == proc[p]
           e == q.exp
           M == manifest[e]
<1>1. q.pc # "idle" /\ q.pc \in Working /\ UNCHANGED <<expStatus, resolved, manifest, made>>
  BY DEF MissDependency, ReuseOwn, AtStage, AdapterFails, Advance, Interrupt, InterruptSwallowed,
         FinalizeRead, Working
<1>2. /\ q \in ProcStates /\ e \in Exps /\ Conforms(q, e) /\ M \in [Stages -> Manifests]
      /\ q.cur \in Nat /\ q.up \in Outputs
  BY <1>1, DriverKnows
<1>3. expStatus[e] = "running"
  BY <1>1, <1>2 DEF Conforms, Driving, StatusWhile, Working
<1>0. Behind(q, M)
  BY <1>2 DEF Conforms, Driving
<1>4. SUFFICES ASSUME TRUE
      PROVE  \E r \in ProcStates : /\ proc' = [proc EXCEPT ![p] = r]
                                   /\ Same(r, q) /\ Conforms(r, e)
  BY <1>1, <1>3, <1>4, DriverThinks
<1>5. ASSUME NEW pc \in {"failing", "cancelling"}, NEW b \in BOOLEAN,
             proc' = [proc EXCEPT ![p] = [q EXCEPT !.pc = pc, !.signalled = b]]
      PROVE  \E r \in ProcStates : /\ proc' = [proc EXCEPT ![p] = r]
                                   /\ Same(r, q) /\ Conforms(r, e)
  <2> DEFINE r == [q EXCEPT !.pc = pc, !.signalled = b]
  <2>1. r \in ProcStates
    BY <1>2, <1>5, Updates, PCMembers
  <2>2. /\ r.pc = pc /\ r.cur = q.cur /\ r.up = q.up /\ Same(r, q)
    BY <1>2 DEF ProcStates, Same
  <2> HIDE DEF r
  <2>3. Conforms(r, e)
    <3>0. r.pc \in Working
      BY <1>5, <2>2 DEF Working
    <3>1. Behind(r, M)
      BY <1>0, <1>1, <2>2, <3>0, BehindStays
    <3>2. QED BY <1>1, <1>2, <1>3, <1>5, <2>2, <3>1 DEF Conforms, Driving, StatusWhile, Same, Working
  <2>4. QED BY <1>5, <2>1, <2>2, <2>3 DEF r
<1>6. CASE MissDependency(p) \/ AdapterFails(p) \/ Interrupt(p) \/ InterruptSwallowed(p)
  <2>1. \E pc \in {"failing", "cancelling"}, b \in BOOLEAN :
          proc' = [proc EXCEPT ![p] = [q EXCEPT !.pc = pc, !.signalled = b]]
    <3>1. q.signalled \in BOOLEAN /\ q = [q EXCEPT !.signalled = q.signalled]
      BY <1>2 DEF ProcStates
    <3>2. [q EXCEPT !.pc = "failing"] = [q EXCEPT !.pc = "failing", !.signalled = q.signalled]
      BY <1>2 DEF ProcStates
    <3>3. CASE MissDependency(p) \/ AdapterFails(p)
      <4>1. proc' = [proc EXCEPT ![p] = [q EXCEPT !.pc = "failing"]]
        BY <3>3 DEF MissDependency, AdapterFails, GoTo
      <4>2. QED BY <3>1, <3>2, <4>1
    <3>4. CASE Interrupt(p)
      BY <3>4 DEF Interrupt
    <3>5. CASE InterruptSwallowed(p)
      BY <3>5 DEF InterruptSwallowed
    <3>6. QED BY <1>6, <3>3, <3>4, <3>5
  <2>2. QED BY <1>5, <2>1
<1>7. CASE ReuseOwn(p)
  <2> DEFINE out == M[q.cur].out
             r   == [q EXCEPT !.pc = "returned", !.result = out]
  <2>1. /\ q.pc = "loop" /\ q.cur \in Stages /\ q.plan[q.cur] # Off
        /\ \A d \in Requires[q.cur] : q.up[d] # 0
        /\ q.cur \notin q.force
        /\ M[q.cur].status = "COMPLETED" /\ M[q.cur].key = KeyOf(q)
        /\ proc' = [proc EXCEPT ![p] = r]
    BY <1>7 DEF ReuseOwn, AtStage, OwnHit, IsReusable, StageKey, Enabled, Return
  <2>2. out \in Nat /\ out # 0
    BY <1>2, <2>1 DEF ProvenanceInv, Provenance, BackedBy
  <2>3. r \in ProcStates
    BY <1>2, <2>2, Updates, PCMembers
  <2>4. /\ r.pc = "returned" /\ r.cur = q.cur /\ r.up = q.up /\ r.result = out /\ Same(r, q)
    BY <1>2 DEF ProcStates, Same
  <2> HIDE DEF r
  <2>0. r.pc \in Working
    BY <2>4 DEF Working
  <2>5. Behind(r, M)
    BY <1>0, <1>1, <2>0, <2>4, BehindStays
  <2>6. DoneFor(r, M, r.cur, r.result)
    <3>1. \A d \in Requires[q.cur] : d \in Stages /\ M[q.cur].key.inputs[d] = q.up[d]
      BY <2>1, RequiresAssumption DEF KeyOf
    <3>2. M[q.cur].key.setting = q.plan[q.cur] /\ M[q.cur].key.ver = q.ver
      BY <2>1 DEF KeyOf
    <3>3. QED BY <2>1, <2>2, <2>4, <3>1, <3>2 DEF DoneFor, Same
  <2>7. Conforms(r, e)
    BY <1>2, <1>3, <2>1, <2>4, <2>5, <2>6 DEF Conforms, Driving, StatusWhile, Same
  <2>8. QED BY <2>1, <2>3, <2>4, <2>7
<1>8. CASE Advance(p)
  <2> DEFINE r == [q EXCEPT !.pc = "loop", !.up = [q.up EXCEPT ![q.cur] = q.result],
                            !.result = 0, !.cur = q.cur + 1]
  <2>1. /\ q.pc = "returned" /\ q.cur \in Stages /\ q.result \in Nat
        /\ proc' = [proc EXCEPT ![p] = r]
    BY <1>2, <1>8 DEF Advance, Typed, ControlOK, Controlled, ProcStates
  <2>2. q.cur + 1 \in 0..(N + 1) /\ [q.up EXCEPT ![q.cur] = q.result] \in Outputs
    BY <1>2, <2>1, NAssumption DEF Stages, Outputs
  <2>3. r \in ProcStates
    BY <1>2, <2>2, Updates, PCMembers
  <2>4. /\ r.pc = "loop" /\ r.cur = q.cur + 1 /\ r.up = [q.up EXCEPT ![q.cur] = q.result]
        /\ Same(r, q)
    BY <1>2 DEF ProcStates, Same
  <2> HIDE DEF r
  <2>5. \A d \in Stages : r.up[d] = IF d = q.cur THEN q.result ELSE q.up[d]
    BY <1>2, <2>4 DEF Outputs
  <2>6. ASSUME NEW s \in Stages, s < r.cur PROVE DoneFor(r, M, s, r.up[s])
    <3>1. DoneFor(q, M, s, r.up[s])
      BY <1>1, <1>2, <2>1, <2>4, <2>5, <2>6 DEF Conforms, Driving, Behind, Stages
    <3>2. \A d \in Stages : d < s => r.up[d] = q.up[d]
      BY <2>1, <2>4, <2>5, <2>6 DEF Stages
    <3> HIDE DEF M, q
    <3>3. QED BY <2>4, <2>6, <3>1, <3>2, DoneStays
  <2>7. ASSUME NEW s \in Stages, ~(s < r.cur) PROVE r.up[s] = 0
    BY <1>1, <1>2, <2>1, <2>4, <2>5, <2>7 DEF Conforms, Driving, Behind, Stages
  <2>8. Conforms(r, e)
    BY <1>2, <1>3, <2>1, <2>4, <2>6, <2>7
    DEF Conforms, Driving, Behind, StatusWhile, Same, Working
  <2>9. QED BY <2>1, <2>3, <2>4, <2>8
<1>9. CASE FinalizeRead(p)
  <2> DEFINE r == [q EXCEPT !.pc = "recording", !.seen = expStatus[e]]
  <2>1. q.pc = "loop" /\ q.cur = N + 1 /\ proc' = [proc EXCEPT ![p] = r]
    BY <1>9 DEF FinalizeRead
  <2>2. expStatus[e] \in EXPERIMENT_STATUSES \cup {"none"}
    BY <1>3 DEF EXPERIMENT_STATUSES
  <2>3. r \in ProcStates
    BY <1>2, <2>2, Updates, PCMembers
  <2>4. /\ r.pc = "recording" /\ r.cur = q.cur /\ r.up = q.up /\ r.seen = "running" /\ Same(r, q)
    BY <1>2, <1>3 DEF ProcStates, Same
  <2> HIDE DEF r
  <2>0. r.pc \in Working
    BY <2>4 DEF Working
  <2>5. Behind(r, M)
    BY <1>0, <1>1, <2>0, <2>4, BehindStays
  <2>6. Conforms(r, e)
    BY <1>2, <1>3, <2>1, <2>4, <2>5 DEF Conforms, Driving, StatusWhile, Same
  <2>7. QED BY <2>1, <2>3, <2>4, <2>6
<1>10. QED BY <1>6, <1>7, <1>8, <1>9

\* m is n but for stage s, which is x.
Replaced(m, n, s, x) == m[s] = x /\ \A t \in Stages : t # s => m[t] = n[t]

\* The steps of a driver that write one stage manifest and go on.
LEMMA DriverStepOnDisk ==
  ASSUME Typed, ProvenanceInv, DriverInv, Typed', NEW p \in Procs,
         \/ SkipDisabled(p) \/ ReuseOther(p) \/ BeginStage(p) \/ AdapterSucceeds(p)
         \/ MarkCancelled(p) \/ MarkFailed(p) \/ BlockStage(p)
  PROVE  DriverInv'
<1> DEFINE q == proc[p]
           e == q.exp
           M == manifest[e]
<1>1. q.pc # "idle" /\ q.pc \in Working /\ UNCHANGED <<expStatus, resolved>>
  BY DEF SkipDisabled, ReuseOther, BeginStage, AtStage, AdapterSucceeds, MarkCancelled, MarkFailed,
         BlockStage, Working
<1>2. /\ q \in ProcStates /\ e \in Exps /\ Conforms(q, e) /\ M \in [Stages -> Manifests]
      /\ q.cur \in Nat /\ q.up \in Outputs /\ made \in Seq(Keys) /\ Len(made) \in Nat
  BY <1>1, DriverKnows
<1>3. expStatus[e] = "running" /\ Behind(q, M)
  BY <1>1, <1>2 DEF Conforms, Driving, StatusWhile, Working
<1>4. made' \in Seq(Keys) /\ Len(made) <= Len(made')
  <2>1. made' \in Seq(Keys)
    BY DEF Typed, TypeOK
  <2>2. made' = made \/ made' = Append(made, StageKey(p))
    BY DEF SkipDisabled, ReuseOther, BeginStage, AdapterSucceeds, MarkCancelled, MarkFailed,
           BlockStage
  <2> HIDE DEF q, e, M
  <2>3. QED BY <1>2, <2>1, <2>2
<1>5. ASSUME NEW s \in Stages, NEW x, WriteManifest(p, s, x),
             NEW r \in ProcStates, proc' = [proc EXCEPT ![p] = r], Same(r, q),
             \A m : Replaced(m, M, s, x) => Driving(r, "running", resolved[e], m)
      PROVE  DriverInv'
  <2> DEFINE m == [M EXCEPT ![s] = x]
  <2>1. manifest' = [manifest EXCEPT ![e] = m]
    BY <1>5 DEF WriteManifest
  <2>2. expStatus' = [expStatus EXCEPT ![e] = "running"]
    BY <1>1, <1>2, <1>3 DEF Typed, TypeOK
  <2>3. Replaced(m, M, s, x)
    BY <1>2 DEF Replaced
  <2> HIDE DEF m
  <2>4. Driving(r, "running", resolved[e], m)
    BY <1>5, <2>3
  <2>5. QED BY <1>1, <1>4, <1>5, <2>1, <2>2, <2>4, DriverGoesOn
<1>6. CASE SkipDisabled(p)
  <2> DEFINE r == [q EXCEPT !.pc = "returned", !.result = 0]
  <2>1. /\ q.pc = "loop" /\ q.cur \in Stages /\ q.plan[q.cur] = Off
        /\ WriteManifest(p, q.cur, Bare("SKIPPED"))
        /\ proc' = [proc EXCEPT ![p] = r]
    BY <1>6 DEF SkipDisabled, Enabled, Return
  <2>2. r \in ProcStates
    BY <1>2, Updates, PCMembers
  <2>3. /\ r.pc = "returned" /\ r.cur = q.cur /\ r.up = q.up /\ r.result = 0 /\ Same(r, q)
        /\ r.pc \in Working
    BY <1>2 DEF ProcStates, Same, Working
  <2> HIDE DEF r
  <2>4. ASSUME NEW m, Replaced(m, M, q.cur, Bare("SKIPPED"))
        PROVE  Driving(r, "running", resolved[e], m)
    <3>1. \A t \in Stages : t < q.cur => m[t] = M[t]
      BY <2>1, <2>4 DEF Stages, Replaced
    <3>2. Behind(r, m)
      BY <1>1, <1>3, <2>3, <3>1, BehindStays
    <3>3. DoneFor(r, m, r.cur, r.result)
      BY <2>1, <2>3, <2>4 DEF DoneFor, Same, Bare, Replaced
    <3>4. QED BY <1>2, <2>1, <2>3, <3>2, <3>3 DEF Conforms, Driving, StatusWhile, Same
  <2>5. QED BY <1>5, <2>1, <2>2, <2>3, <2>4
<1>7. CASE ReuseOther(p)
  <2>1. PICK f \in ReusableFrom(p) :
          /\ WriteManifest(p, q.cur, [status |-> "COMPLETED", key |-> StageKey(p),
                                       out |-> manifest[f][q.cur].out])
          /\ Return(p, manifest[f][q.cur].out)
    BY <1>7 DEF ReuseOther
  <2> DEFINE out == manifest[f][q.cur].out
             r   == [q EXCEPT !.pc = "returned", !.result = out]
             x   == [status |-> "COMPLETED", key |-> KeyOf(q), out |-> out]
  <2>2. /\ q.pc = "loop" /\ q.cur \in Stages /\ q.plan[q.cur] # Off
        /\ \A d \in Requires[q.cur] : q.up[d] # 0
        /\ q.cur \notin q.force
        /\ WriteManifest(p, q.cur, x)
        /\ proc' = [proc EXCEPT ![p] = r]
    BY <1>7, <2>1 DEF ReuseOther, AtStage, StageKey, Enabled, Return
  <2>3. out \in Nat /\ out # 0
    BY <1>2, <2>1, <2>2 DEF ReusableFrom, IsReusable, ProvenanceInv, Provenance, BackedBy
  <2>4. r \in ProcStates
    BY <1>2, <2>3, Updates, PCMembers
  <2>5. /\ r.pc = "returned" /\ r.cur = q.cur /\ r.up = q.up /\ r.result = out /\ Same(r, q)
        /\ r.pc \in Working
    BY <1>2 DEF ProcStates, Same, Working
  <2> HIDE DEF r
  <2>6. ASSUME NEW m, Replaced(m, M, q.cur, x)
        PROVE  Driving(r, "running", resolved[e], m)
    <3>1. \A t \in Stages : t < q.cur => m[t] = M[t]
      BY <2>2, <2>6 DEF Stages, Replaced
    <3>2. Behind(r, m)
      BY <1>1, <1>3, <2>5, <3>1, BehindStays
    <3>3. DoneFor(r, m, r.cur, r.result)
      <4>1. \A d \in Requires[q.cur] : d \in Stages /\ KeyOf(q).inputs[d] = q.up[d]
        BY <2>2, RequiresAssumption DEF KeyOf
      <4>2. KeyOf(q).setting = q.plan[q.cur] /\ KeyOf(q).ver = q.ver
        BY DEF KeyOf
      <4>3. m[q.cur].status = "COMPLETED" /\ m[q.cur].key = KeyOf(q) /\ m[q.cur].out = out
        BY <2>6 DEF Replaced
      <4> HIDE DEF out, x
      <4>4. QED BY <2>2, <2>3, <2>5, <4>1, <4>2, <4>3 DEF DoneFor, Same
    <3>4. QED BY <1>2, <2>2, <2>5, <3>2, <3>3 DEF Conforms, Driving, StatusWhile, Same
  <2>7. QED BY <1>5, <2>2, <2>4, <2>5, <2>6
<1>8. CASE BeginStage(p)
  <2> DEFINE r == [q EXCEPT !.pc = "adapter"]
             x == [status |-> "RUNNING", key |-> KeyOf(q), out |-> 0]
  <2>1. /\ q.pc = "loop" /\ q.cur \in Stages /\ q.plan[q.cur] # Off
        /\ \A d \in Requires[q.cur] : q.up[d] # 0
        /\ WriteManifest(p, q.cur, x)
        /\ proc' = [proc EXCEPT ![p] = r]
    BY <1>8 DEF BeginStage, AtStage, StageKey, Enabled, GoTo
  <2>2. r \in ProcStates
    BY <1>2, Updates, PCMembers
  <2>3. /\ r.pc = "adapter" /\ r.cur = q.cur /\ r.up = q.up /\ Same(r, q)
        /\ r.pc \in Working /\ KeyOf(r) = KeyOf(q)
    BY <1>2 DEF ProcStates, Same, Working, KeyOf
  <2> HIDE DEF r
  <2>4. ASSUME NEW m, Replaced(m, M, q.cur, x)
        PROVE  Driving(r, "running", resolved[e], m)
    <3>1. \A t \in Stages : t < q.cur => m[t] = M[t]
      BY <2>1, <2>4 DEF Stages, Replaced
    <3>2. Behind(r, m)
      BY <1>1, <1>3, <2>3, <3>1, BehindStays
    <3>3. m[r.cur].status = "RUNNING" /\ m[r.cur].key = KeyOf(r)
      BY <2>3, <2>4 DEF Replaced
    <3>4. QED BY <1>2, <2>1, <2>3, <3>2, <3>3 DEF Conforms, Driving, StatusWhile, Same
  <2>5. QED BY <1>5, <2>1, <2>2, <2>3, <2>4
<1>9. CASE AdapterSucceeds(p)
  <2>1. PICK out \in 1..(Len(made) + 1) :
          /\ q.cur \notin Deterministic => out = Len(made) + 1
          /\ WriteManifest(p, q.cur, [status |-> "COMPLETED", key |-> StageKey(p), out |-> out])
          /\ Return(p, out)
    BY <1>9 DEF AdapterSucceeds
  <2> DEFINE r == [q EXCEPT !.pc = "returned", !.result = out]
             x == [status |-> "COMPLETED", key |-> KeyOf(q), out |-> out]
  <2>2. /\ q.pc = "adapter" /\ q.cur \in Stages
        /\ WriteManifest(p, q.cur, x)
        /\ proc' = [proc EXCEPT ![p] = r]
    BY <1>9, <2>1 DEF AdapterSucceeds, StageKey, Return, Typed, ControlOK, Controlled
  <2>3. out \in Nat /\ out # 0 /\ q.born <= Len(made) /\ q.born \in Nat
    BY <1>2, <2>1 DEF DriverInv, ProcStates
  <2>4. r \in ProcStates
    BY <1>2, <2>3, Updates, PCMembers
  <2>5. /\ r.pc = "returned" /\ r.cur = q.cur /\ r.up = q.up /\ r.result = out /\ Same(r, q)
        /\ r.pc \in Working
    BY <1>2 DEF ProcStates, Same, Working
  <2> HIDE DEF r
  <2>6. q.plan[q.cur] # Off /\ \A d \in Requires[q.cur] : q.up[d] # 0
    BY <1>2, <2>2 DEF Conforms, Driving
  <2>7. ASSUME NEW m, Replaced(m, M, q.cur, x)
        PROVE  Driving(r, "running", resolved[e], m)
    <3>1. \A t \in Stages : t < q.cur => m[t] = M[t]
      BY <2>2, <2>7 DEF Stages, Replaced
    <3>2. Behind(r, m)
      BY <1>1, <1>3, <2>5, <3>1, BehindStays
    <3>3. DoneFor(r, m, r.cur, r.result)
      <4>1. \A d \in Requires[q.cur] : d \in Stages /\ KeyOf(q).inputs[d] = q.up[d]
        BY <2>2, RequiresAssumption DEF KeyOf
      <4>2. KeyOf(q).setting = q.plan[q.cur] /\ KeyOf(q).ver = q.ver
        BY DEF KeyOf
      <4>3. m[q.cur].status = "COMPLETED" /\ m[q.cur].key = KeyOf(q) /\ m[q.cur].out = out
        BY <2>7 DEF Replaced
      <4>4. q.cur \notin Deterministic => out > q.born
        BY <1>2, <2>1, <2>3
      <4> HIDE DEF x
      <4>5. QED BY <2>3, <2>5, <2>6, <4>1, <4>2, <4>3, <4>4 DEF DoneFor, Same
    <3>4. QED BY <1>2, <2>2, <2>5, <3>2, <3>3 DEF Conforms, Driving, StatusWhile, Same
  <2>8. QED BY <1>5, <2>2, <2>4, <2>5, <2>7
<1>10. CASE MarkCancelled(p)
  <2> DEFINE r == [q EXCEPT !.pc = "interrupting"]
             x == Settled(p, "CANCELLED")
  <2>1. /\ q.pc = "cancelling" /\ q.cur \in Stages /\ WriteManifest(p, q.cur, x)
        /\ proc' = [proc EXCEPT ![p] = r]
    BY <1>10 DEF MarkCancelled, GoTo, Typed, ControlOK, Controlled
  <2>2. r \in ProcStates
    BY <1>2, Updates, PCMembers
  <2>3. /\ r.pc = "interrupting" /\ r.cur = q.cur /\ r.up = q.up /\ Same(r, q)
        /\ r.pc \in Working
    BY <1>2 DEF ProcStates, Same, Working
  <2>4. x.status = "CANCELLED"
    BY <1>2, <2>1 DEF Settled, Bare, Manifests
  <2> HIDE DEF r, x
  <2>5. ASSUME NEW m, Replaced(m, M, q.cur, x)
        PROVE  Driving(r, "running", resolved[e], m)
    <3>1. \A t \in Stages : t < q.cur => m[t] = M[t]
      BY <2>1, <2>5 DEF Stages, Replaced
    <3>2. Behind(r, m)
      BY <1>1, <1>3, <2>3, <3>1, BehindStays
    <3>3. QED BY <1>2, <2>1, <2>3, <2>4, <2>5, <3>2 
          DEF Conforms, Driving, StatusWhile, Same, Replaced
  <2>6. QED BY <1>5, <2>1, <2>2, <2>3, <2>5
<1>11. CASE MarkFailed(p)
  <2> DEFINE T == {s \in Stages : s # q.cur /\ q.up[s] = 0 /\ Enabled(p, s)}
             r == [q EXCEPT !.pc = "blocking", !.todo = T]
             x == Settled(p, "FAILED")
  <2>1. /\ q.pc = "failing" /\ q.cur \in Stages /\ WriteManifest(p, q.cur, x)
        /\ proc' = [proc EXCEPT ![p] = r]
    BY <1>11 DEF MarkFailed, Typed, ControlOK, Controlled
  <2>2. r \in ProcStates
    BY <1>2, Updates, PCMembers
  <2>3. /\ r.pc = "blocking" /\ r.cur = q.cur /\ r.up = q.up /\ Same(r, q) /\ r.todo = T
        /\ r.pc \in Working
    BY <1>2 DEF ProcStates, Same, Working
  <2>4. x.status = "FAILED"
    BY <1>2, <2>1 DEF Settled, Bare, Manifests
  <2>5. \A s \in T : s > q.cur
    BY <1>1, <1>2, <1>3, <2>1 DEF Behind, DoneFor, Enabled, Stages
  <2>6. \A s \in Stages : s > q.cur /\ resolved[e][s] # Off => s \in T
    BY <1>1, <1>2, <1>3, <2>1 DEF Behind, Enabled, Stages, Conforms, Driving
  <2> HIDE DEF r, x, T
  <2>7. ASSUME NEW m, Replaced(m, M, q.cur, x)
        PROVE  Driving(r, "running", resolved[e], m)
    <3>1. \A t \in Stages : t < q.cur => m[t] = M[t]
      BY <2>1, <2>7 DEF Stages, Replaced
    <3>2. Behind(r, m)
      BY <1>1, <1>3, <2>3, <3>1, BehindStays
    <3>3. QED BY <1>2, <2>1, <2>3, <2>4, <2>5, <2>6, <2>7, <3>2
          DEF Conforms, Driving, StatusWhile, Same, Replaced
  <2>8. QED BY <1>5, <2>1, <2>2, <2>3, <2>7
<1>12. CASE BlockStage(p)
  <2>1. PICK s \in q.todo :
          /\ WriteManifest(p, s, Bare("BLOCKED"))
          /\ proc' = [proc EXCEPT ![p].todo = q.todo \ {s}]
    BY <1>12 DEF BlockStage
  <2> DEFINE r == [q EXCEPT !.todo = q.todo \ {s}]
  <2>2. /\ q.pc = "blocking" /\ q.cur \in Stages /\ s \in Stages /\ s > q.cur
        /\ M[q.cur].status = "FAILED" /\ q.todo \subseteq Stages
        /\ \A t \in q.todo : t > q.cur
        /\ \A t \in Stages : t > q.cur /\ resolved[e][t] # Off =>
             t \in q.todo \/ M[t].status = "BLOCKED"
    BY <1>2, <1>12, <2>1 DEF BlockStage, Conforms, Driving, ProcStates
  <2>3. r \in ProcStates
    BY <1>2, <2>2 DEF ProcStates
  <2>4. /\ r.pc = "blocking" /\ r.cur = q.cur /\ r.up = q.up /\ r.todo = q.todo \ {s}
        /\ Same(r, q) /\ r.pc \in Working /\ proc' = [proc EXCEPT ![p] = r]
    BY <1>2, <2>1, <2>2 DEF ProcStates, Same, Working
  <2> HIDE DEF r
  <2>5. ASSUME NEW m, Replaced(m, M, s, Bare("BLOCKED"))
        PROVE  Driving(r, "running", resolved[e], m)
    <3>1. \A t \in Stages : t < q.cur => m[t] = M[t]
      BY <2>2, <2>5 DEF Stages, Replaced
    <3>2. Behind(r, m)
      BY <1>1, <1>3, <2>4, <3>1, BehindStays
    <3>3. m[q.cur].status = "FAILED" /\ m[s].status = "BLOCKED"
      BY <2>2, <2>5 DEF Bare, Stages, Replaced
    <3>4. QED BY <1>2, <2>2, <2>4, <2>5, <3>2, <3>3 
          DEF Conforms, Driving, StatusWhile, Same, Replaced
  <2>6. QED BY <1>5, <2>2, <2>1, <2>3, <2>4, <2>5
<1>13. QED BY <1>6, <1>7, <1>8, <1>9, <1>10, <1>11, <1>12

\* A step that is the end of the invocation: the status becomes one that has a shape.
LEMMA DriverEnds ==
  ASSUME Typed, DriverInv, NEW p \in Procs, proc[p].pc # "idle", Leave(p),
         NEW status \in EXPERIMENT_STATUSES, UpdateStatus(p, status),
         UNCHANGED <<resolved, manifest, made>>,
         Shape(status, resolved[proc[p].exp], manifest[proc[p].exp])
  PROVE  DriverInv'
<1>1. /\ proc[p].exp \in Exps /\ made \in Seq(Keys) /\ Len(made) \in Nat
      /\ DOMAIN expStatus = Exps
  BY DEF Typed, TypeOK, ControlOK, Controlled
<1>2. made' \in Seq(Keys) /\ Len(made) <= Len(made') /\ proc' = [proc EXCEPT ![p] = Idle]
  BY <1>1 DEF Leave
<1>3. Shape(expStatus[proc[p].exp], resolved[proc[p].exp], manifest[proc[p].exp])
  BY <1>1 DEF DriverInv
<1>4. expStatus'[proc[p].exp] = status \/ expStatus' = expStatus
  BY <1>1 DEF UpdateStatus
<1>5. Shape(expStatus'[proc[p].exp], resolved'[proc[p].exp], manifest'[proc[p].exp])
  BY <1>3, <1>4
<1>6. \A f \in Exps : f # proc[p].exp => expStatus'[f] = expStatus[f]
  BY <1>1 DEF UpdateStatus
<1>7. QED BY <1>2, <1>5, <1>6, IdleType, DriverWrite

\* What the loop has passed is consistent.
LEMMA BehindIsDone ==
  ASSUME NEW r, NEW m, Behind(r, m), r.pc \in Working, r.cur \in Nat, NEW s \in Stages, s < r.cur
  PROVE  Done(r.plan, m, s)
<1>1. DoneFor(r, m, s, r.up[s])
  BY DEF Behind
<1>2. ASSUME NEW d \in Requires[s], r.up[d] # 0
      PROVE  m[d].status = "COMPLETED" /\ m[d].out = r.up[d]
  <2>1. d \in Stages /\ d < s
    BY RequiresAssumption
  <2>2. DoneFor(r, m, d, r.up[d])
    BY <2>1 DEF Behind, Stages
  <2>3. QED BY <1>2, <2>2 DEF DoneFor
<1>3. QED BY <1>1, <1>2 DEF DoneFor, Done

\* The head of run(), and the ends of it.
LEMMA DriverStepOfRun ==
  ASSUME Typed, DriverInv, Typed', NEW p \in Procs,
         \/ WriteResolvedConfig(p) \/ StartRun(p) \/ SaveGit(p) \/ RecordStageRuns(p)
         \/ InterruptRun(p) \/ FailRun(p) \/ CompleteRun(p) \/ PolicyRefuses(p) \/ Die(p)
  PROVE  DriverInv'
<1> DEFINE q == proc[p]
           e == q.exp
           M == manifest[e]
<1>1. q.pc # "idle" /\ UNCHANGED <<manifest, made>>
  BY DEF WriteResolvedConfig, StartRun, SaveGit, RecordStageRuns, InterruptRun, FailRun, CompleteRun,
         PolicyRefuses, Die
<1>2. /\ q \in ProcStates /\ e \in Exps /\ Conforms(q, e) /\ M \in [Stages -> Manifests]
      /\ q.cur \in Nat /\ q.up \in Outputs /\ made \in Seq(Keys) /\ Len(made) \in Nat
      /\ Behind(q, M)
  BY <1>1, DriverKnows DEF Conforms, Driving
<1>3. made' \in Seq(Keys) /\ Len(made) <= Len(made')
  BY <1>1, <1>2
<1>4. manifest' = [manifest EXCEPT ![e] = M]
  BY <1>1, <1>2 DEF Typed, TypeOK
<1>5. DOMAIN expStatus = Exps /\ DOMAIN resolved = Exps
  BY DEF Typed, TypeOK
<1>6. CASE WriteResolvedConfig(p)
  <2> DEFINE r == [q EXCEPT !.pc = "starting"]
  <2>1. /\ q.pc = "configuring" /\ proc' = [proc EXCEPT ![p] = r]
        /\ resolved' = [resolved EXCEPT ![e] = q.plan] /\ UNCHANGED expStatus
    BY <1>6 DEF WriteResolvedConfig, GoTo
  <2>2. r \in ProcStates
    BY <1>2, Updates, PCMembers
  <2>3. /\ r.pc = "starting" /\ r.cur = q.cur /\ r.up = q.up /\ Same(r, q)
    BY <1>2 DEF ProcStates, Same
  <2> HIDE DEF r
  <2>4. expStatus[e] = "created" /\ resolved'[e] = q.plan
    BY <1>2, <1>5, <2>1 DEF Conforms, Driving, StatusWhile
  <2>5. Driving(r, "created", q.plan, M)
    BY <1>2, <2>1, <2>3 DEF Driving, StatusWhile, Behind, Same, Working
  <2>6. Driving(r, expStatus'[r.exp], resolved'[r.exp], manifest'[r.exp])
    BY <1>1, <2>1, <2>3, <2>4, <2>5 DEF Same
  <2>7. Shape(expStatus'[e], resolved'[e], manifest'[e])
    BY <2>1, <2>4, RunningShape
  <2>8. \A f \in Exps : f # e => /\ expStatus'[f] = expStatus[f]
                                /\ resolved'[f] = resolved[f]
                                /\ manifest'[f] = manifest[f]
    BY <1>1, <1>5, <2>1
  <2>9. QED BY <1>1, <1>3, <2>1, <2>2, <2>3, <2>6, <2>7, <2>8, DriverWrite
<1>7. CASE StartRun(p)
  <2>1. CASE Refused(p, "running")
    BY <1>1, <1>7, <2>1, DriverLeaves DEF StartRun, UpdateStatus, Refused
  <2>2. CASE ~Refused(p, "running")
    <3> DEFINE pc == IF q.pc = "starting" THEN "saving" ELSE "checking"
               r  == [q EXCEPT !.pc = pc]
    <3>1. /\ q.pc \in {"starting", "restarting"} /\ proc' = [proc EXCEPT ![p] = r]
          /\ expStatus' = [expStatus EXCEPT ![e] = "running"] /\ UNCHANGED resolved
      BY <1>7, <2>2 DEF StartRun, GoTo, UpdateStatus, Refused
    <3>2. r \in ProcStates
      BY <1>2, Updates, PCMembers
    <3>3. /\ r.pc \in {"saving", "checking"} /\ r.cur = q.cur /\ r.up = q.up /\ Same(r, q)
      BY <1>2 DEF ProcStates, Same
    <3> HIDE DEF r
    <3>4. Driving(r, "running", resolved[e], M)
      BY <1>2, <3>1, <3>3 DEF Conforms, Driving, StatusWhile, Behind, Same, Working
    <3>5. "running" \notin {"completed", "failed", "interrupted"} /\ p \in Procs /\ q.pc # "idle"
      BY <1>1
    <3> HIDE DEF M
    <3>6. QED BY <1>3, <1>4, <3>1, <3>2, <3>3, <3>4, <3>5, DriverGoesOn
  <2>3. QED BY <2>1, <2>2
<1>8. CASE SaveGit(p)
  <2> DEFINE r == [q EXCEPT !.pc = "loop", !.cur = 1]
  <2>1. /\ q.pc \in {"checking", "saving"} /\ proc' = [proc EXCEPT ![p] = r]
        /\ expStatus' = [expStatus EXCEPT ![e] = "running"] /\ UNCHANGED resolved
    BY <1>8 DEF SaveGit
  <2>2. r \in ProcStates
    <3>1. 1 \in 0..(N + 1)
      BY NAssumption
    <3>2. QED BY <1>2, <3>1, Updates, PCMembers
  <2>3. /\ r.pc = "loop" /\ r.cur = 1 /\ r.up = q.up /\ Same(r, q)
    BY <1>2 DEF ProcStates, Same
  <2> HIDE DEF r
  <2>4. Driving(r, "running", resolved[e], M)
    BY <1>2, <2>1, <2>3 DEF Conforms, Driving, StatusWhile, Behind, Same, Working, Stages
  <2>5. "running" \notin {"completed", "failed", "interrupted"} /\ p \in Procs /\ q.pc # "idle"
    BY <1>1
  <2> HIDE DEF M
  <2>6. QED BY <1>3, <1>4, <2>1, <2>2, <2>3, <2>4, <2>5, DriverGoesOn
<1>9. CASE RecordStageRuns(p)
  <2> DEFINE r == [q EXCEPT !.pc = "completing"]
  <2>1. /\ q.pc = "recording" /\ proc' = [proc EXCEPT ![p] = r]
        /\ expStatus' = [expStatus EXCEPT ![e] = q.seen] /\ UNCHANGED resolved
    BY <1>9 DEF RecordStageRuns, GoTo
  <2>2. r \in ProcStates
    BY <1>2, Updates, PCMembers
  <2>3. /\ r.pc = "completing" /\ r.cur = q.cur /\ r.up = q.up /\ Same(r, q)
        /\ r.pc \in Working /\ q.pc \in Working
    BY <1>2, <2>1 DEF ProcStates, Same, Working
  <2> HIDE DEF r
  <2>4. q.seen = "running" /\ q.cur = N + 1
    BY <1>2, <2>1 DEF Conforms, Driving
  <2>5. Behind(r, M)
    BY <1>2, <2>3, BehindStays
  <2>6. Driving(r, "running", resolved[e], M)
    BY <1>2, <2>1, <2>3, <2>4, <2>5 DEF Conforms, Driving, StatusWhile, Same
  <2>7. QED BY <1>1, <1>3, <1>4, <2>1, <2>2, <2>3, <2>4, <2>6, DriverGoesOn
<1>10. CASE PolicyRefuses(p) \/ Die(p)
  BY <1>1, <1>10, DriverLeaves DEF PolicyRefuses, Die
<1>11. ASSUME q.pc \in Working
       PROVE  \A s \in Stages : s < q.cur => Done(resolved[e], M, s)
  <2>1. resolved[e] = q.plan
    BY <1>2, <1>11 DEF Conforms, Driving, Working
  <2> HIDE DEF M
  <2>2. QED BY <1>2, <1>11, <2>1, BehindIsDone
<1>12. CASE InterruptRun(p)
  <2>1. q.pc = "interrupting" /\ q.pc \in Working
    BY <1>12 DEF InterruptRun, Working
  <2>2. q.cur \in Stages /\ M[q.cur].status = "CANCELLED"
    BY <1>2, <2>1 DEF Conforms, Driving
  <2>3. Shape("interrupted", resolved[e], M)
    BY <1>11, <2>1, <2>2 DEF Shape
  <2>4. QED BY <1>1, <1>12, <2>3, DriverEnds DEF InterruptRun, EXPERIMENT_STATUSES
<1>13. CASE FailRun(p)
  <2>1. q.pc = "blocking" /\ q.pc \in Working /\ q.todo = {}
    BY <1>13 DEF FailRun, Working
  <2>2. /\ q.cur \in Stages /\ M[q.cur].status = "FAILED"
        /\ \A s \in Stages : s > q.cur /\ resolved[e][s] # Off => M[s].status = "BLOCKED"
    BY <1>2, <2>1 DEF Conforms, Driving
  <2>3. Shape("failed", resolved[e], M)
    BY <1>11, <2>1, <2>2 DEF Shape
  <2>4. QED BY <1>1, <1>13, <2>3, DriverEnds DEF FailRun, EXPERIMENT_STATUSES
<1>14. CASE CompleteRun(p)
  <2>1. q.pc = "completing" /\ q.pc \in Working
    BY <1>14 DEF CompleteRun, Working
  <2>2. q.cur = N + 1 /\ \A s \in Stages : s < q.cur
    BY <1>2, <2>1, NAssumption DEF Conforms, Driving, Stages
  <2>3. \A s \in Stages : DoneFor(q, M, s, q.up[s])
    BY <1>2, <2>1, <2>2 DEF Behind
  <2>4. resolved[e] = q.plan
    BY <1>2, <2>1 DEF Conforms, Driving
  <2>5. \A s \in Stages : resolved[e][s] # Off => M[s].key.ver = q.ver
    BY <2>3, <2>4 DEF DoneFor
  <2>6. Shape("completed", resolved[e], M)
    BY <1>11, <2>1, <2>2, <2>5 DEF Shape
  <2>7. QED BY <1>1, <1>14, <2>6, DriverEnds DEF CompleteRun, EXPERIMENT_STATUSES
<1>15. QED BY <1>6, <1>7, <1>8, <1>9, <1>10, <1>12, <1>13, <1>14

\* An invocation begins on an experiment that nobody drives.
LEMMA DriverBegins ==
  ASSUME Typed, DriverInv, ~MayOverlap, NEW p \in Procs, Create(p) \/ Resume(p)
  PROVE  DriverInv'
<1>1. PICK e \in Exps, plan \in Plans \cup {NoPlan}, pc \in {"configuring", "checking", "restarting"} :
        /\ Invoke(p, e, pc, plan)
        /\ \A q \in Procs : proc[q].pc # "idle" => proc[q].exp # e
        /\ \A f \in Exps : f # e => expStatus'[f] = expStatus[f]
        /\ \/ expStatus'[e] = "created" /\ pc = "configuring"
           \/ /\ UNCHANGED expStatus /\ plan = resolved[e]
              /\ \/ pc = "checking" /\ expStatus[e] = "running"
                 \/ pc = "restarting" /\ expStatus[e] \in {"created", "failed", "interrupted"}
  <2>1. CASE Create(p)
    <3>1. PICK e \in Exps, plan \in Plans :
            /\ expStatus[e] = "none"
            /\ expStatus' = [expStatus EXCEPT ![e] = "created"]
            /\ Invoke(p, e, "configuring", plan)
      BY <2>1 DEF Create
    <3>2. ASSUME NEW q \in Procs, proc[q].pc # "idle" PROVE proc[q].exp # e
      BY <3>1, <3>2 DEF DriverInv, Driving, StatusWhile
    <3>3. /\ expStatus'[e] = "created"
          /\ \A f \in Exps : f # e => expStatus'[f] = expStatus[f]
      BY <3>1 DEF Typed, TypeOK
    <3>4. QED BY <3>1, <3>2, <3>3
  <2>2. CASE Resume(p)
    <3>1. PICK e \in Exps :
            /\ expStatus[e] \in Resumable
            /\ \A q \in Procs : proc[q].exp # e
            /\ Invoke(p, e, IF expStatus[e] = "running" THEN "checking" ELSE "restarting",
                      resolved[e])
      BY <2>2 DEF Resume
    <3>2. resolved[e] \in Plans \cup {NoPlan} /\ UNCHANGED expStatus
      BY <2>2, <3>1 DEF Resume, Typed, TypeOK
    <3>3. CASE expStatus[e] = "running"
      BY <3>1, <3>2, <3>3
    <3>4. CASE expStatus[e] # "running"
      BY <3>1, <3>2, <3>4 DEF Resumable
    <3>5. QED BY <3>3, <3>4
  <2>3. QED BY <2>1, <2>2
<1>2. PICK ver \in Versions, force \in ForceTargets :
        proc' = [proc EXCEPT ![p] = [Idle EXCEPT !.pc = pc, !.exp = e, !.plan = plan, !.ver = ver,
                                                 !.force = force, !.born = Len(made)]]
  BY <1>1 DEF Invoke
<1> DEFINE r == [Idle EXCEPT !.pc = pc, !.exp = e, !.plan = plan, !.ver = ver,
                             !.force = force, !.born = Len(made)]
<1>3. /\ proc \in [Procs -> ProcStates] /\ Len(made) \in Nat
      /\ UNCHANGED <<resolved, manifest, made>>
  BY DEF Typed, TypeOK, Create, Resume
<1>4. /\ r.pc = pc /\ r.exp = e /\ r.plan = plan /\ r.born = Len(made) /\ r.cur = 0
      /\ \A s \in Stages : r.up[s] = 0
  BY DEF Idle
<1> HIDE DEF r
<1>5. \A q \in Procs : proc'[q] = IF q = p THEN r ELSE proc[q]
  BY <1>2, <1>3 DEF r
<1>6. ASSUME NEW a \in Procs, NEW b \in Procs, a # b, proc'[a].pc # "idle", proc'[b].pc # "idle"
      PROVE  proc'[a].exp # proc'[b].exp
  BY <1>1, <1>4, <1>5, <1>6 DEF DriverInv
<1>7. ASSUME NEW q \in Procs, proc'[q].pc # "idle"
      PROVE  Driving(proc[q], expStatus[proc[q].exp], resolved[proc[q].exp], manifest[proc[q].exp])'
  <2>1. CASE q = p
    <3>1. Behind(r, manifest[e])
      BY <1>1, <1>4 DEF Behind, Working
    <3>2. Driving(r, expStatus'[e], resolved[e], manifest[e])
      BY <1>1, <1>4, <3>1 DEF Driving, StatusWhile, Working
    <3>3. QED BY <1>3, <1>4, <1>5, <2>1, <3>2
  <2>2. CASE q # p
    <3>1. proc'[q] = proc[q] /\ proc[q].pc # "idle" /\ proc[q].exp \in Exps
      BY <1>5, <1>7, <2>2 DEF Typed, ControlOK, Controlled
    <3>2. proc[q].exp # e
      BY <1>1, <3>1
    <3>3. Driving(proc[q], expStatus[proc[q].exp], resolved[proc[q].exp], manifest[proc[q].exp])
      BY <3>1 DEF DriverInv
    <3>4. QED BY <1>1, <1>3, <3>1, <3>2, <3>3
  <2>3. QED BY <2>1, <2>2
<1>8. \A q \in Procs : proc'[q].born <= Len(made')
  BY <1>3, <1>4, <1>5 DEF DriverInv
<1>9. ASSUME NEW f \in Exps PROVE Shape(expStatus'[f], resolved'[f], manifest'[f])
  <2>1. CASE expStatus'[f] = expStatus[f]
    BY <1>3, <2>1 DEF DriverInv
  <2>2. CASE expStatus'[f] # expStatus[f]
    BY <1>1, <2>2, RunningShape
  <2>3. QED BY <2>1, <2>2
<1>10. QED BY <1>6, <1>7, <1>8, <1>9 DEF DriverInv

\* What one driver does keeps DriverInv, and nothing else writes to its experiment.
LEMMA DriverStep ==
  ASSUME ~MayOverlap
  PROVE  Typed /\ ProvenanceInv /\ DriverInv /\ [Next]_vars => DriverInv'
<1> SUFFICES ASSUME Typed, ProvenanceInv, DriverInv, [Next]_vars PROVE DriverInv'
  OBVIOUS
<1>1. Typed'
  BY TypedStep
<1>2. CASE UNCHANGED vars
  BY <1>2 DEF vars, DriverInv
<1>3. ASSUME NEW p \in Procs, Create(p) \/ Resume(p) PROVE DriverInv'
  BY <1>3, DriverBegins
<1>4. ASSUME NEW p \in Procs, Step(p) \/ Trouble(p) PROVE DriverInv'
  BY <1>1, <1>4, DriverStepInMemory, DriverStepOnDisk, DriverStepOfRun DEF Step, Trouble
<1>5. QED BY <1>2, <1>3, <1>4 DEF Next

LEMMA DriversConform ==
  ASSUME ~MayOverlap
  PROVE  Spec => [](Typed /\ DriverInv)
<1>1. Init => Typed /\ ProvenanceInv /\ DriverInv
  <2>1. Init => ProvenanceInv
    BY HoldsIdle DEF Init, ProvenanceInv, Provenance, Bare, Holds, Idle
  <2>2. Init => DriverInv
    BY DEF Init, DriverInv, Idle, Shape
  <2>3. QED BY <2>1, <2>2, TypedInit
<1>2. Typed /\ ProvenanceInv /\ DriverInv /\ [Next]_vars => (Typed /\ ProvenanceInv /\ DriverInv)'
  BY TypedStep, ProvenanceStep, DriverStep
<1>3. QED BY <1>1, <1>2, PTL DEF Spec

\* With one driver per experiment, a completed experiment is one coherent build, whatever
\* crashes, resumes, forces, upgrades and reuse across experiments came before.
THEOREM CompletedExperimentsAreCoherent ==
  ASSUME ~MayOverlap
  PROVE  Spec => []CompletedIsCoherent
<1>1. Typed /\ DriverInv => CompletedIsCoherent
  BY DEF DriverInv, Shape, Done, CompletedIsCoherent, Consistent
<1>2. QED BY <1>1, DriversConform, PTL

\* With one driver per experiment, an experiment that failed or was interrupted shows at which
\* stage, with every earlier stage done and, after a failure, every later one blocked.
THEOREM StoppedExperimentsShowWhere ==
  ASSUME ~MayOverlap
  PROVE  Spec => []StoppedShape
<1>1. Typed /\ DriverInv => StoppedShape
  BY DEF DriverInv, Shape, Done, StoppedShape, Consistent
<1>2. QED BY <1>1, DriversConform, PTL

\* With one driver per experiment, an adapter only ever runs on inputs that are COMPLETED on
\* disk with the outputs it was handed.
THEOREM AdaptersSeeTheDisk ==
  ASSUME ~MayOverlap
  PROVE  Spec => []InputsAreOnDisk
<1>1. ASSUME Typed, DriverInv, NEW p \in Procs, proc[p].pc = "adapter"
      PROVE  LET e == proc[p].exp  s == proc[p].cur IN
               /\ manifest[e][s].status = "RUNNING"
               /\ manifest[e][s].key = StageKey(p)
               /\ \A d \in Requires[s] : /\ manifest[e][d].status = "COMPLETED"
                                         /\ manifest[e][d].out = proc[p].up[d]
  <2> DEFINE q == proc[p]
             M == manifest[q.exp]
  <2>1. Driving(q, expStatus[q.exp], resolved[q.exp], M) /\ q.cur \in Stages
    BY <1>1 DEF DriverInv, Typed, ControlOK, Controlled
  <2>2. /\ M[q.cur].status = "RUNNING" /\ M[q.cur].key = KeyOf(q)
        /\ \A d \in Requires[q.cur] : q.up[d] # 0
        /\ Behind(q, M)
    BY <1>1, <2>1 DEF Driving
  <2>3. ASSUME NEW d \in Requires[q.cur]
        PROVE  M[d].status = "COMPLETED" /\ M[d].out = q.up[d]
    <3>1. d \in Stages /\ d < q.cur
      BY <2>1, RequiresAssumption
    <3>2. DoneFor(q, M, d, q.up[d])
      BY <1>1, <2>2, <3>1 DEF Behind, Working
    <3>3. q.up[d] # 0
      BY <2>2
    <3>4. QED BY <3>2, <3>3 DEF DoneFor
  <2>4. QED BY <2>2, <2>3 DEF StageKey
<1>2. Typed /\ DriverInv => InputsAreOnDisk
  BY <1>1 DEF InputsAreOnDisk
<1>3. QED BY <1>2, DriversConform, PTL

\* With one driver per experiment, an invocation that reaches the end has executed every
\* enabled stage that --force invalidated, unless its output is a function of its inputs.
THEOREM ForcedStagesAreExecuted ==
  ASSUME ~MayOverlap
  PROVE  Spec => []ForceIsHonoured
<1>1. ASSUME Typed, DriverInv, NEW p \in Procs, proc[p].pc = "completing",
             NEW s \in proc[p].force \ Deterministic, Enabled(p, s)
      PROVE  manifest[proc[p].exp][s].out > proc[p].born
  <2> DEFINE q == proc[p]
             M == manifest[q.exp]
  <2>1. Driving(q, expStatus[q.exp], resolved[q.exp], M) /\ s \in Stages
    BY <1>1 DEF DriverInv, Typed, TypeOK, ProcStates
  <2>2. q.cur = N + 1 /\ Behind(q, M)
    BY <1>1, <2>1 DEF Driving
  <2>3. DoneFor(q, M, s, q.up[s])
    BY <1>1, <2>1, <2>2, NAssumption DEF Behind, Working, Stages
  <2>4. QED BY <1>1, <2>3 DEF DoneFor, Enabled
<1>2. Typed /\ DriverInv => ForceIsHonoured
  BY <1>1 DEF ForceIsHonoured
<1>3. QED BY <1>2, DriversConform, PTL

\* Every write of a step goes to the experiment of the process that takes it.
LEMMA WritesStayHome ==
  ASSUME Typed, NEW p \in Procs, Step(p) \/ Trouble(p), NEW e \in Exps, proc[p].exp # e
  PROVE  expStatus'[e] = expStatus[e] /\ manifest'[e] = manifest[e] /\ resolved'[e] = resolved[e]
<1>1. DOMAIN expStatus = Exps /\ DOMAIN manifest = Exps /\ DOMAIN resolved = Exps
  BY DEF Typed, TypeOK
<1>2. \A status : UpdateStatus(p, status) => expStatus'[e] = expStatus[e]
  BY <1>1 DEF UpdateStatus
<1>3. \A s, m : WriteManifest(p, s, m) => manifest'[e] = manifest[e]
  BY <1>1 DEF WriteManifest
<1>4. CASE UNCHANGED <<expStatus, resolved, manifest>>
  BY <1>4
<1>5. CASE WriteResolvedConfig(p) \/ SaveGit(p) \/ RecordStageRuns(p)
  BY <1>1, <1>5 DEF WriteResolvedConfig, SaveGit, RecordStageRuns
<1>6. CASE StartRun(p) \/ InterruptRun(p) \/ FailRun(p) \/ CompleteRun(p)
  BY <1>2, <1>6 DEF StartRun, InterruptRun, FailRun, CompleteRun
<1>7. CASE SkipDisabled(p) \/ ReuseOther(p) \/ BeginStage(p) \/ AdapterSucceeds(p)
             \/ MarkCancelled(p) \/ MarkFailed(p) \/ BlockStage(p)
  BY <1>3, <1>7 DEF SkipDisabled, ReuseOther, BeginStage, AdapterSucceeds, MarkCancelled, MarkFailed,
                    BlockStage
<1>8. QED
  BY <1>4, <1>5, <1>6, <1>7
  DEF Step, Trouble, MissDependency, ReuseOwn, Advance, FinalizeRead, PolicyRefuses, AdapterFails,
      Interrupt, InterruptSwallowed, Die

\* With one driver per experiment, nothing about a completed experiment ever changes again.
THEOREM CompletedExperimentsStay ==
  ASSUME ~MayOverlap
  PROVE  Spec => CompletedIsFrozen
<1> DEFINE Stays == \A e \in Exps : expStatus[e] = "completed" =>
                      /\ expStatus'[e] = "completed"
                      /\ manifest'[e] = manifest[e]
                      /\ resolved'[e] = resolved[e]
<1>1. ASSUME Typed, DriverInv, Next, NEW e \in Exps, expStatus[e] = "completed"
      PROVE  /\ expStatus'[e] = "completed"
             /\ manifest'[e] = manifest[e]
             /\ resolved'[e] = resolved[e]
  <2>1. CASE \E p \in Procs : Create(p) \/ Resume(p)
    BY <1>1, <2>1 DEF Create, Resume, Typed, TypeOK
  <2>2. ASSUME NEW p \in Procs, Step(p) \/ Trouble(p)
        PROVE  proc[p].exp # e
    <3>1. CASE proc[p].pc = "idle"
      BY <2>2, <3>1
      DEF Step, Trouble, WriteResolvedConfig, StartRun, SaveGit, SkipDisabled, MissDependency,
          ReuseOwn, ReuseOther, AtStage, BeginStage, AdapterSucceeds, Advance, MarkCancelled,
          InterruptRun, MarkFailed, BlockStage, FailRun, FinalizeRead, RecordStageRuns, CompleteRun,
          PolicyRefuses, AdapterFails, Interrupt, InterruptSwallowed, Die
    <3>2. CASE proc[p].pc # "idle"
      BY <1>1, <3>2 DEF DriverInv, Driving, StatusWhile
    <3>3. QED BY <3>1, <3>2
  <2>3. QED BY <1>1, <2>1, <2>2, WritesStayHome DEF Next
<1>2. Typed /\ DriverInv /\ [Next]_vars => [Stays]_vars
  BY <1>1
<1>3. QED BY <1>2, DriversConform, PTL DEF Spec, CompletedIsFrozen
=============================================================================

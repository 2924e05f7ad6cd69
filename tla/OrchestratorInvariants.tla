----------------------- MODULE OrchestratorInvariants -----------------------
(***************************************************************************)
(* The inductive invariants behind the safety properties of Orchestrator.  *)
(* They are kept here, apart from the proofs, so that TLC checks them too. *)
(***************************************************************************)
EXTENDS Orchestrator

Produced(s, n) == n \in 1..Len(made) /\ made[n].stage = s

\* Process record r holds only outputs that were produced by the stage it has them for,
\* and an adapter is only running with all its inputs.
Holds(r) ==
  /\ \A s \in Stages : r.up[s] # 0 => Produced(s, r.up[s])
  /\ r.pc = "returned" /\ r.result # 0 => Produced(r.cur, r.result)
  /\ r.pc = "adapter" => \A d \in Requires[r.cur] : r.up[d] # 0

\* Provenance is inductive once the memory of the processes is included.
ProvenanceInv == Provenance /\ \A p \in Procs : Holds(proc[p])

-----------------------------------------------------------------------------
(* One driver per experiment.  In what follows r is the record of the driver, *)
(* and status, plan and m are its experiment's status, configuration and      *)
(* stage manifests.                                                           *)

\* Stage s is done, with output `out`, the way this invocation wants it done.
DoneFor(r, m, s, out) ==
  IF r.plan[s] = Off
  THEN out = 0 /\ m[s].status = "SKIPPED"
  ELSE /\ m[s].status = "COMPLETED"
       /\ m[s].out = out /\ out # 0
       /\ m[s].key.setting = r.plan[s]
       /\ m[s].key.ver = r.ver
       /\ \A d \in Requires[s] : r.up[d] # 0 /\ m[s].key.inputs[d] = r.up[d]
       /\ s \in r.force \ Deterministic => out > r.born

Working == {"loop", "adapter", "returned", "failing", "cancelling", "blocking",
            "interrupting", "recording", "completing"}

StatusWhile(pc, status) ==
  CASE pc \in {"configuring", "starting"} -> status = "created"
    [] pc = "restarting"                  -> status \in {"created", "failed", "interrupted"}
    [] OTHER                              -> status = "running"

\* The stages that the loop has passed are done, with the outputs it holds.
Behind(r, m) ==
  \A s \in Stages : IF r.pc \in Working /\ s < r.cur THEN DoneFor(r, m, s, r.up[s])
                    ELSE r.up[s] = 0

\* Where the loop is decides what the disk shows.
Driving(r, status, plan, m) ==
  /\ StatusWhile(r.pc, status)
  /\ r.pc # "configuring" => plan = r.plan
  /\ Behind(r, m)
  /\ r.pc = "adapter" => /\ r.plan[r.cur] # Off
                         /\ m[r.cur].status = "RUNNING"
                         /\ m[r.cur].key = KeyOf(r)
                         /\ \A d \in Requires[r.cur] : r.up[d] # 0
  /\ r.pc = "returned" => DoneFor(r, m, r.cur, r.result)
  /\ r.pc \in {"blocking", "interrupting"} => r.cur \in Stages
  /\ r.pc = "interrupting" => m[r.cur].status = "CANCELLED"
  /\ r.pc = "blocking" =>
       /\ m[r.cur].status = "FAILED"
       /\ \A s \in r.todo : s > r.cur
       /\ \A s \in Stages : s > r.cur /\ plan[s] # Off => s \in r.todo \/ m[s].status = "BLOCKED"
  /\ r.pc = "recording" => r.seen = "running"
  /\ r.pc \in {"recording", "completing"} => r.cur = N + 1

\* CompletedIsCoherent and StoppedShape of one experiment.
Done(plan, m, s) ==
  IF plan[s] = Off
  THEN m[s].status = "SKIPPED"
  ELSE /\ m[s].status = "COMPLETED"
       /\ m[s].key.setting = plan[s]
       /\ \A d \in Requires[s] : m[d].status = "COMPLETED" /\ m[s].key.inputs[d] = m[d].out

Shape(status, plan, m) ==
  /\ status = "completed" =>
       /\ \A s \in Stages : Done(plan, m, s)
       /\ \A s, t \in Stages : plan[s] # Off /\ plan[t] # Off => m[s].key.ver = m[t].key.ver
  /\ status = "failed" =>
       \E f \in Stages :
         /\ m[f].status = "FAILED"
         /\ \A s \in Stages : s < f => Done(plan, m, s)
         /\ \A s \in Stages : s > f /\ plan[s] # Off => m[s].status = "BLOCKED"
  /\ status = "interrupted" =>
       \E c \in Stages :
         /\ m[c].status = "CANCELLED"
         /\ \A s \in Stages : s < c => Done(plan, m, s)

\* With one driver per experiment, what a driver assumes of its experiment is what the
\* disk shows, at every step of the loop; from it follow the shapes of experiments that
\* have ended, the inputs of a running adapter and the effect of --force.
DriverInv ==
  /\ \A p, q \in Procs : p # q /\ proc[p].pc # "idle" /\ proc[q].pc # "idle" =>
       proc[p].exp # proc[q].exp
  /\ \A p \in Procs : proc[p].pc # "idle" =>
       Driving(proc[p], expStatus[proc[p].exp], resolved[proc[p].exp], manifest[proc[p].exp])
  /\ \A p \in Procs : proc[p].born <= Len(made)
  /\ \A e \in Exps : Shape(expStatus[e], resolved[e], manifest[e])
=============================================================================

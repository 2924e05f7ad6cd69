----------------------------- MODULE StageGraph -----------------------------
(***************************************************************************)
(* The stage graph of python_dpo.pipeline.stages as `experiment run        *)
(* --force target` uses it: validate_graph() orders every stage, then      *)
(* invalidate() follows dependents_of(target) frontier by frontier and     *)
(* orders what it found.  Both orders come from topological_order(), one   *)
(* append per step.  Stages are numbered by their place in STAGES.         *)
(***************************************************************************)
EXTENDS Naturals, Sequences

CONSTANTS
  M,        \* number of stages
  Graphs    \* the graphs considered: requires[s] is the set of stages s requires

ASSUME MAssumption      == M \in Nat \ {0}
ASSUME GraphsAssumption == Graphs \subseteq [1..M -> SUBSET (1..M)]

All == 1..M

VARIABLES
  requires,    \* the edges
  target,      \* the stage named by --force
  phase,       \* "validating", "spreading", "sorting", then "done" or "cycle"
  universe,    \* the stages being ordered
  remaining,   \* those not ordered yet
  deps,        \* remaining[s]: what s still waits for
  ready,       \* this round's ready stages that are not appended yet
  ordered,     \* the order so far
  dependents,  \* dependents_of(target) so far
  frontier     \* the dependents found in the last pass

vars == <<requires, target, phase, universe, remaining, deps, ready, ordered,
          dependents, frontier>>

Sorting == phase \in {"validating", "sorting"}

\* The arguments of a call topological_order(names).
Restricted(names) == [s \in All |-> requires[s] \cap names]

Init ==
  /\ requires \in Graphs
  /\ target \in All
  /\ phase = "validating"
  /\ universe = All
  /\ remaining = All
  /\ deps = Restricted(All)
  /\ ready = {}
  /\ ordered = <<>>
  /\ dependents = {}
  /\ frontier = {}

Free == {s \in remaining : deps[s] = {}}

\* Mutant: what a stage waits for is looked at only once.
NewRoundForgetful ==
  /\ Sorting
  /\ ready = {}
  /\ remaining # {}
  /\ ready' = remaining
  /\ UNCHANGED <<requires, target, phase, universe, remaining, deps, ordered,
                 dependents, frontier>>

\* The head of a round: the ready stages are those that wait for nothing.
NewRound ==
  /\ Sorting
  /\ ready = {}
  /\ Free # {}
  /\ ready' = Free
  /\ UNCHANGED <<requires, target, phase, universe, remaining, deps, ordered,
                 dependents, frontier>>

\* Mutant: the round ends without telling the stages that wait.
AppendSilently ==
  /\ Sorting
  /\ \E s \in ready :
       /\ \A t \in ready : s <= t
       /\ ordered' = Append(ordered, s)
       /\ remaining' = remaining \ {s}
       /\ ready' = ready \ {s}
  /\ UNCHANGED <<requires, target, phase, universe, deps, dependents, frontier>>

\* ready is appended in declared order; difference_update(ready) ends the round.
AppendReady ==
  /\ Sorting
  /\ \E s \in ready :
       /\ \A t \in ready : s <= t
       /\ ordered' = Append(ordered, s)
       /\ remaining' = remaining \ {s}
       /\ ready' = ready \ {s}
       /\ deps' = IF ready = {s}
                  THEN [t \in All |-> deps[t] \cap remaining']
                  ELSE deps
  /\ UNCHANGED <<requires, target, phase, universe, dependents, frontier>>

\* Mutant: a round that finds nothing ready is tried again.
CycleIgnored ==
  /\ Sorting
  /\ ready = {}
  /\ remaining # {}
  /\ Free = {}
  /\ UNCHANGED vars

CycleDetected ==
  /\ Sorting
  /\ ready = {}
  /\ remaining # {}
  /\ Free = {}
  /\ phase' = "cycle"
  /\ UNCHANGED <<requires, target, universe, remaining, deps, ready, ordered,
                 dependents, frontier>>

\* validate_graph() returns; dependents_of(target) starts from the target.
Validated ==
  /\ phase = "validating"
  /\ remaining = {}
  /\ phase' = "spreading"
  /\ frontier' = {target}
  /\ UNCHANGED <<requires, target, universe, remaining, deps, ready, ordered, dependents>>

\* Mutant: only the target's own dependents are followed.
SpreadOnce ==
  LET found == {s \in All : requires[s] \cap frontier # {} /\ s \notin dependents} IN
  /\ phase = "spreading"
  /\ frontier # {}
  /\ dependents' = dependents \cup found
  /\ frontier' = {}
  /\ UNCHANGED <<requires, target, phase, universe, remaining, deps, ready, ordered>>

\* One pass over STAGES.
Spread ==
  LET found == {s \in All : requires[s] \cap frontier # {} /\ s \notin dependents} IN
  /\ phase = "spreading"
  /\ frontier # {}
  /\ dependents' = dependents \cup found
  /\ frontier' = found
  /\ UNCHANGED <<requires, target, phase, universe, remaining, deps, ready, ordered>>

\* invalidate: topological_order(names = target and its dependents).
Invalidate ==
  /\ phase = "spreading"
  /\ frontier = {}
  /\ phase' = "sorting"
  /\ universe' = {target} \cup dependents
  /\ remaining' = universe'
  /\ deps' = Restricted(universe')
  /\ ordered' = <<>>
  /\ UNCHANGED <<requires, target, ready, dependents, frontier>>

Return ==
  /\ phase = "sorting"
  /\ remaining = {}
  /\ phase' = "done"
  /\ UNCHANGED <<requires, target, universe, remaining, deps, ready, ordered,
                 dependents, frontier>>

Next == \/ NewRound \/ AppendReady \/ CycleDetected \/ Validated
        \/ Spread \/ Invalidate \/ Return

Spec     == Init /\ [][Next]_vars
LiveSpec == Spec /\ WF_vars(Next)
-----------------------------------------------------------------------------
(* Properties. *)

Emitted == {ordered[i] : i \in 1..Len(ordered)}

\* Every variable has its type.
TypeOK ==
  /\ requires \in Graphs
  /\ target \in All
  /\ phase \in {"validating", "spreading", "sorting", "done", "cycle"}
  /\ universe \subseteq All
  /\ remaining \subseteq universe
  /\ deps \in [All -> SUBSET All]
  /\ ready \subseteq remaining
  /\ ordered \in Seq(All)
  /\ dependents \subseteq All
  /\ frontier \subseteq All

\* topological_order never emits a stage before one it requires, nor twice, in any graph
\* and for any `names`, a cyclic graph included: the order is at every moment a legal
\* start of a build.
RequiredFirst ==
  /\ \A i, j \in 1..Len(ordered) : ordered[i] = ordered[j] => i = j
  /\ \A i \in 1..Len(ordered) : \A d \in requires[ordered[i]] \cap universe :
       \E j \in 1..(i - 1) : ordered[j] = d

\* A cycle is reported exactly when there is one: some stages each require one of them.
Cyclic == \E c \in SUBSET All : c # {} /\ \A s \in c : requires[s] \cap c # {}

CycleIffCyclic ==
  /\ phase = "cycle" => Cyclic
  /\ phase \in {"spreading", "sorting", "done"} => ~Cyclic

\* What --force invalidates is the target and exactly the stages that require it, directly
\* or through others: the least set that holds the target and is closed under "requires".
Closed(c) == target \in c /\ \A s \in All : requires[s] \cap c # {} => s \in c

ForceIsCascade ==
  phase = "done" => /\ Closed(Emitted)
                    /\ \A c \in SUBSET All : Closed(c) => Emitted \subseteq c

\* Both loops end, with an order or with a cycle reported.
Terminates == <>(phase \in {"done", "cycle"})
=============================================================================

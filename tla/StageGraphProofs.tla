-------------------------- MODULE StageGraphProofs --------------------------
(***************************************************************************)
(* For any number of stages and any graph: what topological_order() emits  *)
(* respects the requirements, a cycle is reported exactly when there is    *)
(* one, and what --force invalidates is the cascade.                       *)
(***************************************************************************)
EXTENDS StageGraph, TLAPS

\* What the rounds maintain: everything is emitted once, and what a remaining stage is
\* known to wait for covers what it really waits for.
Rounds ==
  /\ Emitted = universe \ remaining
  /\ \A s \in remaining : requires[s] \cap remaining \subseteq deps[s]
  /\ \A s \in remaining : deps[s] \subseteq requires[s]
  /\ ready = {} => \A s \in remaining : deps[s] \subseteq remaining
  /\ \A s \in ready : deps[s] = {}

\* A set of stages that wait for each other never gets out.
Waiting(c) == \A s \in c : requires[s] \cap c # {}
Trapped == \A c \in SUBSET universe : Waiting(c) => c \subseteq remaining

\* Which loop has run already.
Phases ==
  /\ phase = "validating" => universe = All /\ dependents = {} /\ frontier = {}
  /\ phase = "spreading" => remaining = {}
  /\ phase \in {"sorting", "done"} => frontier = {} /\ universe = {target} \cup dependents
  /\ phase = "done" => remaining = {}

\* The frontier loop: nothing too much, and nothing missing but through the frontier.
Spreading ==
  phase \in {"spreading", "sorting", "done"} =>
    /\ \A c \in SUBSET All : Closed(c) => dependents \cup frontier \subseteq c
    /\ \A s \in All : requires[s] \cap (({target} \cup dependents) \ frontier) # {}
                      => s \in dependents

GraphInv == TypeOK /\ Rounds /\ RequiredFirst /\ Trapped /\ Phases /\ CycleIffCyclic /\ Spreading

\* The invariant holds before the first round.
LEMMA GraphInit == Init => GraphInv
<1> SUFFICES ASSUME Init PROVE GraphInv
  OBVIOUS
<1>1. requires \in [All -> SUBSET All] /\ deps = [s \in All |-> requires[s]]
  BY GraphsAssumption DEF Init, Restricted, All
<1>2. TypeOK
  BY <1>1 DEF Init, TypeOK
<1>3. Rounds
  BY <1>1 DEF Init, Rounds, Emitted
<1>4. RequiredFirst
  BY DEF Init, RequiredFirst
<1>5. Trapped /\ Phases /\ CycleIffCyclic /\ Spreading
  BY DEF Init, Trapped, Phases, CycleIffCyclic, Spreading
<1>6. QED BY <1>2, <1>3, <1>4, <1>5 DEF GraphInv

\* Appending a ready stage: the only step that extends an order.
LEMMA AppendStep ==
  ASSUME GraphInv, AppendReady
  PROVE  GraphInv'
<1>1. PICK s \in ready :
        /\ ordered' = Append(ordered, s)
        /\ remaining' = remaining \ {s}
        /\ ready' = ready \ {s}
        /\ deps' = IF ready = {s} THEN [t \in All |-> deps[t] \cap remaining'] ELSE deps
  BY DEF AppendReady
<1>2. UNCHANGED <<requires, target, phase, universe, dependents, frontier>>
  BY DEF AppendReady
<1>3. /\ s \in remaining /\ s \in universe /\ s \in All
      /\ remaining \subseteq universe /\ universe \subseteq All
      /\ ordered \in Seq(All)
      /\ deps \in [All -> SUBSET All]
      /\ Len(ordered) \in Nat
  BY <1>1 DEF GraphInv, TypeOK
<1>4. /\ Len(ordered') = Len(ordered) + 1
      /\ \A i \in 1..Len(ordered) : ordered'[i] = ordered[i]
      /\ ordered'[Len(ordered) + 1] = s
  BY <1>1, <1>3
<1>5. requires[s] \cap remaining = {}
  BY <1>1, <1>3 DEF GraphInv, Rounds
<1>6. TypeOK'
  <2>1. ordered' \in Seq(All)
    BY <1>1, <1>3
  <2>2. deps' \in [All -> SUBSET All]
    BY <1>1, <1>3
  <2>3. QED BY <1>1, <1>2, <1>3, <2>1, <2>2 DEF GraphInv, TypeOK
<1>7. Emitted' = universe' \ remaining'
  <2>1. Emitted' = Emitted \cup {s}
    BY <1>3, <1>4 DEF Emitted
  <2>2. QED BY <1>1, <1>2, <1>3, <2>1 DEF GraphInv, Rounds
<1>8. Rounds'
  <2>1. \A t \in remaining' : requires'[t] \cap remaining' \subseteq deps'[t]
    BY <1>1, <1>2, <1>3 DEF GraphInv, Rounds
  <2>2. \A t \in remaining' : deps'[t] \subseteq requires'[t]
    BY <1>1, <1>2, <1>3 DEF GraphInv, Rounds
  <2>3. ready' = {} => \A t \in remaining' : deps'[t] \subseteq remaining'
    BY <1>1, <1>3
  <2>4. \A t \in ready' : deps'[t] = {}
    BY <1>1, <1>3 DEF GraphInv, Rounds
  <2>5. QED BY <1>7, <2>1, <2>2, <2>3, <2>4 DEF Rounds
<1>9. RequiredFirst'
  <2>1. s \notin Emitted
    BY <1>3 DEF GraphInv, Rounds
  <2>2. ASSUME NEW i \in 1..(Len(ordered) + 1), NEW j \in 1..(Len(ordered) + 1),
               ordered'[i] = ordered'[j]
        PROVE  i = j
    BY <1>3, <1>4, <2>1, <2>2 DEF GraphInv, RequiredFirst, Emitted
  <2>3. ASSUME NEW i \in 1..(Len(ordered) + 1), NEW d \in requires[ordered'[i]] \cap universe
        PROVE  \E j \in 1..(i - 1) : ordered'[j] = d
    <3>1. CASE i \in 1..Len(ordered)
      <4>1. PICK j \in 1..(i - 1) : ordered[j] = d
        BY <1>4, <2>3, <3>1 DEF GraphInv, RequiredFirst
      <4>2. QED BY <1>3, <1>4, <3>1, <4>1
    <3>2. CASE i = Len(ordered) + 1
      <4>1. d \in Emitted
        BY <1>4, <1>5, <2>3, <3>2 DEF GraphInv, Rounds
      <4>2. PICK j \in 1..Len(ordered) : ordered[j] = d
        BY <4>1 DEF Emitted
      <4>3. QED BY <1>3, <1>4, <3>2, <4>2
    <3>3. QED BY <1>3, <3>1, <3>2
  <2>4. QED BY <1>2, <1>4, <2>2, <2>3 DEF RequiredFirst
<1>10. Trapped'
  BY <1>1, <1>2, <1>5 DEF GraphInv, Trapped, Waiting
<1>11. Phases' /\ CycleIffCyclic' /\ Spreading'
  BY <1>1, <1>2 DEF AppendReady, Sorting, GraphInv, Phases, CycleIffCyclic, Cyclic, Spreading, Closed
<1>12. QED BY <1>6, <1>8, <1>9, <1>10, <1>11 DEF GraphInv

\* The other steps leave the order alone or start a new one.
LEMMA GraphStep == GraphInv /\ [Next]_vars => GraphInv'
<1> SUFFICES ASSUME GraphInv, [Next]_vars PROVE GraphInv'
  OBVIOUS
<1>1. CASE AppendReady
  BY <1>1, AppendStep
<1>2. CASE NewRound
  <2>1. UNCHANGED <<requires, target, phase, universe, remaining, deps, ordered,
                    dependents, frontier>> /\ ready' = Free /\ Free # {}
    BY <1>2 DEF NewRound
  <2>2. TypeOK'
    BY <2>1 DEF GraphInv, TypeOK, Free
  <2>3. Rounds'
    BY <2>1 DEF GraphInv, Rounds, Free, Emitted
  <2>4. RequiredFirst' /\ Trapped' /\ Phases' /\ CycleIffCyclic' /\ Spreading'
    BY <2>1 DEF GraphInv, RequiredFirst, Trapped, Waiting, Phases, CycleIffCyclic, Cyclic,
                Spreading, Closed
  <2>5. QED BY <2>2, <2>3, <2>4 DEF GraphInv
<1>3. CASE CycleDetected
  <2>1. UNCHANGED <<requires, target, universe, remaining, deps, ready, ordered,
                    dependents, frontier>> /\ phase' = "cycle"
    BY <1>3 DEF CycleDetected
  <2>2. Cyclic
    <3>1. \A s \in remaining : deps[s] # {} /\ deps[s] \subseteq requires[s] \cap remaining
      BY <1>3 DEF CycleDetected, Free, GraphInv, Rounds
    <3>2. remaining \in SUBSET All /\ remaining # {}
      BY <1>3 DEF CycleDetected, GraphInv, TypeOK
    <3>3. QED BY <3>1, <3>2 DEF Cyclic
  <2>3. TypeOK' /\ Rounds' /\ RequiredFirst' /\ Trapped'
    BY <2>1 DEF GraphInv, TypeOK, Rounds, Emitted, RequiredFirst, Trapped, Waiting
  <2>4. Phases' /\ CycleIffCyclic' /\ Spreading'
    BY <2>1, <2>2 DEF Phases, CycleIffCyclic, Cyclic, Spreading
  <2>5. QED BY <2>3, <2>4 DEF GraphInv
<1>4. CASE Validated
  <2>1. UNCHANGED <<requires, target, universe, remaining, deps, ready, ordered, dependents>>
        /\ phase = "validating" /\ remaining = {} /\ phase' = "spreading"
        /\ frontier' = {target}
    BY <1>4 DEF Validated
  <2>2. ~Cyclic
    BY <2>1 DEF GraphInv, Trapped, Waiting, Phases, Cyclic
  <2>3. TypeOK' /\ Rounds' /\ RequiredFirst' /\ Trapped'
    BY <2>1 DEF GraphInv, TypeOK, Rounds, Emitted, RequiredFirst, Trapped, Waiting
  <2>4. Phases' /\ CycleIffCyclic'
    BY <2>1, <2>2 DEF GraphInv, Phases, CycleIffCyclic, Cyclic
  <2>5. Spreading'
    <3>1. dependents = {}
      BY <2>1 DEF GraphInv, Phases
    <3>2. QED BY <2>1, <3>1 DEF Spreading, Closed
  <2>6. QED BY <2>3, <2>4, <2>5 DEF GraphInv
<1>5. CASE Spread
  <2> DEFINE found == {s \in All : requires[s] \cap frontier # {} /\ s \notin dependents}
  <2>1. UNCHANGED <<requires, target, phase, universe, remaining, deps, ready, ordered>>
        /\ phase = "spreading" /\ dependents' = dependents \cup found /\ frontier' = found
    BY <1>5 DEF Spread
  <2>2. TypeOK' /\ Rounds' /\ RequiredFirst' /\ Trapped' /\ Phases' /\ CycleIffCyclic'
    BY <2>1 DEF GraphInv, TypeOK, Rounds, Emitted, RequiredFirst, Trapped, Waiting, Phases,
                CycleIffCyclic, Cyclic
  <2>3. Spreading'
    <3>1. ASSUME NEW c \in SUBSET All, Closed(c)
          PROVE  dependents' \cup frontier' \subseteq c
      BY <2>1, <3>1 DEF GraphInv, Spreading, Closed
    <3>2. ASSUME NEW s \in All,
                 requires[s] \cap (({target} \cup dependents') \ frontier') # {}
          PROVE  s \in dependents'
      BY <2>1, <3>2 DEF GraphInv, Spreading
    <3>3. QED BY <2>1, <3>1, <3>2 DEF Spreading, Closed
  <2>4. QED BY <2>2, <2>3 DEF GraphInv
<1>6. CASE Invalidate
  <2>1. UNCHANGED <<requires, target, ready, dependents, frontier>>
        /\ phase = "spreading" /\ frontier = {} /\ phase' = "sorting"
        /\ universe' = {target} \cup dependents /\ remaining' = universe'
        /\ deps' = [s \in All |-> requires[s] \cap universe'] /\ ordered' = <<>>
    BY <1>6 DEF Invalidate, Restricted
  <2>2. requires \in [All -> SUBSET All]
    BY GraphsAssumption DEF GraphInv, TypeOK, All
  <2>3. ready = {} /\ target \in All /\ dependents \subseteq All
    BY <2>1 DEF GraphInv, TypeOK, Phases
  <2>4. TypeOK'
    BY <2>1, <2>2, <2>3 DEF GraphInv, TypeOK
  <2>5. Rounds'
    BY <2>1, <2>2, <2>3 DEF Rounds, Emitted
  <2>6. RequiredFirst' /\ Trapped'
    BY <2>1 DEF RequiredFirst, Trapped
  <2>7. Phases' /\ CycleIffCyclic' /\ Spreading'
    BY <2>1 DEF GraphInv, Phases, CycleIffCyclic, Cyclic, Spreading, Closed
  <2>8. QED BY <2>4, <2>5, <2>6, <2>7 DEF GraphInv
<1>7. CASE Return
  <2>1. UNCHANGED <<requires, target, universe, remaining, deps, ready, ordered,
                    dependents, frontier>>
        /\ phase = "sorting" /\ remaining = {} /\ phase' = "done"
    BY <1>7 DEF Return
  <2>2. TypeOK' /\ Rounds' /\ RequiredFirst' /\ Trapped'
    BY <2>1 DEF GraphInv, TypeOK, Rounds, Emitted, RequiredFirst, Trapped, Waiting
  <2>3. Phases' /\ CycleIffCyclic'
    BY <2>1 DEF GraphInv, Phases, CycleIffCyclic, Cyclic
  <2>4. Spreading'
    BY <2>1 DEF GraphInv, Spreading, Closed
  <2>5. QED BY <2>2, <2>3, <2>4 DEF GraphInv
<1>8. CASE UNCHANGED vars
  BY <1>8 DEF vars, GraphInv, TypeOK, Rounds, Emitted, RequiredFirst, Trapped, Waiting, Phases,
              CycleIffCyclic, Cyclic, Spreading, Closed
<1>9. QED BY <1>1, <1>2, <1>3, <1>4, <1>5, <1>6, <1>7, <1>8 DEF Next

\* Whatever the graph, no stage is ever ordered before one it requires.
THEOREM OrderRespectsRequirements == Spec => []RequiredFirst
<1>1. GraphInv => RequiredFirst
  BY DEF GraphInv
<1>2. QED BY <1>1, GraphInit, GraphStep, PTL DEF Spec

\* topological_order() raises on a cyclic graph and only on a cyclic graph.
THEOREM CyclesAreFound == Spec => []CycleIffCyclic
<1>1. GraphInv => CycleIffCyclic
  BY DEF GraphInv
<1>2. QED BY <1>1, GraphInit, GraphStep, PTL DEF Spec

\* What --force invalidates is the least set closed under "requires".
THEOREM ForceInvalidatesTheCascade == Spec => []ForceIsCascade
<1>1. GraphInv => ForceIsCascade
  <2> SUFFICES ASSUME GraphInv, phase = "done"
               PROVE  /\ Closed(Emitted)
                      /\ \A c \in SUBSET All : Closed(c) => Emitted \subseteq c
    BY DEF ForceIsCascade
  <2>1. Emitted = {target} \cup dependents /\ frontier = {}
    BY DEF GraphInv, Rounds, Phases
  <2>2. Closed(Emitted)
    BY <2>1 DEF GraphInv, Spreading, Closed
  <2>3. \A c \in SUBSET All : Closed(c) => dependents \subseteq c
    BY DEF GraphInv, Spreading
  <2>4. \A c \in SUBSET All : Closed(c) => target \in c
    BY DEF Closed
  <2>5. QED BY <2>1, <2>2, <2>3, <2>4
<1>2. QED BY <1>1, GraphInit, GraphStep, PTL DEF Spec
=============================================================================

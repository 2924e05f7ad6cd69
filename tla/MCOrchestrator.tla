--------------------------- MODULE MCOrchestrator ---------------------------
(* Small instances of Orchestrator for TLC. *)
EXTENDS OrchestratorInvariants, TLC

\* Three stages shaped like the end of the graph: two siblings on one parent.
ForkRequires == <<{}, {1}, {1}>>

\* Everything enabled; two settings of the second stage; a disabled leaf; a disabled parent,
\* which no invocation can complete.
AllOn     == {<<"a", "a", "a">>}
LeafOff   == {<<"a", "a", "off">>, <<"a", "a", "a">>}
ParentOff == {<<"a", "a", "a">>, <<"a", "b", "a">>, <<"off", "a", "a">>}
Symm      == Permutations(Procs)
=============================================================================

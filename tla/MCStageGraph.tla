---------------------------- MODULE MCStageGraph ----------------------------
(* StageGraph on every graph of M stages. *)
EXTENDS StageGraph

\* No stage requires itself; cycles of two or more stages are all here.
Loopless == {g \in [1..M -> SUBSET (1..M)] : \A s \in 1..M : s \notin g[s]}
=============================================================================

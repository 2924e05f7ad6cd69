---------------------------- MODULE RunDirectory ----------------------------
(***************************************************************************)
(* What every resumable run of python_dpo promises: a directory that is    *)
(* created once, in which pieces of work are recorded one at a time, never *)
(* twice and never taken back, however often the run is stopped and        *)
(* resumed, and which is settled only when all of its work is recorded and *)
(* never touched again.                                                    *)
(*                                                                         *)
(* Generation and Evaluation implement it; their refinement mappings are   *)
(* in those modules.                                                       *)
(***************************************************************************)
EXTENDS FiniteSets

CONSTANT Work        \* what the run was asked to do

VARIABLES
  phase,             \* "absent", "open" or "settled"
  recorded           \* the work that has an outcome on disk

dvars == <<phase, recorded>>

DirInit == phase = "absent" /\ recorded = {}

Open == phase = "absent" /\ phase' = "open" /\ UNCHANGED recorded

Record(w) ==
  /\ phase = "open"
  /\ w \notin recorded
  /\ recorded' = recorded \cup {w}
  /\ UNCHANGED phase

SettleRun ==
  /\ phase = "open"
  /\ recorded = Work
  /\ phase' = "settled"
  /\ UNCHANGED recorded

DirNext == Open \/ (\E w \in Work : Record(w)) \/ SettleRun

DirSpec == DirInit /\ [][DirNext]_dvars
=============================================================================

---------------------------- MODULE MCEvaluation ----------------------------
(* A small instance of Evaluation: two candidates that can be run, one that cannot. *)
EXTENDS Evaluation
=============================================================================

---------------------------- MODULE MCGeneration ----------------------------
(* A small instance of Generation and of what `runs validate` says of it: two candidates of one problem, one of another. *)
EXTENDS RunValidation

ThreeSlots == <<"q1", "q1", "q2">>
=============================================================================

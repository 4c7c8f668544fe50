---------------------------- MODULE MCTaskInputs ----------------------------
(* A small instance of TaskInputs; messages are interchangeable. *)
EXTENDS TaskInputs, TLC

MessageSymmetry == Permutations(Messages)

=============================================================================

------------------------------ MODULE MCTasker ------------------------------
(* TLC instance of Tasker: interchangeable workers. *)
EXTENDS Tasker, TLC

Symmetry == Permutations(Worker)
=============================================================================

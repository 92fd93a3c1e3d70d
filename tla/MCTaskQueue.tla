---------------------------- MODULE MCTaskQueue ----------------------------
(* TaskQueue for the model checker. *)
EXTENDS TaskQueue, TLC

\* Task ids are interchangeable: nothing compares them but equality.
TaskSymmetry == Permutations(Task)
=============================================================================

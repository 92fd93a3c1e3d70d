--------------------------- MODULE MCToolWorkerPool ---------------------------
(* ToolWorkerPool for the model checker. *)
EXTENDS ToolWorkerPool, TLC

\* Calls and worker slots are interchangeable.
PoolSymmetry == Permutations(Call) \union Permutations(Worker)
=============================================================================

---------------------------- MODULE MCDependencyStore ----------------------------
(* DependencyStore for the model checker. *)
EXTENDS DependencyStore, TLC

\* Keys and build ids are interchangeable; launches are ordered.
StoreSymmetry == Permutations(Key) \union Permutations(Object)
=============================================================================

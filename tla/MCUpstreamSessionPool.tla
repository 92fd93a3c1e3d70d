------------------------- MODULE MCUpstreamSessionPool -------------------------
(* UpstreamSessionPool for the model checker. *)
EXTENDS UpstreamSessionPool, TLC

\* The second activation selects other contents.
MCGeneration == <<1, 2>>

\* Routes, entry objects and session ids are interchangeable.
PoolSymmetry == Permutations(Route) \union Permutations(Entry) \union Permutations(Session)
=============================================================================

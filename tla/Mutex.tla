-------------------------------- MODULE Mutex --------------------------------
(***************************************************************************)
(* What a mutation lock promises its callers (the handle of                *)
(* createMutationLockManager in ploinky-box/locks.mjs): at most one command *)
(* holds it, and it passes from one holder to the next only through a      *)
(* state in which nobody holds it.                                         *)
(***************************************************************************)
CONSTANT Command
VARIABLE holders

Init == holders = {}

Acquire(p) == holders = {} /\ holders' = {p}

\* A release, or the end of the holder's process.
GiveUp == holders # {} /\ holders' = {}

Next == (\E p \in Command : Acquire(p)) \/ GiveUp

Spec == Init /\ [][Next]_holders
=============================================================================

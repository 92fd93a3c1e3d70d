----------------------------- MODULE MCWatchdog -----------------------------
(* Watchdog for the model checker: its constants are numbers given in the cfg. *)
EXTENDS Watchdog
=============================================================================

--------------------------- MODULE MCMaintenanceLocks ---------------------------
(* MaintenanceLocks for the model checker. *)
EXTENDS MaintenanceLocks
=============================================================================

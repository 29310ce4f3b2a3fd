------------------------- MODULE MCManagedConversion -------------------------
(* Small instances of ManagedConversion. *)
EXTENDS ManagedConversion, TLC

CONSTANTS r1, r2
=============================================================================

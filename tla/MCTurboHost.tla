---------------------------- MODULE MCTurboHost -----------------------------
(* Model checking of TurboHost: the constants are in the .cfg files. *)
EXTENDS TurboHost
=============================================================================

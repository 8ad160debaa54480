----------------------------- MODULE MCPreamble -----------------------------
(* Model checking of Preamble: the constants are in the .cfg files. *)
EXTENDS Preamble
=============================================================================

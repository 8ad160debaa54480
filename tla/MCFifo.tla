------------------------------- MODULE MCFifo -------------------------------
(* A ring of four slots, short enough to wrap within the bytes stored. *)
EXTENDS Fifo

MCRequest == 0..4
=============================================================================

------------------------------ MODULE MCTagTx -------------------------------
(* A fifo of two samples; a repeat_count has two digits. *)
EXTENDS TagTx
=============================================================================

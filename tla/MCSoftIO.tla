------------------------------ MODULE MCSoftIO ------------------------------
(* Sizes scaled down: a head is two bytes, an acknowledgement one. *)
EXTENDS SoftIO

DownOnly == [up |-> 0, down |-> 3]
UpOnly   == [up |-> 2, down |-> 0]
=============================================================================

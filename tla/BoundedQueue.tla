---------------------------- MODULE BoundedQueue ----------------------------
(***************************************************************************)
(* What a Fifo_t promises to the one thread that fills it and the one that *)
(* drains it: a queue of at most Capacity bytes that loses, repeats and    *)
(* reorders nothing.  The detailed account is module Fifo.                 *)
(***************************************************************************)
EXTENDS Naturals, Sequences

CONSTANTS Data, Capacity

VARIABLES
  queue,   \* the bytes published and not yet given back, oldest first
  got      \* what the last completed read returned

Init == queue = <<>> /\ got = <<>>

(* Publishing a batch: all of its bytes become visible together. *)
Put(n) ==
  \E batch \in [1..n -> Data] :
    /\ Len(queue) + n <= Capacity
    /\ queue' = queue \o batch
    /\ UNCHANGED got

(* A read returns the oldest n bytes and removes exactly those. *)
Take(n) ==
  /\ got' = SubSeq(queue, 1, n)
  /\ queue' = SubSeq(queue, n + 1, Len(queue))

(* Clearing drops a prefix: bytes published while it runs may survive. *)
Drop(n) ==
  /\ queue' = SubSeq(queue, n + 1, Len(queue))
  /\ UNCHANGED got

Next ==
  \/ \E n \in 1..Capacity : Put(n)
  \/ \E n \in 0..Len(queue) : Take(n) \/ Drop(n)

Spec == Init /\ [][Next]_<<queue, got>>
=============================================================================

-------------------------------- MODULE Fifo --------------------------------
(***************************************************************************)
(* RetroLib/fifo.h: the byte ring every part of the system is joined by.   *)
(*                                                                         *)
(* One side fills it and one side drains it without a lock: an interrupt   *)
(* handler and the main loop on the boards, two threads on the host.  An   *)
(* operation reads the other side's cursor once, at its start, then moves  *)
(* bytes, then stores its own cursor; each of those is a step here.        *)
(*                                                                         *)
(* A definition that stands just before another and differs from it in one *)
(* place is that other one with a bug: it is used by no action, and shows  *)
(* in the mutation runs that a property notices it.                        *)
(***************************************************************************)
EXTENDS Integers, Sequences

CONSTANTS
  Length,     \* slots of the ring
  Data,       \* byte values told apart
  Request,    \* the lengths callers ask for
  MaxStored   \* bound on the bytes ever stored

ASSUME LengthAssumption == Length \in Nat /\ Length > 1
ASSUME RequestAssumption == Request \subseteq Nat

Slots == 0..(Length - 1)

VARIABLES
  buf,     \* the slots
  read,    \* fifo->read, stored by the drain side only
  write,   \* fifo->write, stored by the fill side only
  fill,    \* the fill side: what it does, the bytes it will store, has stored
  drain,   \* the drain side: what it does, the bytes it will take, has copied
  got,     \* what the last completed read returned to its caller
  stored,  \* history: every byte stored into a slot
  gone     \* history: how many of those the drain side has given back

vars == <<buf, read, write, fill, drain, got, stored, gone>>

-----------------------------------------------------------------------------
(* The cursor arithmetic of fifo.h. *)

Smaller(a, b) == IF a <= b THEN a ELSE b

Count(r, w)   == (w - r + Length) % Length

RemainWithoutSpareSlot(r, w) == Length - Count(r, w)
Remain(r, w)  == Length - Count(r, w) - 1

Full(r, w)    == (w + 1) % Length = r
Empty(r, w)   == r = w

AdvanceUnwrapped(c, n)    == c + n
AdvanceOneTooFar(c, n)    == (c + n + 1) % Length
Advance(c, n) == (c + n) % Length

SlotWithoutRestart(c, k) == IF k < Length - c THEN c + k ELSE k

(* Byte k of a transfer that starts at cursor c: in the slice up to the    *)
(* end of the buffer, or in the one that starts over at its base.          *)
Slot(c, k) == IF k < Length - c THEN c + k ELSE k - (Length - c)

-----------------------------------------------------------------------------
Init ==
  /\ buf \in [Slots -> Data]
  /\ read = 0
  /\ write = 0
  /\ fill = [op |-> "idle", len |-> 0, done |-> 0]
  /\ drain = [op |-> "idle", len |-> 0, dst |-> <<>>]
  /\ got = <<>>
  /\ stored = <<>>
  /\ gone = 0

(* The fill side. *)

BeginFill(n) ==
  /\ fill.op = "idle"
  /\ fill' = [op |-> "copy", len |-> n, done |-> 0]
  /\ UNCHANGED <<buf, read, write, drain, got, stored, gone>>

(* fifo_enque behind the fifo_full test its callers make. *)
Enque ==
  /\ ~Full(read, write)
  /\ BeginFill(1)

(* fifo_copy_from_buffer: never more than fits. *)
CopyFromBuffer ==
  \E max \in Request : BeginFill(Smaller(Remain(read, write), max))

(* One round of __softio_gets_fifo_blocking: the device may deliver fewer  *)
(* bytes than asked, and is never asked to cross the end of the buffer.    *)
GetsIntoFifo ==
  \E size \in Request \cap Slots :
    /\ Count(read, write) < size
    /\ \E ret \in 0..Smaller(size - Count(read, write), Length - write) :
         BeginFill(ret)

Store ==
  /\ fill.op = "copy"
  /\ fill.done < fill.len
  /\ Len(stored) < MaxStored
  /\ \E byte \in Data :
       /\ buf' = [buf EXCEPT ![Slot(write, fill.done)] = byte]
       /\ stored' = Append(stored, byte)
  /\ fill' = [fill EXCEPT !.done = @ + 1]
  /\ UNCHANGED <<read, write, drain, got, gone>>

PublishBeforeStore ==
  /\ fill.op = "copy"
  /\ write' = Advance(write, fill.len)
  /\ fill' = [op |-> "idle", len |-> 0, done |-> 0]
  /\ UNCHANGED <<buf, read, drain, got, stored, gone>>

Publish ==
  /\ fill.op = "copy"
  /\ fill.done = fill.len
  /\ write' = Advance(write, fill.len)
  /\ fill' = [op |-> "idle", len |-> 0, done |-> 0]
  /\ UNCHANGED <<buf, read, drain, got, stored, gone>>

(* The drain side. *)

BeginDrain(op, n) ==
  /\ drain.op = "idle"
  /\ drain' = [op |-> op, len |-> n, dst |-> <<>>]
  /\ UNCHANGED <<buf, read, write, fill, got, stored, gone>>

(* fifo_deque behind the fifo_empty test its callers make. *)
Deque ==
  /\ ~Empty(read, write)
  /\ BeginDrain("copy", 1)

(* fifo_move_to_buffer: never more than there is. *)
MoveToBuffer ==
  \E max \in Request : BeginDrain("copy", Smaller(Count(read, write), max))

(* One round of __softio_puts_fifo_blocking: drain until size slots are    *)
(* free, never across the end of the buffer; the device may take fewer.    *)
PutsFromFifo ==
  \E size \in Request \cap Slots :
    /\ Remain(read, write) < size
    /\ \E ret \in 0..Smaller(size - Remain(read, write), Length - read) :
         BeginDrain("copy", ret)

(* fifo_clear: loads write, then stores it into read. *)
Clear == BeginDrain("clear", Count(read, write))

Load ==
  /\ drain.op = "copy"
  /\ Len(drain.dst) < drain.len
  /\ drain' = [drain EXCEPT !.dst = Append(@, buf[Slot(read, Len(@))])]
  /\ UNCHANGED <<buf, read, write, fill, got, stored, gone>>

Release ==
  /\ \/ drain.op = "copy" /\ Len(drain.dst) = drain.len /\ got' = drain.dst
     \/ drain.op = "clear" /\ UNCHANGED got
  /\ read' = Advance(read, drain.len)
  /\ gone' = gone + drain.len
  /\ drain' = [op |-> "idle", len |-> 0, dst |-> <<>>]
  /\ UNCHANGED <<buf, write, fill, stored>>

Next ==
  \/ Enque \/ CopyFromBuffer \/ GetsIntoFifo \/ Store \/ Publish
  \/ Deque \/ MoveToBuffer \/ PutsFromFifo \/ Clear \/ Load \/ Release

Spec == Init /\ [][Next]_vars

-----------------------------------------------------------------------------
(* The bytes published and not given back. *)
Published == SubSeq(stored, gone + 1, gone + Count(read, write))

(* Cursors point into the buffer, lengths fit in it: what Fifo_t's 32-bit   *)
(* members hold.                                                           *)
TypeOK ==
  /\ buf \in [Slots -> Data]
  /\ read \in Slots
  /\ write \in Slots
  /\ fill \in [op : {"idle", "copy"}, len : Slots, done : Slots]
  /\ drain \in [op : {"idle", "copy", "clear"}, len : Slots, dst : Seq(Data)]
  /\ got \in Seq(Data)
  /\ stored \in Seq(Data)
  /\ gone \in Nat

(* A transfer length computed from the other side's cursor stays good for  *)
(* as long as the transfer runs, however far that cursor moves meanwhile:  *)
(* fifo_count warns that it is "not consistant because of no lock"         *)
(* (fifo.h:107), and every copy relies on it all the same.                 *)
StaleLengthIsSafe ==
  /\ fill.done <= fill.len
  /\ fill.len <= Remain(read, write)
  /\ Len(drain.dst) <= drain.len
  /\ drain.len <= Count(read, write)

(* No slot the drain side still owns is stored into: every byte stored and *)
(* not given back, published or not, is still in the slot that will be     *)
(* read for it.                                                            *)
NothingOverwritten ==
  \A i \in 0..((Count(read, write) + fill.done) - 1) :
    buf[Slot(read, i)] = stored[gone + i + 1]

(* The cursors account for every byte ever stored: none is skipped by a    *)
(* wrap, none is handed out twice.                                         *)
NothingLost == Len(stored) = gone + Count(read, write) + fill.done

(* What a read has copied so far are the oldest bytes, in the order they   *)
(* were stored.                                                            *)
DeliveredInOrder ==
  \A k \in 1..Len(drain.dst) : drain.dst[k] = stored[gone + k]

(* The ring implements the queue, with all of its copies, slices and       *)
(* cursor updates interleaved.                                             *)
Queue == INSTANCE BoundedQueue
           WITH Capacity <- Length - 1, queue <- Published

ImplementsQueue == Queue!Spec
=============================================================================

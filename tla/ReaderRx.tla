------------------------------ MODULE ReaderRx ------------------------------
(***************************************************************************)
(* Reception by the reader: an interrupt of the board stores one sample    *)
(* after the other in adc_data, the main loop pushes packets of them to    *)
(* the PC (SoftReader/reader-H7xx.h), where the receiving thread moves     *)
(* them on (SoftReader/reader-H7xx-ex.h).                                  *)
(*                                                                         *)
(* A sample (8 bytes) is the number of its period.  softio is two ordered  *)
(* queues (module SoftIO).  Other threads of the PC use it too and take in *)
(* packets at any time, so that Handle is no step of the thread.           *)
(*                                                                         *)
(* A definition that stands just before another and differs from it in one *)
(* place is that other one with a bug, for the mutation runs.              *)
(***************************************************************************)
EXTENDS Integers, Sequences, FiniteSets

CONSTANTS
  Capacity,   \* samples in adc_data, on both sides: (Length() - 8) / 8
  Packet,     \* samples in a pushed packet: 248 / 8
  Allowance,  \* adc_data_push_packets_count: 56875*8/254/2
  UnderWay,   \* packets that siotx and the USB hold
  MaxSamples  \* bound: samples measured

ASSUME SizeAssumption ==
  /\ Capacity \in Nat /\ Packet \in 1..Capacity /\ Allowance \in Nat
  /\ UnderWay \in Nat /\ MaxSamples \in Nat

VARIABLES
  flag,       \* DEMOD_DOWNSAMPLE_FLAG_OUTPUT_8BYTE of the board
  adc,        \* its adc_data
  overflow,   \* its adc_data_overflow
  allowed,    \* its adc_data_push_packets_count
  todo,       \* requests the board has not carried out
  coming,     \* packets and answers the PC has not taken in
  local,      \* the PC's adc_data
  mem,        \* its copy of adc_data_overflow
  running,    \* rx_running
  rx,         \* where the receiving thread is
  main,       \* where the thread is that starts and stops it
  now,        \* history: periods that have passed
  first,      \* history: ... when the flag was set last
  delivered,  \* history: samples handed on since then
  fault       \* the assertion that has failed

board == <<flag, adc, overflow, allowed>>
link == <<todo, coming>>
copies == <<local, mem>>
threads == <<running, rx, main>>
history == <<now, first, delivered>>
vars == <<board, link, copies, threads, history, fault>>

Running == fault = "none"

Init ==
  /\ flag = FALSE /\ adc = <<>> /\ overflow = 0 /\ allowed = 0
  /\ todo = <<>> /\ coming = <<>>
  /\ local = <<>> /\ mem = 0
  /\ running = FALSE /\ rx = "none" /\ main = "idle"
  /\ now = 0 /\ first = 0 /\ delivered = <<>>
  /\ fault = "none"

-----------------------------------------------------------------------------
(* The board. *)

Board == Running /\ UNCHANGED <<copies, threads, delivered, fault>>

Stored == Append(adc, now + 1)

FullTooLate == Len(adc) > Capacity

Full == Len(adc) >= Capacity  \* out->length - fifo_data_count(out) <= 8

(* The ADC interrupt, once per period. *)
Measure ==
  /\ Board
  /\ now < MaxSamples /\ flag
  /\ now' = now + 1
  /\ IF Full THEN overflow' = overflow + 1 /\ UNCHANGED adc
             ELSE adc' = Stored /\ UNCHANGED overflow
  /\ UNCHANGED <<flag, allowed, link, first>>

Pushes == Cardinality({i \in 1..Len(coming) : coming[i].op = "push"})

(* reader_h7_loop *)
Push ==
  /\ Board
  /\ allowed > 0 /\ Len(adc) >= Packet /\ Pushes < UnderWay
  /\ allowed' = allowed - 1
  /\ coming' = Append(coming, [op |-> "push", samples |-> SubSeq(adc, 1, Packet), n |-> 0])
  /\ adc' = SubSeq(adc, Packet + 1, Len(adc))
  /\ UNCHANGED <<flag, overflow, todo, now, first>>

Answer(op, n) == [op |-> op, samples |-> <<>>, n |-> n]

(* What each request does to the board. *)
Carry ==
  /\ Board
  /\ todo # <<>> /\ todo' = Tail(todo)
  /\ LET op == Head(todo) IN
     /\ flag' = IF op = "off" THEN FALSE ELSE IF op = "on" THEN TRUE ELSE flag
     /\ adc' = IF op = "reset" THEN <<>> ELSE adc
     /\ overflow' = IF op = "zero" THEN 0 ELSE overflow
     /\ allowed' = IF op = "allow" THEN Allowance ELSE IF op = "forbid" THEN 0 ELSE allowed
     /\ first' = IF op = "on" THEN now ELSE first
     /\ coming' = Append(coming, IF op = "read" THEN Answer("read", overflow)
                                                ELSE Answer("ack", 0))
  /\ UNCHANGED now

-----------------------------------------------------------------------------
(* The PC. *)

Ask(requests) == todo' = todo \o requests /\ UNCHANGED coming

Answered == todo = <<>> /\ \A i \in 1..Len(coming) : coming[i].op = "push"

(* Whoever is inside softio takes in the next message. *)
Handle ==
  /\ Running
  /\ coming # <<>> /\ coming' = Tail(coming)
  /\ LET m == Head(coming) IN
     /\ mem' = IF m.op = "read" THEN m.n ELSE mem
     /\ IF Len(local) + Len(m.samples) <= Capacity
        THEN local' = local \o m.samples /\ UNCHANGED fault
        ELSE fault' = "fifo is not enough to write" /\ UNCHANGED local
  /\ UNCHANGED <<board, todo, threads, history>>

(* start_rx_receiving: blocking requests, one after the other. *)
BeginResetLast == <<"off", "zero", "allow", "on", "reset">>

Begin == <<"off", "reset", "zero", "allow", "on">>

Main(from, to) ==
  /\ Running
  /\ main = from /\ main' = to
  /\ UNCHANGED <<board, rx, now, first, fault>>

Start ==
  /\ Main("idle", "off")
  /\ Ask(<<"off">>)
  /\ delivered' = <<>>
  /\ UNCHANGED <<copies, running>>

Starting ==
  /\ Answered
  /\ \E i \in 1..(Len(Begin) - 1) :
       /\ Main(Begin[i], Begin[i + 1])
       /\ Ask(<<Begin[i + 1]>>)
       /\ mem' = IF Begin[i + 1] = "zero" THEN 0 ELSE mem
       /\ local' = IF Begin[i + 1] = "on" THEN <<>> ELSE local
  /\ UNCHANGED <<running, delivered>>

(* "must set this before starting thread, to avoid unexpected situation" *)
Launch ==
  /\ Running
  /\ main = Begin[Len(Begin)] /\ Answered
  /\ main' = "started" /\ running' = TRUE /\ rx' = "top"
  /\ UNCHANGED <<board, link, copies, history, fault>>

StopUnsignalled ==
  /\ Main("started", "join")
  /\ UNCHANGED <<running, link, copies, delivered>>

Stop ==
  /\ Main("started", "join")
  /\ running' = FALSE
  /\ UNCHANGED <<link, copies, delivered>>

Join ==
  /\ Main("join", "idle")
  /\ rx = "none"
  /\ UNCHANGED <<link, copies, running, delivered>>

-----------------------------------------------------------------------------
(* __rx_receiving_thread *)

Rx(from, to) ==
  /\ Running
  /\ rx = from /\ rx' = to
  /\ UNCHANGED <<board, running, main, now, first>>

Check == fault' = IF mem = 0 THEN fault ELSE "adc_data_overflow"

LeaveLoopUnread ==
  /\ IF running THEN Rx("top", "loop") /\ UNCHANGED link
                ELSE Rx("top", "off") /\ Ask(<<"off">>)
  /\ UNCHANGED <<copies, delivered, fault>>

LeaveLoop ==
  /\ IF running THEN Rx("top", "loop") /\ UNCHANGED link
                ELSE Rx("top", "off") /\ Ask(<<"read", "off">>)
  /\ UNCHANGED <<copies, delivered, fault>>

(* Every 5 ms, which are enough for the requests made before to be         *)
(* answered, but for the read of the round before: softio_delay leaves it  *)
(* in siotx until something is flushed, which may be "allow".              *)
Restore ==
  /\ Rx("loop", "move")
  /\ todo \in {<<>>, <<"read">>}
  /\ \A i \in 1..Len(coming) : coming[i].op # "ack"
  /\ Ask(<<"allow", "read">>)
  /\ Check
  /\ UNCHANGED <<copies, delivered>>

Move ==
  /\ Rx("loop", "top") \/ Rx("move", "top")
  /\ delivered' = delivered \o local
  /\ local' = <<>>
  /\ UNCHANGED <<link, mem, fault>>

Forbid ==
  /\ Rx("off", "forbid")
  /\ Answered
  /\ Ask(<<"forbid">>)
  /\ UNCHANGED <<copies, delivered, fault>>

ResetFifo ==
  /\ Rx("forbid", "reset")
  /\ Answered
  /\ Check
  /\ Ask(<<"reset">>)
  /\ UNCHANGED <<copies, delivered>>

End ==
  /\ Rx("reset", "none")
  /\ Answered
  /\ local' = <<>>
  /\ UNCHANGED <<link, mem, delivered, fault>>

Caller == Starting \/ Launch \/ Join
Thread == LeaveLoop \/ Restore \/ Move \/ Forbid \/ ResetFifo \/ End

Next == Start \/ Stop \/ Caller \/ Thread \/ Handle \/ Measure \/ Push \/ Carry

Spec == Init /\ [][Next]_vars

(* Threads and board run on; starting and stopping is left open.           *)
Fairness == WF_vars(Caller) /\ WF_vars(Thread) /\ WF_vars(Handle) /\ WF_vars(Carry)

FairSpec == Spec /\ Fairness

-----------------------------------------------------------------------------
(* Neither fifo holds more than it can.                                    *)
TypeOK ==
  /\ flag \in BOOLEAN /\ overflow \in Nat /\ allowed \in 0..Allowance
  /\ adc \in Seq(1..now) /\ Len(adc) <= Capacity
  /\ local \in Seq(1..now) /\ Len(local) <= Capacity
  /\ mem \in Nat /\ running \in BOOLEAN

(* While the board measures, every period since the flag was set is        *)
(* somewhere on its way, delivered, or counted as an overflow: none is     *)
(* left over from an earlier start, and no clear or reset hits the stream. *)
NothingLostUncounted ==
  flag /\ Running => now - first =
    Len(delivered) + Len(local) + Packet * Pushes + Len(adc) + overflow

(* When the thread has ended without a failed assertion, what it handed on *)
(* is one piece, beginning with the first period: an overflow is noticed   *)
(* although its count is read late (reader-H7xx-ex.h:310, 342).            *)
GapsAreNoticed ==
  main = "idle" /\ Running => \A i \in 1..Len(delivered) : delivered[i] = first + i

(* stop_rx_receiving joins the thread, or an assertion stops the program.  *)
StopReturns == main = "join" ~> main = "idle" \/ fault # "none"
=============================================================================

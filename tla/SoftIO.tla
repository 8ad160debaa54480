------------------------------- MODULE SoftIO -------------------------------
(***************************************************************************)
(* RetroLib/softio.h: a program on the PC and the firmware of a board      *)
(* share a block of memory by sending each other requests and answers.     *)
(*                                                                         *)
(* Both ends run the same library.  An end keeps the heads of the requests *)
(* it has sent in a small ring, where an answer is matched with the oldest *)
(* of them.  The PC is given gets and puts and blocks in them; the board   *)
(* is given neither, its bytes come and go in USB interrupts.              *)
(*                                                                         *)
(* The shared memory is one variable and two Fifo_t: "down" is filled by   *)
(* the PC for the board (tx_data), "up" by the board for the PC            *)
(* (adc_data).  The bytes of a stream are numbered, so that a lost, a      *)
(* repeated or a misplaced one shows.                                      *)
(*                                                                         *)
(* A definition that stands just before another and differs from it in one *)
(* place is that other one with a bug, for the mutation runs.              *)
(***************************************************************************)
EXTENDS Integers, Sequences

CONSTANTS
  RingLength,  \* SOFTIO_HEAD_LENGTH: one more than the heads it can hold
  HeadBytes,   \* bytes of a head
  AckBytes,    \* bytes of an answer before its data: type and length
  SumBytes,    \* bytes of a checksum
  RxLength, TxLength,  \* bytes of siorx and siotx, the same at both ends
  FifoLength,  \* bytes of the shared Fifo_t
  MaxLen,      \* the most bytes a request may be about, 254
  Packet,      \* the most a USB transfer moves
  PushBytes,   \* bytes the board pushes at a time
  PushRoom,    \* room in siotx the board wants before it pushes
  Keeps,       \* the ends compiled without NOT_HANDLE_RESPOND
  Calls,       \* the requests the program on the PC makes
  Reckons,     \* whether it makes no more of its stream than the board has room for
  Values,      \* values of the variable
  MaxCalls, MaxMade, MaxPushes  \* bounds on calls, on the bytes of each stream,
               \* on pushes

Peer == {"pc", "mcu"}
Other(p) == IF p = "pc" THEN "mcu" ELSE "pc"
Stream == {"up", "down"}
Types == {"read", "write", "read_fifo", "write_fifo", "clear_fifo"}

ASSUME SizeAssumption ==
  /\ RingLength \in Nat /\ RingLength > 1
  /\ \A n \in {HeadBytes, AckBytes, RxLength, TxLength, FifoLength, MaxLen, Packet,
               PushBytes} : n \in Nat /\ n > 0
  /\ SumBytes \in Nat /\ PushRoom \in Nat
ASSUME PushAssumption == PushBytes < FifoLength /\ PushBytes <= MaxLen
ASSUME BoundsAssumption ==
  /\ MaxCalls \in Nat /\ MaxPushes \in Nat
  /\ MaxMade \in [{"up", "down"} -> Nat]
ASSUME KeepsAssumption == "pc" \in Keeps /\ Keeps \subseteq Peer
ASSUME CallsAssumption == Calls \subseteq Types /\ Reckons \in BOOLEAN

VARIABLES
  at,      \* where each end is in its program
  ring,    \* the heads each end waits for answers to, oldest first
  out,     \* messages each end has sent that the other has not taken out yet
  queued,  \* of their bytes, those in the sender's siotx
  flying,  \* ... those between the two
  arrived, \* ... those in the receiver's siorx
  value,   \* each end's copy of the variable
  fifo,    \* each end's two Fifo_t
  made,    \* history: bytes produced per stream
  taken,   \* history: bytes consumed per stream
  cleared, \* history: bytes thrown away by clear_fifo
  calls,   \* how many calls the PC has made
  pushes,  \* how many more packets the board may push
  fault    \* the assertion that has failed

wire == <<queued, flying, arrived>>
history == <<made, taken, cleared>>
vars == <<at, ring, out, wire, value, fifo, history, calls, pushes, fault>>

Smaller(a, b) == IF a <= b THEN a ELSE b
Larger(a, b)  == IF a >= b THEN a ELSE b

-----------------------------------------------------------------------------
(* Messages and their bytes. *)

Request(type, len, data) ==
  [type |-> type, ret |-> FALSE, len |-> len, data |-> data]
Answer(type, data) ==
  [type |-> type, ret |-> TRUE, len |-> Len(data), data |-> data]
Acknowledge(type, len) ==
  [type |-> type, ret |-> TRUE, len |-> len, data |-> <<>>]

Size(m) ==
  CASE ~m.ret /\ m.type \in {"write", "write_fifo"} ->
         HeadBytes + Len(m.data) + SumBytes
    [] ~m.ret /\ m.type \notin {"write", "write_fifo"} -> HeadBytes
    [] m.ret /\ m.type \in {"read", "read_fifo"} ->
         AckBytes + Len(m.data) + SumBytes
    [] m.ret /\ m.type \in {"write", "write_fifo"} -> AckBytes
    [] m.ret /\ m.type = "clear_fifo" -> 1

(* The sequences in ss, one behind the other. *)
Flatten(ss) ==
  LET upto[n \in 0..Len(ss)] == IF n = 0 THEN <<>> ELSE upto[n - 1] \o ss[n]
  IN  upto[Len(ss)]

Encoding(m) == [n \in 1..Size(m) |-> m]
Bytes(ms) == Len(Flatten([i \in 1..Len(ms) |-> Encoding(ms[i])]))

Answers(ms)  == Flatten([i \in 1..Len(ms) |-> IF ms[i].ret THEN <<ms[i]>> ELSE <<>>])
Requests(ms) == Flatten([i \in 1..Len(ms) |-> IF ms[i].ret THEN <<>> ELSE <<ms[i]>>])

FifoOf(p) == IF p = "pc" THEN "down" ELSE "up"  \* the stream p fills

-----------------------------------------------------------------------------
(* What an end does with the head of its siorx.  p is the end that sent    *)
(* it, q = Other(p) the one that handles it.                               *)

RoomOf(q) == TxLength - 1 - queued[q]

(* The answer to request m, computed when there is room for it. *)
AnswerTo(q, m) ==
  CASE m.type = "read"       -> Answer("read", <<value[q]>>)
    [] m.type = "read_fifo"  ->
         Answer("read_fifo", SubSeq(fifo[q]["up"], 1,
                                    Smaller(m.len, Len(fifo[q]["up"]))))
    [] m.type = "write"      -> Acknowledge("write", m.len)
    [] m.type = "write_fifo" -> Acknowledge("write_fifo", m.len)
    [] m.type = "clear_fifo" -> Acknowledge("clear_fifo", 0)

(* fifo_enque tests nothing: one byte too many and the ring looks empty. *)
Enque(f, bytes) ==
  LET n == Len(f) + Len(bytes)
  IN  IF n < FifoLength THEN f \o bytes
      ELSE SubSeq(f \o bytes, n - (n % FifoLength) + 1, n)

(* The assertion that fails when q handles m, or "none". *)
AssertionOn(q, m) ==
  IF ~m.ret
  THEN IF m.type = "write_fifo" /\ FifoLength - 1 - Len(fifo[q][FifoOf(Other(q))]) < Len(m.data)
       THEN "fifo_is_not_enough_to_write" ELSE "none"
  ELSE IF q \notin Keeps THEN "none"
  ELSE IF ring[q] = <<>> THEN "transaction_empty_but_receive_respond"
  ELSE IF Head(ring[q]).type # m.type
       THEN "ret_and_request_must_be_the_same_type"
  ELSE IF \/ m.type \in {"read", "write", "write_fifo"} /\ m.len # Head(ring[q]).len
          \/ m.type = "read_fifo" /\ m.len > Head(ring[q]).len
       THEN "transaction_length_not_equal"
  ELSE "none"

NewValueIgnoringReads(q, m) ==
  IF m.type = "write" /\ ~m.ret THEN m.data[1] ELSE value[q]

(* The memory of q after message m: a write changes it on the side that is *)
(* asked, a read on the side that has asked.                               *)
NewValue(q, m) ==
  IF \/ m.type = "write" /\ ~m.ret
     \/ m.type = "read" /\ m.ret /\ q \in Keeps
  THEN m.data[1] ELSE value[q]

NewFifo(q, m) ==
  LET f == FifoOf(Other(q))
      has == fifo[q]
  IN  CASE m.type = "write_fifo" /\ ~m.ret -> [has EXCEPT ![f] = Enque(@, m.data)]
        [] m.type = "read_fifo" /\ ~m.ret  ->
             [has EXCEPT !["up"] = SubSeq(@, Smaller(m.len, Len(@)) + 1, Len(@))]
        [] m.type = "clear_fifo" /\ ~m.ret -> [has EXCEPT ![f] = <<>>]
        [] m.type = "read_fifo" /\ m.ret /\ q \in Keeps ->
             [has EXCEPT !["up"] = Enque(@, m.data)]
        [] OTHER -> has

Apply(q, m) ==
  /\ value' = [value EXCEPT ![q] = NewValue(q, m)]
  /\ fifo' = [fifo EXCEPT ![q] = NewFifo(q, m)]
  /\ cleared' = IF m.type = "clear_fifo" /\ ~m.ret
                THEN [cleared EXCEPT !["down"] = @ + Len(fifo[q]["down"])]
                ELSE cleared
  /\ ring' = IF m.ret /\ q \in Keeps THEN [ring EXCEPT ![q] = Tail(@)] ELSE ring

-----------------------------------------------------------------------------
Init ==
  /\ at = [p \in Peer |-> [do |-> "idle", type |-> "read", len |-> 1, back |-> "idle"]]
  /\ ring = [p \in Peer |-> <<>>]
  /\ out = [p \in Peer |-> <<>>]
  /\ queued = [p \in Peer |-> 0]
  /\ flying = [p \in Peer |-> 0]
  /\ arrived = [p \in Peer |-> 0]
  /\ value \in [Peer -> Values]
  /\ fifo = [p \in Peer |-> [f \in Stream |-> <<>>]]
  /\ made = [f \in Stream |-> 0]
  /\ taken = [f \in Stream |-> 0]
  /\ cleared = [f \in Stream |-> 0]
  /\ calls = 0
  /\ pushes = MaxPushes
  /\ fault = "none"

Running == fault = "none"  \* a failed assertion stops the program

GoTo(p, do) == at' = [at EXCEPT ![p].do = do]
Begin(p, type, len, do) ==
  at' = [at EXCEPT ![p] = [do |-> do, type |-> type, len |-> len, back |-> "idle"]]
WaitOne(p, back) == at' = [at EXCEPT ![p].do = "flush", ![p].back = back]

-----------------------------------------------------------------------------
(* Sending: __softio_delay_read and its five siblings. *)

(* The program on the PC makes a call.  A write sets the local copy first; *)
(* a write_fifo sends no more than the local fifo has and a head can say,  *)
(* and nothing when the fifo is empty.                                     *)
Call(type) ==
  /\ Running
  /\ at["pc"].do = "idle"
  /\ calls < MaxCalls
  /\ calls' = calls + 1
  /\ IF type = "write" THEN \E v \in Values : value' = [value EXCEPT !["pc"] = v]
                       ELSE UNCHANGED value
  /\ \E len \in CASE type = "write_fifo" -> 1..Smaller(MaxLen, Len(fifo["pc"]["down"]))
                  [] type = "read_fifo"  -> 1..PushBytes
                  [] type = "clear_fifo" -> {0}
                  [] OTHER               -> {1} :
       Begin("pc", type, len, "slot")
  /\ UNCHANGED <<ring, out, wire, fifo, history, pushes, fault>>

RingFull(p) == Len(ring[p]) = RingLength - 1

PutHeadOneTooEarly(r, h) == IF Len(r) + 2 = RingLength THEN <<>> ELSE Append(r, h)

(* Storing into a full ring makes its cursors equal: it is empty again.    *)
PutHead(r, h) == IF Len(r) + 1 = RingLength THEN <<>> ELSE Append(r, h)

(* "queue is full, wait one": tested once, with an if. *)
Slot(p) ==
  /\ Running
  /\ at[p].do = "slot"
  /\ IF p \in Keeps /\ RingFull(p) THEN WaitOne(p, "room") ELSE GoTo(p, "room")
  /\ UNCHANGED <<ring, out, wire, value, fifo, history, calls, pushes, fault>>

OutgoingNewestBytes(p) ==
  Request(at[p].type, at[p].len,
          CASE at[p].type = "write"      -> <<value[p]>>
            [] at[p].type = "write_fifo" ->
                 SubSeq(fifo[p][FifoOf(p)], (Len(fifo[p][FifoOf(p)]) - at[p].len) + 1,
                        Len(fifo[p][FifoOf(p)]))
            [] OTHER                     -> <<>>)

Outgoing(p) ==
  Request(at[p].type, at[p].len,
          CASE at[p].type = "write"      -> <<value[p]>>
            [] at[p].type = "write_fifo" ->
                 SubSeq(fifo[p][FifoOf(p)], 1, Smaller(at[p].len, Len(fifo[p][FifoOf(p)])))
            [] OTHER                     -> <<>>)

NeedBytesWithoutSum(p) ==
  HeadBytes + (IF at[p].type \in {"write", "write_fifo"} THEN at[p].len ELSE 0)

NeedBytes(p) ==
  HeadBytes + (IF at[p].type \in {"write", "write_fifo"}
               THEN at[p].len + SumBytes ELSE 0)

(* "sending queue is full, wait": tested in a loop. *)
Room(p) ==
  /\ Running
  /\ at[p].do = "room"
  /\ p \in Keeps
  /\ RoomOf(p) < NeedBytes(p)
  /\ WaitOne(p, "room")
  /\ UNCHANGED <<ring, out, wire, value, fifo, history, calls, pushes, fault>>

(* The head goes into the ring, head and data into siotx.                  *)
Send(p) ==
  /\ Running
  /\ at[p].do = "room"
  /\ p \notin Keeps \/ RoomOf(p) >= NeedBytes(p)
  /\ LET m == Outgoing(p) IN
     /\ out' = [out EXCEPT ![p] = Append(@, m)]
     /\ queued' = [queued EXCEPT ![p] = @ + NeedBytes(p)]
     /\ ring' = IF p \notin Keeps THEN ring
                ELSE [ring EXCEPT ![p] = PutHead(@, [type |-> m.type, len |-> m.len])]
     /\ fifo' = IF m.type # "write_fifo" THEN fifo
                ELSE [fifo EXCEPT ![p][FifoOf(p)] = SubSeq(@, m.len + 1, Len(@))]
     /\ fault' = CASE RoomOf(p) < NeedBytes(p) -> "cannot_push_head_inside_fifo"
                   [] m.type = "write_fifo" /\ Len(m.data) < m.len -> "fifo_is_empty"
                   [] OTHER -> fault
  /\ GoTo(p, IF p = "pc" THEN "idle" ELSE "push")
  /\ UNCHANGED <<flying, arrived, value, history, calls, pushes>>

-----------------------------------------------------------------------------
(* Handling. *)

(* __softio_try_handle_one on a message that is there in full, with room   *)
(* for the answer; have and room are the bytes it finds or waits for.      *)
Handle(q, have, room, next) ==
  LET p == Other(q)
      m == Head(out[p])
      answer == IF m.ret THEN 0 ELSE Size(AnswerTo(q, m))
  IN
  /\ out[p] # <<>>
  /\ have >= Size(m)
  /\ room >= answer
  /\ fault' = AssertionOn(q, m)
  /\ IF fault' # "none"
     THEN UNCHANGED <<at, ring, out, wire, value, fifo, cleared>>
     ELSE /\ Apply(q, m)
          /\ out' = IF m.ret THEN [out EXCEPT ![p] = Tail(@)]
                    ELSE [out EXCEPT ![p] = Tail(@), ![q] = Append(@, AnswerTo(q, m))]
          /\ LET pull == Larger(0, Size(m) - arrived[p])
                 push == Larger(0, answer - RoomOf(q))
             IN  /\ arrived' = [arrived EXCEPT ![p] = @ + pull - Size(m)]
                 /\ flying' = [flying EXCEPT ![p] = @ - pull, ![q] = @ + push]
                 /\ queued' = [queued EXCEPT ![q] = @ - push + answer]
          /\ GoTo(q, next)
  /\ UNCHANGED <<made, taken, calls, pushes>>

(* The bytes that are there now. *)
CanTry(q) ==
  /\ out[Other(q)] # <<>>
  /\ LET m == Head(out[Other(q)]) IN
     /\ arrived[Other(q)] >= Size(m)
     /\ m.ret \/ RoomOf(q) >= Size(AnswerTo(q, m))

Try(q) == Handle(q, arrived[Other(q)], RoomOf(q), at[q].do)

(* softio_flush where there are gets and puts: all of siotx goes out, what *)
(* is available comes in, as far as siorx holds it.                        *)
FlushBytes(p) ==
  LET q == Other(p)
      wait_cnt == flying[q] + arrived[q]
      upto == IF wait_cnt >= RxLength THEN RxLength - 2 ELSE wait_cnt
      got == Larger(0, upto - arrived[q])
  IN  /\ queued' = [queued EXCEPT ![p] = 0]
      /\ flying' = [flying EXCEPT ![p] = @ + queued[p], ![q] = @ - got]
      /\ arrived' = [arrived EXCEPT ![q] = @ + got]

(* __softio_wait_one begins with softio_flush.  Without puts that is       *)
(* __softio_puts_fifo_blocking's "while (fifo_count(fifo) < size)".        *)
Flush(p) ==
  /\ Running
  /\ at[p].do = "flush"
  /\ IF p = "pc" THEN FlushBytes(p)
     ELSE queued[p] >= TxLength - 1 /\ UNCHANGED wire
  /\ GoTo(p, "handle")
  /\ UNCHANGED <<ring, out, value, fifo, history, calls, pushes, fault>>

(* ... and then handles one message, whichever comes: the PC blocks in     *)
(* gets and puts until it can, the board until interrupts have moved what  *)
(* it needs.                                                               *)
HandleOne(p) ==
  /\ Running
  /\ at[p].do = "handle"
  /\ IF p = "pc"
     THEN Handle(p, arrived[Other(p)] + flying[Other(p)], TxLength - 1, at[p].back)
     ELSE Handle(p, arrived[Other(p)], RoomOf(p), at[p].back)

(* softio_wait_all: as long as the ring is not empty, wait for one. *)
WaitAll ==
  /\ Running
  /\ at["pc"].do = "idle"
  /\ ring["pc"] # <<>>
  /\ WaitOne("pc", "all")
  /\ UNCHANGED <<ring, out, wire, value, fifo, history, calls, pushes, fault>>

WaitMore ==
  /\ Running
  /\ at["pc"].do = "all"
  /\ IF ring["pc"] = <<>> THEN GoTo("pc", "idle") ELSE WaitOne("pc", "all")
  /\ UNCHANGED <<ring, out, wire, value, fifo, history, calls, pushes, fault>>

(* softio_flush_try_handle_all *)
FlushTry ==
  /\ Running
  /\ at["pc"].do = "idle"
  /\ FlushBytes("pc")
  /\ GoTo("pc", "try")
  /\ UNCHANGED <<ring, out, value, fifo, history, calls, pushes, fault>>

TryAll ==
  /\ Running
  /\ at["pc"].do = "try"
  /\ \/ CanTry("pc") /\ Try("pc")
     \/ /\ ~CanTry("pc")
        /\ GoTo("pc", "idle")
        /\ UNCHANGED <<ring, out, wire, value, fifo, history, calls, pushes, fault>>

-----------------------------------------------------------------------------
(* The board. *)

(* The main loop: softio_try_handle_all ... *)
BoardTry ==
  /\ Running
  /\ at["mcu"].do = "idle"
  /\ CanTry("mcu")
  /\ Try("mcu")

CanPush ==
  /\ pushes > 0
  /\ Len(fifo["mcu"]["up"]) >= PushBytes
  /\ RoomOf("mcu") >= PushRoom

(* ... then reader_h7_loop, which sends what the ADC has put into the fifo *)
(* without being asked.  A loop halted by FLAG_MASK_HALT does not, which   *)
(* here is one that stays away from this step: Fairness lets it.           *)
BoardPush ==
  /\ Running
  /\ \/ at["mcu"].do = "idle" /\ ~CanTry("mcu")
     \/ at["mcu"].do = "push"
  /\ CanPush
  /\ pushes' = pushes - 1
  /\ Begin("mcu", "write_fifo", PushBytes, "slot")
  /\ UNCHANGED <<ring, out, wire, value, fifo, history, calls, fault>>

BoardPushed ==
  /\ Running
  /\ at["mcu"].do = "push"
  /\ ~CanPush
  /\ GoTo("mcu", "idle")
  /\ UNCHANGED <<ring, out, wire, value, fifo, history, calls, pushes, fault>>

(* USB_CALLBACK_H7XX_FS_CDC_Receive_FS: a packet comes in; what does not   *)
(* fit is dropped and only counted.                                        *)
UsbReceive ==
  LET n == Smaller(Packet, flying["pc"])
      fits == Smaller(n, RxLength - 1 - arrived["pc"])
  IN  /\ Running
      /\ n > 0
      /\ flying' = [flying EXCEPT !["pc"] = @ - n]
      /\ arrived' = [arrived EXCEPT !["pc"] = @ + fits]
      /\ fault' = IF fits < n THEN "siorx_overflow" ELSE fault
      /\ UNCHANGED <<at, ring, out, queued, value, fifo, history, calls, pushes>>

UsbTransmitFullPackets ==
  /\ Running
  /\ queued["mcu"] >= Packet
  /\ queued' = [queued EXCEPT !["mcu"] = @ - Packet]
  /\ flying' = [flying EXCEPT !["mcu"] = @ + Packet]
  /\ UNCHANGED <<at, ring, out, arrived, value, fifo, history, calls, pushes, fault>>

(* usb_fifo_transmit *)
UsbTransmit ==
  LET n == Smaller(Packet, queued["mcu"]) IN
  /\ Running
  /\ n > 0
  /\ queued' = [queued EXCEPT !["mcu"] = @ - n]
  /\ flying' = [flying EXCEPT !["mcu"] = @ + n]
  /\ UNCHANGED <<at, ring, out, arrived, value, fifo, history, calls, pushes, fault>>

ReckonedWithSpareByte == made["down"] - taken["down"] - cleared["down"] < FifoLength

(* "maximum write without overflow": the drivers count what they have put  *)
(* into their stream and the board has not consumed.  They know of the     *)
(* board's counts what they last read, that is, at most as much as this.   *)
Reckoned == made["down"] - taken["down"] - cleared["down"] < FifoLength - 1

(* The ends of the two streams: each is filled and drained at the ends     *)
(* only.  The filler leaves off when its fifo is full.                     *)
Produce(p) ==
  LET f == FifoOf(p) IN
  /\ Running
  /\ made[f] < MaxMade[f]
  /\ Len(fifo[p][f]) < FifoLength - 1
  /\ p = "pc" => at[p].do = "idle" /\ (Reckons => Reckoned)
  /\ made' = [made EXCEPT ![f] = @ + 1]
  /\ fifo' = [fifo EXCEPT ![p][f] = Append(@, made[f] + 1)]
  /\ UNCHANGED <<at, ring, out, wire, value, taken, cleared, calls, pushes, fault>>

Consume(p) ==
  LET f == FifoOf(Other(p)) IN
  /\ Running
  /\ fifo[p][f] # <<>>
  /\ p = "pc" => at[p].do = "idle"
  /\ taken' = [taken EXCEPT ![f] = @ + 1]
  /\ fifo' = [fifo EXCEPT ![p][f] = Tail(@)]
  /\ UNCHANGED <<at, ring, out, wire, value, made, cleared, calls, pushes, fault>>

-----------------------------------------------------------------------------
Library(p) == Slot(p) \/ Room(p) \/ Send(p) \/ Flush(p) \/ HandleOne(p)
Board == BoardTry \/ BoardPush \/ BoardPushed
Host  == WaitMore \/ TryAll

Next ==
  \/ \E type \in Calls : Call(type)
  \/ \E p \in Peer : Library(p) \/ Produce(p) \/ Consume(p)
  \/ WaitAll \/ FlushTry \/ Host \/ Board \/ UsbReceive \/ UsbTransmit

Spec == Init /\ [][Next]_vars

(* Processors and interrupts run on; what the program calls, and when, and *)
(* how much data there is, is left open.  The board handles what it can    *)
(* and ends its loop of pushes, but may be halted and begin none.          *)
Fairness ==
  /\ \A p \in Peer : WF_vars(Library(p))
  /\ WF_vars(Host)
  /\ WF_vars(Board /\ (CanTry("mcu") \/ at["mcu"].do = "push"))
  /\ WF_vars(UsbReceive)
  /\ WF_vars(UsbTransmit)

FairSpec == Spec /\ Fairness

-----------------------------------------------------------------------------
Heads == [type : Types, len : 0..FifoLength]

(* The ring of heads and the byte fifos hold no more than they can, and a  *)
(* message is never longer than the softio head can say.                   *)
TypeOK ==
  /\ \A p \in Peer :
       /\ at[p].do \in {"idle", "slot", "room", "flush", "handle", "all", "try", "push"}
       /\ at[p].back \in {"idle", "room", "all"}
       /\ ring[p] \in Seq(Heads) /\ Len(ring[p]) < RingLength
       /\ queued[p] \in 0..(TxLength - 1)
       /\ arrived[p] \in 0..(RxLength - 1)
       /\ flying[p] \in Nat
       /\ value[p] \in Values
       /\ \A f \in Stream : fifo[p][f] \in Seq(1..made[f])
  /\ queued["pc"] + flying["pc"] + arrived["pc"] = Bytes(out["pc"])
  /\ queued["mcu"] + flying["mcu"] + arrived["mcu"] = Bytes(out["mcu"])

(* No assertion of softio.h fails and no byte is dropped on the way in,    *)
(* though neither the receive interrupt nor a full ring is guarded by more *)
(* than the bound on the calls that are waiting for their answers.         *)
NoAssertionFails == fault = "none"

(* The first of those assertions, "transaction empty but receive respond". *)
AnswersAreAwaited == fault # "transaction_empty_but_receive_respond"

(* The ring of an end is what is under way: first the answers that come    *)
(* back to it, then the requests that still go out, in order.              *)
Unanswered(p) == Answers(out[Other(p)]) \o Requests(out[p])

RingMatchesTraffic ==
  \A p \in Keeps :
    LET u == Unanswered(p) IN
    /\ Len(ring[p]) = Len(u)
    /\ \A i \in 1..Len(ring[p]) : ring[p][i].type = u[i].type

(* The bytes of a stream, from the fifo they come out of back to the one   *)
(* they went into.                                                         *)
Cargo(m) ==
  IF \/ m.type = "write_fifo" /\ ~m.ret
     \/ m.type = "read_fifo" /\ m.ret
  THEN m.data ELSE <<>>
Carried(ms) == Flatten([i \in 1..Len(ms) |-> Cargo(ms[i])])

Filler(f) == IF f = "down" THEN "pc" ELSE "mcu"
InTransit(f) ==
  LET p == Filler(f) IN fifo[Other(p)][f] \o Carried(out[p]) \o fifo[p][f]

(* Neither stream loses, repeats or swaps a byte, though one of them goes  *)
(* by two ways at once (pushed, and read); clear_fifo alone drops some.    *)
StreamsIntact ==
  \A f \in Stream :
    LET s == InTransit(f) IN
    /\ \A i \in 1..(Len(s) - 1) : s[i] < s[i + 1]
    /\ Len(s) + taken[f] + cleared[f] = made[f]

(* What both ends promise together: RemoteCalls.                           *)
Remote == INSTANCE RemoteCalls
            WITH Byte    <- 1..(MaxMade["up"] + MaxMade["down"]),
                 asked   <- ring,
                 todo    <- [p \in Peer |-> Requests(out[p])],
                 answers <- [p \in Peer |-> Answers(out[Other(p)])]

ImplementsCalls == Remote!Spec

(* Inside softio_wait_all, from the first __softio_wait_one on.            *)
WaitingForAll ==
  at["pc"].back = "all" /\ at["pc"].do \in {"flush", "handle", "all"}

(* softio_wait_all comes back: an answer reaches the PC for every head in  *)
(* its ring, the first of them included, whatever else is handled in       *)
(* between.                                                                *)
WaitAllReturns == WaitingForAll ~> at["pc"].do = "idle"
=============================================================================

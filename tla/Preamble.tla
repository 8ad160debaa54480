------------------------------ MODULE Preamble ------------------------------
(***************************************************************************)
(* Listening for a preamble.  A script starts it, waits and stops it       *)
(* (Tester/TurboHost/host_luaext.h, SoftReader/reader-H7xx-ex.h).  A       *)
(* thread searches one block of samples after the other and copies what it *)
(* finds (preamble_rx, RetroLib/preamble.cpp); one of its own feeds it     *)
(* from rx_data, which the receiving thread of the driver fills.           *)
(*                                                                         *)
(* A sample is its number; whether and where a block holds the end of a    *)
(* preamble is left open.  The resampler hands every sample on.            *)
(*                                                                         *)
(* A definition that stands just before another and differs from it in one *)
(* place is that other one with a bug, for the mutation runs.              *)
(***************************************************************************)
EXTENDS Integers, Sequences

CONSTANTS
  Size,      \* samples in a block: _ref_size, the length of the preamble
  Points,    \* pts, samples in the result
  Chunk,     \* samples that the feeding thread asks for at once
  Capacity,  \* samples in rx_data
  Backlog,   \* bound: blocks in the queue, for a thread that keeps up
  Numbers    \* bound: samples with different numbers

ASSUME SizeAssumption ==
  /\ Size \in Nat /\ Size > 0 /\ Points \in Nat /\ Points >= Size
  /\ Chunk \in 1..Capacity /\ Capacity \in Nat /\ Backlog \in Nat /\ Backlog > 0
  /\ Numbers \in Nat /\ Numbers > 0

VARIABLES
  now,      \* number of the next sample
  output,   \* output_to_rx_data
  held,     \* samples that the receiving thread is about to store, at most one
  rxData,   \* rx_data
  flag,     \* keeps the feeding thread going
  feeder,   \* whether that thread is alive
  block,    \* curr, the block it fills
  queue,    \* Q, the blocks for the searching thread
  search,   \* where the searching thread is
  blocks,   \* annotated; with the very first block, which is only a reference
  snr,      \* snr_preamble: the threshold, zero, or that of the preamble found
  running,  \* preamble_running
  result,   \* result_preamble, as far as it is written
  script,   \* where the script is
  told,     \* what the last wait returned
  peak      \* history: the last sample of the preamble found

receiver == <<now, held>>
store == <<output, rxData>>
feeding == <<flag, feeder, block>>
caller == <<running, script, told>>
vars == <<receiver, store, feeding, queue, search, blocks, snr, result, caller, peak>>

Init ==
  /\ now = 0 /\ output = FALSE /\ held = <<>> /\ rxData = <<>>
  /\ flag = FALSE /\ feeder = FALSE /\ block = <<>> /\ queue = <<>>
  /\ search = "none" /\ blocks = <<>> /\ snr = "zero"
  /\ running = FALSE /\ result = <<>> /\ script = "idle" /\ told = FALSE
  /\ peak = 0

-----------------------------------------------------------------------------
(* __rx_receiving_thread: "output" is tested before the copy.  The other   *)
(* threads keep up with it.                                                *)
Receive ==
  /\ held = <<>>
  /\ output => Len(rxData) < Capacity /\ (flag => Len(queue) < Backlog)
  /\ now' = (now + 1) % Numbers
  /\ held' = IF output THEN <<now>> ELSE <<>>
  /\ UNCHANGED <<store, feeding, queue, search, blocks, snr, result, caller, peak>>

Store ==
  /\ held # <<>> /\ Len(rxData) < Capacity
  /\ rxData' = rxData \o held
  /\ held' = <<>>
  /\ UNCHANGED <<now, output, feeding, queue, search, blocks, snr, result, caller, peak>>

-----------------------------------------------------------------------------
(* The feeding thread.  It asks for samples even when it is to end, and    *)
(* has to get them all.                                                    *)

Full(samples) == Len(samples) \div Size

Feed ==
  LET samples == block \o SubSeq(rxData, 1, Chunk) IN
  /\ feeder /\ Len(rxData) >= Chunk
  /\ rxData' = SubSeq(rxData, Chunk + 1, Len(rxData))
  /\ queue' = queue \o [i \in 1..Full(samples) |->
                          SubSeq(samples, (i - 1) * Size + 1, i * Size)]
  /\ block' = IF flag THEN SubSeq(samples, Full(samples) * Size + 1, Len(samples))
                       ELSE <<>>
  /\ feeder' = flag
  /\ UNCHANGED <<flag, receiver, output, search, blocks, snr, result, caller, peak>>

-----------------------------------------------------------------------------
(* The searching thread. *)

Search(from, to) ==
  /\ search = from /\ search' = to
  /\ UNCHANGED <<receiver, rxData, block, caller>>

Gone == queue' = <<>> /\ blocks' = <<>>

Take ==
  /\ Search("listen", IF Len(blocks) = 3 THEN "decide" ELSE "listen")
  /\ queue # <<>> /\ queue' = Tail(queue)
  /\ blocks' = Append(blocks, Head(queue))
  /\ snr' = IF Len(blocks) = 3 THEN "zero" ELSE snr
  /\ UNCHANGED <<output, flag, feeder, result, peak>>

ProjectAll(samples) == result \o samples

(* p writes what there is room for. *)
Project(samples) ==
  LET room == Points - Len(result) IN
  result \o (IF Len(samples) < room THEN samples ELSE SubSeq(samples, 1, room))

(* "blocks" holds the reference and annotated[0..2]: position idx of       *)
(* annotated[1] ends the preamble.                                         *)
Rest(idx) ==
  SubSeq(blocks[2], idx + 2, Size) \o blocks[3] \o blocks[4]

Found ==
  \E idx \in 0..(Size - 1) :
    /\ Search("decide", "copy")
    /\ snr' = "found"
    /\ peak' = blocks[3][idx + 1]
    /\ blocks' = <<Rest(idx)>>
    /\ UNCHANGED <<output, flag, feeder, queue, result>>

GiveUp ==
  /\ Search("decide", "join")
  /\ ~running
  /\ flag' = FALSE
  /\ UNCHANGED <<output, feeder, queue, blocks, snr, result, peak>>

NotFound ==
  /\ Search("decide", "listen")
  /\ running
  /\ blocks' = Tail(blocks)
  /\ UNCHANGED <<output, flag, feeder, queue, snr, result, peak>>

Copy ==
  /\ blocks # <<>>
  /\ Search("copy", "copy")
  /\ result' = Project(Head(blocks))
  /\ blocks' = <<>>
  /\ UNCHANGED <<output, flag, feeder, queue, snr, peak>>

CopyMore ==
  /\ Search("copy", "copy")
  /\ blocks = <<>> /\ Len(result) < Points
  /\ queue # <<>> /\ queue' = Tail(queue)
  /\ result' = Project(Head(queue))
  /\ UNCHANGED <<output, flag, feeder, blocks, snr, peak>>

Copied ==
  /\ Search("copy", "join")
  /\ Len(result) = Points
  /\ flag' = FALSE
  /\ UNCHANGED <<output, feeder, queue, blocks, snr, result, peak>>

(* th.join() comes before *close_at_end = false: the thread needs samples. *)
EndClosedFirst ==
  /\ output' = FALSE
  /\ IF output THEN Search("join", "join") ELSE ~feeder /\ Search("join", "none")
  /\ UNCHANGED <<flag, feeder, queue, blocks, snr, result, peak>>

EndLeftOpen ==
  /\ Search("join", "none")
  /\ ~feeder
  /\ Gone
  /\ UNCHANGED <<output, flag, feeder, snr, result, peak>>

End ==
  /\ Search("join", "none")
  /\ ~feeder
  /\ output' = FALSE
  /\ Gone
  /\ UNCHANGED <<flag, feeder, snr, result, peak>>

Searcher == Take \/ Found \/ GiveUp \/ NotFound \/ Copy \/ CopyMore \/ Copied \/ End

-----------------------------------------------------------------------------
(* reader_start_preamble, reader_wait_preamble and reader_stop_preamble of *)
(* a script.  Starting is an error while preamble_running.                 *)

Script(from, to) ==
  /\ script = from /\ script' = to
  /\ UNCHANGED <<receiver, peak>>

Unstarted == UNCHANGED <<feeding, queue, search, blocks, snr, running, result>>

ClearNothing ==
  /\ Script("idle", "cleared")
  /\ ~running
  /\ told' = FALSE
  /\ UNCHANGED <<rxData, output>> /\ Unstarted

Clear ==
  /\ Script("idle", "cleared")
  /\ ~running
  /\ rxData' = <<>> /\ told' = FALSE
  /\ UNCHANGED output /\ Unstarted

Open ==
  /\ Script("cleared", "open")
  /\ output' = TRUE
  /\ UNCHANGED <<rxData, told>> /\ Unstarted

Start ==
  /\ Script("open", "starting")
  /\ result' = <<>> /\ snr' = "threshold" /\ running' = TRUE
  /\ search' = "listen" /\ blocks' = <<>> /\ queue' = <<>>
  /\ flag' = TRUE /\ feeder' = TRUE /\ block' = <<>>
  /\ UNCHANGED <<store, told>>

(* "wait for thread open": sees the zero, if it looks in time. *)
Started ==
  /\ Script("starting", "started")
  /\ snr = "zero"
  /\ UNCHANGED <<store, told>> /\ Unstarted

(* wait_preamble_for: the SNR or a timeout. *)
Wait ==
  /\ Script("started", "started")
  /\ told' = (snr # "zero")
  /\ UNCHANGED store /\ Unstarted

Stop ==
  /\ Script("started", "stopping")
  /\ running' = FALSE
  /\ UNCHANGED <<store, told, feeding, queue, search, blocks, snr, result>>

Joined ==
  /\ Script("stopping", "idle")
  /\ search = "none"
  /\ UNCHANGED <<store, told>> /\ Unstarted

Next ==
  \/ Receive \/ Store \/ Feed \/ Searcher
  \/ Clear \/ Open \/ Start \/ Started \/ Wait \/ Stop \/ Joined

Spec == Init /\ [][Next]_vars

(* All threads run on; a preamble need not come, and the script need not   *)
(* call anything.  It looks at the SNR every 10 ms, and so sees a zero     *)
(* that stays.                                                             *)
Fairness ==
  /\ WF_vars(Receive) /\ WF_vars(Store) /\ WF_vars(Feed) /\ WF_vars(Searcher)
  /\ WF_vars(Open) /\ WF_vars(Start) /\ WF_vars(Started) /\ WF_vars(Joined)

FairSpec == Spec /\ Fairness

-----------------------------------------------------------------------------
(* The result is never written past its end, and no more than four blocks  *)
(* are kept.                                                               *)
TypeOK ==
  /\ now \in 0..(Numbers - 1) /\ output \in BOOLEAN /\ Len(rxData) <= Capacity
  /\ flag \in BOOLEAN /\ feeder \in BOOLEAN /\ Len(block) < Size
  /\ \A i \in 1..Len(queue) : Len(queue[i]) = Size
  /\ Len(blocks) <= 4 /\ Len(result) <= Points
  /\ snr \in {"threshold", "zero", "found"}
  /\ running \in BOOLEAN /\ told \in BOOLEAN

(* When a script has stopped listening, it has all samples from the        *)
(* beginning of the preamble on, without a gap and without any left over   *)
(* from before it started; or nothing, if no wait told it of a preamble.   *)
ResultIsTheSignal ==
  script = "idle" =>
    \/ result = [i \in 1..Points |-> (peak + Numbers - Size + i) % Numbers]
    \/ result = <<>> /\ ~told

(* Once a script has stopped listening nothing is stored in rx_data, which *)
(* nobody drains ("default not output, to avoid overflow", Host.cpp:104).  *)
OutputOnlyWhileListening ==
  script = "idle" => ~output /\ search = "none" /\ ~feeder

(* Stopping ends although the feeding thread may be in need of samples;    *)
(* starting ends, unless a preamble comes before the zero was seen.        *)
CallsReturn ==
  /\ script = "stopping" ~> script = "idle"
  /\ script = "starting" ~> script # "starting" \/ snr = "found"
=============================================================================

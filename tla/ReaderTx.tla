------------------------------ MODULE ReaderTx ------------------------------
(***************************************************************************)
(* Transmission by the reader.  tx_send_samples_async of the driver        *)
(* (SoftReader/reader-H7xx-ex.h) sends samples in parts to a fifo of the   *)
(* board, whose timer interrupt (SoftReader/reader-H7xx.h) shows one per   *)
(* period; tx_send_samples_wait polls the board until all are shown.       *)
(*                                                                         *)
(* Several threads may send.  Another one receives ADC data over the same  *)
(* connection, and takes answers that a sender waits for.  softio is two   *)
(* ordered queues here (module SoftIO); it is used under "lock".           *)
(*                                                                         *)
(* A definition that stands just before another and differs from it in one *)
(* place is that other one with a bug, for the mutation runs.              *)
(***************************************************************************)
EXTENDS Integers, Sequences, FiniteSetsExt

CONSTANTS
  Senders,    \* threads that send
  Nobody,     \* the owner of a free lock
  Counts,     \* how many samples they send
  Capacity,   \* samples in tx_data: Length() - 1
  Part,       \* samples in one request: 254
  Heads,      \* length of softio's ring of pending heads
  Receiving,  \* whether the receiving thread runs
  Overloaded  \* whether a sample may fall due before the PC has sent it

ASSUME SendersAssumption == Nobody \notin Senders /\ "rx" \notin Senders
ASSUME SizeAssumption ==
  /\ Capacity \in Nat /\ Counts \subseteq 1..Capacity
  /\ Part \in Nat /\ Part > 0 /\ Heads \in Nat /\ Heads > 3
ASSUME FlagsAssumption == Receiving \in BOOLEAN /\ Overloaded \in BOOLEAN

VARIABLES
  tx,       \* the board's tx.count and tx.underflow
  data,     \* its tx_data
  todo,     \* requests the board has not carried out
  coming,   \* answers and pushed ADC packets the PC has not taken in
  mem,      \* the PC's copy of tx.count and tx.underflow
  seen,     \* tx_count and tx_underflow, -1 until an answer comes
  local,    \* the PC's tx_data: samples not sent yet
  started,  \* tx_async_started
  lock, txLock,  \* their owners
  at,       \* where each sender is, and what it does after a wait
  rx,       \* whether the receiving thread is inside softio
  job,      \* history: size of the last send, and whether a wait for it ended
  shown,    \* history: what the board showed since its tx.count was zeroed,
            \* 0 for an underflow
  fault     \* the assertion that has failed

board == <<tx, data>>
link == <<todo, coming>>
copies == <<mem, seen>>
driver == <<local, started, txLock>>
history == <<job, shown>>
vars == <<board, link, copies, driver, lock, at, rx, history, fault>>

Running == fault = "none"

Init ==
  /\ tx = [count |-> 0, underflow |-> 0] /\ data = <<>>
  /\ todo = <<>> /\ coming = <<>>
  /\ mem = tx /\ seen = tx
  /\ local = <<>> /\ started = FALSE
  /\ lock = Nobody /\ txLock = Nobody
  /\ at = [s \in Senders |-> [pc |-> "idle", of |-> "count", n |-> 0]]
  /\ rx = FALSE
  /\ job = [n |-> 0, awaited |-> FALSE]
  /\ shown = <<>>
  /\ fault = "none"

-----------------------------------------------------------------------------
(* softio, seen from the PC. *)

Answers == {i \in 1..Len(coming) : coming[i].op # "push"}

Buffered == Len(todo) + Cardinality(Answers)  \* softio_buffered_count

(* A request waits for a slot in the ring of pending heads.                *)
Ask(requests) ==
  /\ Buffered + Len(requests) < Heads
  /\ todo' = todo \o requests
  /\ UNCHANGED coming

ReceiveWithoutCallback(a) ==
  /\ mem' = IF a.op \in DOMAIN mem THEN [mem EXCEPT ![a.op] = a.n] ELSE mem
  /\ UNCHANGED seen

(* An answer to a read overwrites the copy, and the callback of the driver *)
(* reports it.                                                             *)
Receive(a) ==
  IF a.op \in DOMAIN mem
  THEN mem' = [mem EXCEPT ![a.op] = a.n] /\ seen' = [seen EXCEPT ![a.op] = a.n]
  ELSE UNCHANGED copies

TakeOne ==
  /\ coming # <<>>
  /\ Receive(Head(coming))
  /\ coming' = Tail(coming)
  /\ UNCHANGED todo

-----------------------------------------------------------------------------
(* The board. *)

Board == Running /\ UNCHANGED <<copies, driver, lock, at, rx, job>>

Reply(op, n) == todo' = Tail(todo) /\ coming' = Append(coming, [op |-> op, n |-> n])

Carry(op) == Board /\ todo # <<>> /\ Head(todo).op = op

SetCount ==
  /\ Carry("set_count")
  /\ tx' = [tx EXCEPT !.count = Head(todo).n]
  /\ shown' = IF tx'.count = 0 THEN <<>> ELSE shown
  /\ Reply("ack", 0)
  /\ UNCHANGED <<data, fault>>

SetUnderflow ==
  /\ Carry("set_underflow")
  /\ tx' = [tx EXCEPT !.underflow = Head(todo).n]
  /\ Reply("ack", 0)
  /\ UNCHANGED <<data, shown, fault>>

ClearFifo ==
  /\ Carry("clear")
  /\ data' = <<>>
  /\ Reply("ack", 0)
  /\ UNCHANGED <<tx, shown, fault>>

WriteFifo ==
  /\ Carry("part")
  /\ IF Len(data) + Len(Head(todo).n) <= Capacity
     THEN data' = data \o Head(todo).n /\ UNCHANGED fault
     ELSE fault' = "not_enough" /\ UNCHANGED data
  /\ Reply("ack", 0)
  /\ UNCHANGED <<tx, shown>>

Read ==
  /\ Carry("read")
  /\ Reply(Head(todo).n, tx[Head(todo).n])
  /\ UNCHANGED <<board, shown, fault>>

(* The allowance of packets, the overflow count: nothing that matters here. *)
Other ==
  /\ Carry("other")
  /\ Reply("other", 0)
  /\ UNCHANGED <<board, shown, fault>>

Serve == Other \/ SetCount \/ SetUnderflow \/ ClearFifo \/ WriteFifo \/ Read

(* The main loop pushes ADC data; one packet under way stands for many.    *)
Push ==
  /\ Board
  /\ Receiving
  /\ \A i \in 1..Len(coming) : coming[i].op # "push"
  /\ coming' = Append(coming, [op |-> "push", n |-> 0])
  /\ UNCHANGED <<board, todo, shown, fault>>

StreamingUntested == TRUE

Streaming == tx.count # 0

(* reader_h7_tim2_callback *)
Show ==
  /\ Board
  /\ Streaming
  /\ data # <<>>
  /\ data' = Tail(data)
  /\ tx' = [tx EXCEPT !.count = @ - 1]
  /\ shown' = Append(shown, Head(data))
  /\ UNCHANGED <<link, fault>>

StillToCome == local # <<>> \/ \E i \in 1..Len(todo) : todo[i].op = "part"

Underflow ==
  /\ Board
  /\ Streaming
  /\ data = <<>>
  /\ Overloaded \/ ~StillToCome
  /\ tx' = [count |-> tx.count - 1, underflow |-> tx.underflow + 1]
  /\ shown' = Append(shown, 0)
  /\ UNCHANGED <<data, link, fault>>

Tick == Show \/ Underflow

-----------------------------------------------------------------------------
(* A sender at "from" goes on to "to".  "..._try" handles what has come:   *)
(* any number of messages, while the sender holds the lock (Handle).       *)

Go(s, from, to) ==
  /\ Running
  /\ at[s].pc = from
  /\ at' = [at EXCEPT ![s].pc = to]
  /\ UNCHANGED <<board, rx, shown>>

Take(s) == lock = Nobody /\ lock' = s

GiveBack(s, from, to) ==
  /\ Go(s, from, to)
  /\ lock' = Nobody
  /\ UNCHANGED <<link, copies, driver, job, fault>>

Handle(s) ==
  /\ Running
  /\ at[s].pc \in {"asked", "prepared", "sent", "counted"}
  /\ TakeOne
  /\ UNCHANGED <<board, driver, lock, at, rx, history, fault>>

-----------------------------------------------------------------------------
(* tx_send_samples_wait, for its own sake (n = 0) or at the beginning of   *)
(* tx_send_samples_async.                                                  *)

CallWithoutWaiting(s, n) ==
  /\ Running
  /\ at[s].pc = "idle"
  /\ at' = [at EXCEPT ![s] = [pc |-> "waited", of |-> "count", n |-> n]]
  /\ UNCHANGED <<board, link, copies, driver, lock, rx, history, fault>>

Call(s, n) ==
  /\ Running
  /\ at[s].pc = "idle"
  /\ at' = [at EXCEPT ![s] = [pc |-> "wait", of |-> "count", n |-> n]]
  /\ UNCHANGED <<board, link, copies, driver, lock, rx, history, fault>>

BeginWait(s) ==
  /\ txLock = Nobody
  /\ IF started THEN Go(s, "wait", "ask") /\ txLock' = s
                ELSE Go(s, "wait", "waited") /\ UNCHANGED txLock
  /\ UNCHANGED <<link, copies, local, started, lock, job, fault>>

AskFor(s) ==
  /\ Go(s, "ask", "asked")
  /\ Take(s)
  /\ Ask(<<[op |-> "read", n |-> at[s].of]>>)
  /\ seen' = [seen EXCEPT ![at[s].of] = -1]
  /\ UNCHANGED <<mem, driver, job, fault>>

Asked(s) == GiveBack(s, "asked", "test")

(* wait_variable_not_minus_1: the test is made without the lock. *)
NotYet(s) ==
  /\ Go(s, "test", "lock")
  /\ seen[at[s].of] = -1
  /\ UNCHANGED <<link, copies, driver, lock, job, fault>>

Block(s) ==
  /\ Go(s, "lock", "blocked")
  /\ Take(s)
  /\ UNCHANGED <<link, copies, driver, job, fault>>

(* softio_wait_one: returns with one message, whichever it is. *)
WaitOne(s) ==
  /\ Go(s, "blocked", "test")
  /\ TakeOne
  /\ lock' = Nobody
  /\ UNCHANGED <<driver, job, fault>>

Counted(s) ==
  /\ at[s].pc = "test" /\ at[s].of = "count" /\ seen.count # -1
  /\ Running
  /\ at' = [at EXCEPT ![s].pc = "ask", ![s].of = IF seen.count = 0 THEN "underflow" ELSE @]
  /\ UNCHANGED <<board, link, copies, driver, lock, rx, history, fault>>

FinishUnchecked(s) ==
  /\ Go(s, "test", "waited")
  /\ at[s].of = "underflow" /\ seen.underflow # -1
  /\ started' = FALSE /\ txLock' = Nobody
  /\ job' = [job EXCEPT !.awaited = TRUE]
  /\ UNCHANGED <<link, copies, local, lock, fault>>

Finish(s) ==
  /\ Go(s, "test", "waited")
  /\ at[s].of = "underflow" /\ seen.underflow # -1
  /\ fault' = IF mem.underflow = 0 THEN "none" ELSE "tx.underflow"
  /\ started' = FALSE /\ txLock' = Nobody
  /\ job' = [job EXCEPT !.awaited = TRUE]
  /\ UNCHANGED <<link, copies, local, lock>>

Waited(s) ==
  /\ IF at[s].n = 0 THEN Go(s, "waited", "idle") ELSE Go(s, "waited", "enter")
  /\ UNCHANGED <<link, copies, driver, lock, job, fault>>

-----------------------------------------------------------------------------
(* The rest of tx_send_samples_async. *)

Enter(s) ==
  /\ Go(s, "enter", "prepare")
  /\ txLock = Nobody /\ txLock' = s
  /\ UNCHANGED <<link, copies, local, started, lock, job, fault>>

Prepare(s) ==
  /\ Go(s, "prepare", "prepared")
  /\ Take(s)
  /\ Ask(<<[op |-> "set_count", n |-> 0], [op |-> "set_underflow", n |-> 0],
           [op |-> "clear", n |-> 0]>>)
  /\ mem' = [count |-> at[s].n, underflow |-> 0]
  /\ job' = [n |-> at[s].n, awaited |-> FALSE]
  /\ UNCHANGED <<seen, driver, fault>>

Prepared(s) ==
  /\ Go(s, "prepared", "send")
  /\ lock' = Nobody
  /\ local' = [i \in 1..at[s].n |-> i]
  /\ UNCHANGED <<link, copies, started, txLock, job, fault>>

First(s) == Len(local) = at[s].n  \* writecount

SendPart(s) ==
  LET n == Min({Part, Len(local)}) IN
  /\ IF First(s) THEN Go(s, "send", "sent") ELSE Go(s, "send", "counted")
  /\ Take(s)
  /\ Ask(<<[op |-> "part", n |-> SubSeq(local, 1, n)]>>)
  /\ local' = SubSeq(local, n + 1, Len(local))
  /\ UNCHANGED <<copies, started, txLock, job, fault>>

(* "to optimize tx delay": the board begins after the first part. *)
WriteCount(s) ==
  /\ Go(s, "sent", "counted")
  /\ Ask(<<[op |-> "set_count", n |-> mem.count]>>)
  /\ UNCHANGED <<copies, driver, lock, job, fault>>

PartSent(s) == GiveBack(s, "counted", "throttle")

(* The driver sleeps while half of the ring is taken, and handles nothing. *)
NextPart(s) ==
  /\ Buffered <= Heads \div 2
  /\ IF local # <<>>
     THEN Go(s, "throttle", "send") /\ UNCHANGED <<started, txLock>>
     ELSE Go(s, "throttle", "idle") /\ started' = TRUE /\ txLock' = Nobody
  /\ UNCHANGED <<link, copies, local, lock, job, fault>>

-----------------------------------------------------------------------------
(* The receiving thread: takes what has come, and every 5 ms renews the    *)
(* allowance of packets and reads the overflow count.                      *)

RxThread == Running /\ Receiving /\ UNCHANGED <<board, driver, at, history, fault>>

RxEnter ==
  /\ RxThread
  /\ lock = Nobody /\ lock' = "rx" /\ rx' = TRUE
  /\ UNCHANGED <<link, copies>>

(* The 5 ms are enough for the requests made before to be answered.        *)
RxRestore ==
  /\ RxThread
  /\ rx
  /\ \A i \in 1..Len(todo) : todo[i].op # "other"
  /\ \A i \in 1..Len(coming) : coming[i].op # "other"
  /\ Ask([i \in 1..2 |-> [op |-> "other", n |-> 0]])
  /\ UNCHANGED <<copies, lock, rx>>

RxHandle ==
  /\ RxThread
  /\ rx
  /\ TakeOne
  /\ UNCHANGED <<lock, rx>>

RxLeave ==
  /\ RxThread
  /\ rx /\ rx' = FALSE /\ lock' = Nobody
  /\ UNCHANGED <<link, copies>>

-----------------------------------------------------------------------------
Sender(s) ==
  \/ BeginWait(s) \/ AskFor(s) \/ Asked(s) \/ NotYet(s) \/ Block(s) \/ WaitOne(s)
  \/ Counted(s) \/ Finish(s) \/ Waited(s) \/ Enter(s) \/ Prepare(s) \/ Prepared(s)
  \/ SendPart(s) \/ WriteCount(s) \/ PartSent(s) \/ NextPart(s)

Next ==
  \/ \E s \in Senders :
       \/ \E n \in Counts \cup {0} : Call(s, n)
       \/ Handle(s) \/ Sender(s)
  \/ Serve \/ Push \/ Tick
  \/ RxEnter \/ RxRestore \/ RxHandle \/ RxLeave

Spec == Init /\ [][Next]_vars

(* Board and threads run on.  Who wants the lock gets it: nobody holds it  *)
(* for long, and the receiving thread sleeps between its turns.  Messages  *)
(* arrive.  What is called next is left open.                              *)
Fairness ==
  /\ WF_vars(Serve) /\ WF_vars(Push) /\ WF_vars(Tick)
  /\ \A s \in Senders : SF_vars(Sender(s)) /\ WF_vars(Handle(s))
  /\ SF_vars(RxEnter) /\ SF_vars(RxHandle) /\ WF_vars(RxLeave)

FairSpec == Spec /\ Fairness

-----------------------------------------------------------------------------
(* The unsigned counter does not wrap, and neither tx_data nor the ring of *)
(* pending heads is asked to hold more than it can.                        *)
TypeOK ==
  /\ tx \in [count : 0..Capacity, underflow : Nat]
  /\ Len(data) <= Capacity /\ Buffered < Heads
  /\ mem \in [count : Nat, underflow : Nat]
  /\ seen \in [count : Nat \cup {-1}, underflow : Nat \cup {-1}]
  /\ lock \in Senders \cup {Nobody, "rx"} /\ txLock \in Senders \cup {Nobody}
  /\ fault \in {"none", "tx.underflow"}

(* When a wait for a send has returned, its samples have all been shown,   *)
(* in order and without a gap.                                             *)
SendIsComplete ==
  job.awaited /\ Running => shown = [i \in 1..job.n |-> i]

(* No send is cut short by the next one: tx.count is only set when the     *)
(* last sample before was shown.  tx_send_samples_async is declared        *)
(* "thread safe" (reader-H7xx-ex.h:72).                                    *)
NeverCutShort ==
  [][tx'.count # tx.count => tx.count = 0 \/ tx'.count = tx.count - 1]_vars

(* Every call returns, or an assertion stops the program, although another *)
(* thread takes the answers a sender waits for.                            *)
CallsReturn ==
  \A s \in Senders : at[s].pc # "idle" ~> at[s].pc = "idle" \/ fault # "none"
=============================================================================

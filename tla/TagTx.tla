------------------------------- MODULE TagTx --------------------------------
(***************************************************************************)
(* Transmission by a tag: the program on the PC (SoftTag/tag-L4xx-ex.h)    *)
(* feeds samples to the tag's fifo; a timer interrupt of the tag           *)
(* (SoftTag/tag-L4xx.h) shows one sample per period, as a stream of        *)
(* tx_count samples or as a message that is repeated.                      *)
(*                                                                         *)
(* On the PC two threads run: the caller ("main") and the one that feeds a *)
(* stream ("thread").  They and the tag exchange the ordered requests of   *)
(* softio, whose details are in module SoftIO.  A sample is 16 bytes; it   *)
(* is one request here, so the tag may be interrupted between any two.     *)
(*                                                                         *)
(* The lock of TagL4Host_t is left out: the calls modelled never have both *)
(* threads at softio at once (OneThreadAtSoftIO).                          *)
(*                                                                         *)
(* A definition that stands just before another and differs from it in one *)
(* place is that other one with a bug, for the mutation runs.              *)
(***************************************************************************)
EXTENDS Integers, FiniteSets, Sequences

CONSTANTS
  Capacity,       \* samples in tx_data: (Length() - 1) / TAG_L4XX_SAMPLE_BYTE
  Counts,         \* how many samples callers send
  Messages,       \* how many samples the messages have that callers repeat
  Rounds,         \* how often: repeat_count
  Digit,          \* values of a byte of repeat_count, which has two here
  Interval,       \* repeat_interval
  UnderflowRange, \* values of tx_underflow, a uint16_t
  Overloaded,     \* whether a sample may fall due before the PC has sent it
  Early           \* whether a stream may be stopped without being waited for

ASSUME SizeAssumption ==
  /\ Capacity \in Nat /\ Capacity > 0
  /\ Counts \subseteq Nat /\ Interval \in Nat
  /\ Messages \subseteq 0..Capacity
  /\ Digit \in Nat /\ Digit > 1 /\ UnderflowRange \in Nat /\ UnderflowRange > 1
ASSUME RoundsAssumption == Rounds \subseteq 0..(Digit * Digit - 1)
ASSUME OverloadedAssumption == Overloaded \in BOOLEAN /\ Early \in BOOLEAN

Forever == Digit * Digit - 1  \* repeat_count of -1

VARIABLES
  tag,      \* the tag's memory: tx_count, tx_underflow, repeat_*
  data,     \* its tx_data
  readAt,   \* tx_data.read, in samples
  todo,     \* requests the tag has not carried out
  answers,  \* answers the PC has not taken in
  mem,      \* the PC's copy of the tag's memory
  main,     \* where the caller is
  thread,   \* where the thread that feeds the stream is
  running,  \* tx_running
  sent,     \* its sent_cnt, 0 when it has ended
  job,      \* the last call: what, how many samples, how often
  shown,    \* history: samples streamed since that call, 0 for an underflow
  rounds,   \* history: how often the message has been begun
  fault     \* the assertion that has failed

board == <<tag, data, readAt>>
link == <<todo, answers>>
driver == <<main, thread, running, sent, job>>
history == <<shown, rounds>>
vars == <<board, link, mem, driver, history, fault>>

Smaller(a, b) == IF a <= b THEN a ELSE b

Running == fault = "none"

-----------------------------------------------------------------------------
(* softio, seen from the PC. *)

Do(op) == [op |-> op, n |-> 0]
Set(op, n) == [op |-> op, n |-> n]
Samples(from, n) == [i \in 1..n |-> Set("fill", from + i)]
SetRounds(c) == <<Set("low", c % Digit), Set("high", c \div Digit)>>

Reads == [read_count |-> {"count"}, read_both |-> {"count", "underflow"},
          read_underflow |-> {"underflow"}, read_state |-> {"state"}]

Ask(requests) == todo' = todo \o requests /\ UNCHANGED answers

Answered == todo = <<>> /\ answers = <<>>  \* softio_wait_all is through

(* An answer to a read overwrites the copy.                                *)
Receive(a) == mem' = [f \in DOMAIN mem |-> IF f \in Reads[a.op] THEN a.tag[f] ELSE mem[f]]

TakeAnswer ==
  /\ answers # <<>>
  /\ Receive(Head(answers))
  /\ answers' = Tail(answers)
  /\ UNCHANGED <<board, todo, driver, history, fault>>

-----------------------------------------------------------------------------
Init ==
  /\ tag = [count |-> 0, underflow |-> 0, rounds |-> 0, state |-> "none", idx |-> 0]
  /\ data = <<>> /\ readAt = 0
  /\ todo = <<>> /\ answers = <<>>
  /\ mem = [count |-> 0, underflow |-> 0, state |-> "none"]
  /\ main = "idle" /\ thread = [at |-> "none", next |-> "none"]
  /\ running = FALSE
  /\ sent = 0
  /\ job = [call |-> "none", n |-> 0, c |-> 0]
  /\ shown = <<>> /\ rounds = 0
  /\ fault = "none"

-----------------------------------------------------------------------------
(* The tag carries out requests.  Writes of tx_count are made with         *)
(* interrupts disabled; repeat_count is stored byte by byte.               *)

Carry(requests) ==
  /\ Running
  /\ todo # <<>> /\ Head(todo).op \in requests
  /\ todo' = Tail(todo)
  /\ UNCHANGED <<mem, driver, history>>

Zero ==
  /\ Carry({"zero"})
  /\ tag' = [tag EXCEPT !.count = 0, !.underflow = 0]
  /\ UNCHANGED <<data, readAt, answers, fault>>

Reset ==
  /\ Carry({"reset"})
  /\ data' = <<>> /\ readAt' = 0
  /\ UNCHANGED <<tag, answers, fault>>

FillUnchecked ==
  /\ Carry({"fill"})
  /\ data' = Append(data, Head(todo).n)
  /\ UNCHANGED <<tag, readAt, answers, fault>>

Fill ==
  /\ Carry({"fill"})
  /\ IF Len(data) < Capacity
     THEN data' = Append(data, Head(todo).n) /\ UNCHANGED fault
     ELSE fault' = "fifo is not enough to write" /\ UNCHANGED data
  /\ UNCHANGED <<tag, readAt, answers>>

SetCount ==
  /\ Carry({"count"})
  /\ tag' = [tag EXCEPT !.count = Head(todo).n]
  /\ UNCHANGED <<data, readAt, answers, fault>>

SetByte ==
  /\ Carry({"low", "high"})
  /\ tag' = [tag EXCEPT !.rounds =
       IF Head(todo).op = "low" THEN Head(todo).n + Digit * (@ \div Digit)
                                ELSE Digit * Head(todo).n + (@ % Digit)]
  /\ UNCHANGED <<data, readAt, answers, fault>>

Read ==
  /\ Carry(DOMAIN Reads)
  /\ answers' = Append(answers, [op |-> Head(todo).op, tag |-> tag])
  /\ UNCHANGED <<board, fault>>

Serve == Zero \/ Reset \/ Fill \/ SetCount \/ SetByte \/ Read

-----------------------------------------------------------------------------
(* tag_l4_lptim2_callback: one sample falls due.  Where it shows the       *)
(* default sample and changes nothing there is no action.                  *)

Interrupt == Running /\ UNCHANGED <<link, mem, driver>>

OneRoundLess(c) == IF c = Forever THEN c ELSE c - 1

BeginRepeatUncounted ==
  /\ Interrupt
  /\ tag.state = "none" /\ tag.rounds # 0
  /\ fault' = IF readAt = 0 THEN fault ELSE "repeat mode must start from 0"
  /\ tag' = [tag EXCEPT !.idx = 0, !.state = "sending"]
  /\ rounds' = Smaller(rounds + 1, Forever)
  /\ UNCHANGED <<data, readAt, shown>>

BeginRepeat ==
  /\ Interrupt
  /\ tag.state = "none" /\ tag.rounds # 0
  /\ fault' = IF readAt = 0 THEN fault ELSE "repeat mode must start from 0"
  /\ tag' = [tag EXCEPT !.rounds = OneRoundLess(@), !.idx = 0, !.state = "sending"]
  /\ rounds' = Smaller(rounds + 1, Forever)
  /\ UNCHANGED <<data, readAt, shown>>

Streaming == tag.state = "none" /\ tag.rounds = 0 /\ tag.count # 0

Stream ==
  /\ Interrupt
  /\ Streaming
  /\ data # <<>>
  /\ data' = Tail(data)
  /\ readAt' = (readAt + 1) % (Capacity + 1)
  /\ shown' = Append(shown, Head(data))
  /\ tag' = [tag EXCEPT !.count = @ - 1]
  /\ UNCHANGED <<rounds, fault>>

(* Samples are on their way, or the PC has not come to send them yet.      *)
StillToCome ==
  \/ \E i \in 1..Len(todo) : todo[i].op = "fill"
  \/ main = "counted"
  \/ {thread.at, thread.next} \cap {"first", "top", "size", "check"} # {}

Underflow ==
  /\ Interrupt
  /\ Streaming
  /\ data = <<>>
  /\ Overloaded \/ ~StillToCome
  /\ shown' = Append(shown, 0)
  /\ tag' = [tag EXCEPT !.count = @ - 1, !.underflow = (@ + 1) % UnderflowRange]
  /\ UNCHANGED <<data, readAt, rounds, fault>>

Sending ==
  /\ Interrupt
  /\ tag.state = "sending" /\ tag.idx < Len(data)
  /\ tag' = [tag EXCEPT !.idx = @ + 1]
  /\ UNCHANGED <<data, readAt, history, fault>>

MessageSent ==
  /\ Interrupt
  /\ tag.state = "sending" /\ tag.idx >= Len(data)
  /\ tag' = IF tag.rounds # 0 THEN [tag EXCEPT !.idx = 0, !.state = "interval"]
                              ELSE [tag EXCEPT !.state = "none"]
  /\ UNCHANGED <<data, readAt, history, fault>>

Pause ==
  /\ Interrupt
  /\ tag.state = "interval" /\ tag.idx < Interval
  /\ tag' = [tag EXCEPT !.idx = @ + 1]
  /\ UNCHANGED <<data, readAt, history, fault>>

NextRoundUncounted ==
  /\ Interrupt
  /\ tag.state = "interval" /\ tag.idx >= Interval
  /\ IF tag.rounds # 0
     THEN /\ tag' = [tag EXCEPT !.idx = 0, !.state = "sending"]
          /\ rounds' = Smaller(rounds + 1, Forever)
     ELSE tag' = [tag EXCEPT !.state = "none"] /\ UNCHANGED rounds
  /\ UNCHANGED <<data, readAt, shown, fault>>

NextRound ==
  /\ Interrupt
  /\ tag.state = "interval" /\ tag.idx >= Interval
  /\ IF tag.rounds # 0
     THEN /\ tag' = [tag EXCEPT !.rounds = OneRoundLess(@), !.idx = 0,
                                !.state = "sending"]
          /\ rounds' = Smaller(rounds + 1, Forever)
     ELSE tag' = [tag EXCEPT !.state = "none"] /\ UNCHANGED rounds
  /\ UNCHANGED <<data, readAt, shown, fault>>

Tick == BeginRepeat \/ Stream \/ Underflow \/ Sending \/ MessageSent \/ Pause \/ NextRound

-----------------------------------------------------------------------------
(* The caller: tx_send_samples, that is start, wait and stop.              *)

Main(from, to) == Running /\ main = from /\ main' = to /\ UNCHANGED <<board, fault>>

Send(n) ==
  /\ Main("idle", "cleared")
  /\ mem' = [mem EXCEPT !.count = 0, !.underflow = 0]
  /\ Ask(<<Do("zero"), Do("reset")>>)
  /\ job' = [call |-> "send", n |-> n, c |-> 0]
  /\ shown' = <<>>
  /\ UNCHANGED <<thread, running, sent, rounds>>

FirstFillUncounted ==
  /\ Main("cleared", "counted")
  /\ Answered
  /\ Ask(Samples(0, Smaller(Capacity, job.n)) \o <<Set("count", job.n)>>)
  /\ mem' = [mem EXCEPT !.count = job.n]
  /\ UNCHANGED <<thread, running, sent, job, history>>

(* The fifo is filled before tx_count lets the tag begin. *)
FirstFill ==
  /\ Main("cleared", "counted")
  /\ Answered
  /\ sent' = Smaller(Capacity, job.n)
  /\ Ask(Samples(0, sent') \o <<Set("count", job.n)>>)
  /\ mem' = [mem EXCEPT !.count = job.n]
  /\ UNCHANGED <<thread, running, job, history>>

Launch ==
  /\ Main("counted", "launched")
  /\ Answered
  /\ thread' = [at |-> "first", next |-> "none"]
  /\ UNCHANGED <<link, mem, running, sent, job, history>>

(* Only now, with the thread on its way: *)
SetRunning ==
  /\ Main("launched", "wait")
  /\ running' = TRUE
  /\ UNCHANGED <<link, mem, thread, sent, job, history>>

(* tx_send_samples_wait looks at the copy that the thread keeps up to      *)
(* date, tx_send_samples_stop joins the thread.                            *)
Waited ==
  /\ Main("wait", "join")
  /\ mem.count = 0
  /\ running' = FALSE
  /\ UNCHANGED <<link, mem, thread, sent, job, history>>

(* A caller of tx_send_samples_start may stop the stream at any time.      *)
StopEarly ==
  /\ Early
  /\ Main("wait", "join")
  /\ running' = FALSE
  /\ UNCHANGED <<link, mem, thread, sent, job, history>>

JoinWithoutWaiting ==
  /\ Main("join", "idle")
  /\ UNCHANGED <<link, mem, thread, running, sent, job, history>>

Join ==
  /\ Main("join", "idle")
  /\ thread.at = "none"
  /\ UNCHANGED <<link, mem, thread, running, sent, job, history>>

-----------------------------------------------------------------------------
(* The caller: tx_repeat_samples.  The calls before it were joined, so the *)
(* tx_send_samples_stop it makes finds tx_running FALSE and does nothing.  *)

Repeat(n, c) ==
  /\ Main("idle", "halted")
  /\ Ask(SetRounds(0))
  /\ job' = [call |-> "repeat", n |-> n, c |-> c]
  /\ UNCHANGED <<mem, thread, running, sent, history>>

Poll ==
  /\ Main("halted", "polled")
  /\ Answered
  /\ Ask(<<Do("read_state")>>)
  /\ UNCHANGED <<mem, thread, running, sent, job, history>>

PolledWithoutReset ==
  /\ Running
  /\ main = "polled"
  /\ Answered
  /\ IF mem.state = "none"
     THEN /\ main' = "emptied"
          /\ Ask(<<Do("zero")>>)
          /\ mem' = [mem EXCEPT !.count = 0, !.underflow = 0]
     ELSE main' = "halted" /\ UNCHANGED <<link, mem>>
  /\ UNCHANGED <<board, thread, running, sent, job, history, fault>>

Polled ==
  /\ Running
  /\ main = "polled"
  /\ Answered
  /\ IF mem.state = "none"
     THEN /\ main' = "emptied"
          /\ Ask(<<Do("zero"), Do("reset")>>)
          /\ mem' = [mem EXCEPT !.count = 0, !.underflow = 0]
     ELSE main' = "halted" /\ UNCHANGED <<link, mem>>
  /\ UNCHANGED <<board, thread, running, sent, job, history, fault>>

Load ==
  /\ Main("emptied", "loaded")
  /\ Answered
  /\ Ask(Samples(0, job.n) \o SetRounds(job.c))
  /\ rounds' = 0
  /\ UNCHANGED <<mem, thread, running, sent, job, shown>>

Loaded ==
  /\ Main("loaded", "idle")
  /\ Answered
  /\ UNCHANGED <<link, mem, thread, running, sent, job, history>>

Caller == FirstFill \/ Launch \/ SetRunning \/ Waited \/ Join
            \/ Poll \/ Polled \/ Load \/ Loaded

-----------------------------------------------------------------------------
(* tx_send_samples_background_thread.  In "handle" it is in a              *)
(* softio_..._try, which handles the answers that happen to be there; in   *)
(* "blocked" in a softio_blocking.                                         *)

Thread(from, to, next) ==
  /\ Running
  /\ thread.at = from
  /\ thread' = [at |-> to, next |-> next]
  /\ UNCHANGED <<board, main, running, job, history>>

First ==
  /\ Thread("first", "handle", "top")
  /\ Ask(<<Do("read_count")>>)
  /\ UNCHANGED <<mem, sent, fault>>

Handled ==
  /\ \/ Thread("handle", thread.next, "none")
     \/ Thread("blocked", thread.next, "none") /\ Answered
  /\ UNCHANGED <<link, mem, sent, fault>>

Top ==
  /\ IF running /\ sent < job.n
     THEN Thread("top", "handle", "size") ELSE Thread("top", "drain", "none")
  /\ UNCHANGED <<link, mem, sent, fault>>

RoomIgnoringSpareByte == Capacity + 1 + job.n - sent - mem.count

(* "maximum write without overflow".  Counted with an unsigned type: below *)
(* zero it is more than anything.                                          *)
Room == Capacity + job.n - sent - mem.count

GetLen == IF Room < 0 THEN job.n - sent ELSE Smaller(Room, job.n - sent)

Feed ==
  /\ GetLen > 0
  /\ Thread("size", "handle", "check")
  /\ IF GetLen <= Capacity
     THEN /\ Ask(Samples(sent, GetLen) \o <<Do("read_both")>>)
          /\ sent' = sent + GetLen
          /\ UNCHANGED fault
     ELSE fault' = "fifo_copy_from_buffer" /\ UNCHANGED <<link, sent>>
  /\ UNCHANGED mem

Sleep ==
  /\ GetLen = 0
  /\ Thread("size", "blocked", "check")
  /\ Ask(<<Do("read_both")>>)
  /\ UNCHANGED <<mem, sent, fault>>

Check ==
  /\ Thread("check", "top", "none")
  /\ fault' = IF mem.underflow = 0 THEN fault ELSE "tx overflow occurs"
  /\ UNCHANGED <<link, mem, sent>>

Drain ==
  /\ Thread("drain", "blocked", "drained")
  /\ Ask(<<Do("read_count")>>)
  /\ UNCHANGED <<mem, sent, fault>>

Drained ==
  /\ IF mem.count = 0
     THEN /\ Thread("drained", "blocked", "last")
          /\ Ask(<<Do("read_underflow")>>)
     ELSE /\ Thread("drained", "drain", "none")
          /\ UNCHANGED link
  /\ UNCHANGED <<mem, sent, fault>>

LastUnchecked ==
  /\ Thread("last", "none", "none")
  /\ sent' = 0
  /\ UNCHANGED <<link, mem, fault>>

Last ==
  /\ Thread("last", "none", "none")
  /\ sent' = 0
  /\ fault' = IF mem.underflow = 0 THEN fault ELSE "tx_underflow"
  /\ UNCHANGED <<link, mem>>

Feeder == First \/ Handled \/ Top \/ Feed \/ Sleep \/ Check \/ Drain \/ Drained \/ Last

(* Whoever is inside softio takes in answers. *)
Receiving ==
  /\ Running
  /\ \/ thread.at \in {"handle", "blocked"}
     \/ main \in {"cleared", "counted", "halted", "polled", "emptied", "loaded"}
  /\ TakeAnswer

-----------------------------------------------------------------------------
Next ==
  \/ \E n \in Counts : Send(n)
  \/ \E n \in Messages, c \in Rounds : Repeat(n, c)
  \/ StopEarly \/ Caller \/ Feeder \/ Receiving \/ Serve \/ Tick

Spec == Init /\ [][Next]_vars

(* Threads, firmware and timer run on; what is called next is left open.   *)
Fairness ==
  /\ WF_vars(Caller) /\ WF_vars(Feeder) /\ WF_vars(Receiving)
  /\ WF_vars(Serve) /\ WF_vars(Tick)

FairSpec == Spec /\ Fairness

-----------------------------------------------------------------------------
(* Counters keep their width, and the tag's fifo holds what it can.        *)
TypeOK ==
  /\ tag \in [count : Nat, underflow : 0..(UnderflowRange - 1), rounds : 0..Forever,
              state : {"none", "sending", "interval"}, idx : Nat]
  /\ data \in Seq(Nat) /\ Len(data) <= Capacity
  /\ readAt \in 0..Capacity
  /\ mem \in [count : Nat, underflow : Nat, state : {"none", "sending", "interval"}]
  /\ sent \in 0..job.n
  /\ job \in [call : {"none", "send", "repeat"}, n : Nat, c : 0..Forever]
  /\ shown \in Seq(Nat) /\ rounds \in 0..Forever

(* Neither fifo is asked to hold more than it can, however old the         *)
(* tx_count is that the PC reckons with, as long as no sample came late:   *)
(* "maximum write without overflow" (tag-L4xx-ex.h:298).                   *)
NeverTooMany ==
  fault \in {"fifo is not enough to write", "fifo_copy_from_buffer"}
    => tag.underflow # 0

(* How many of the first n samples in s are gaps.                          *)
Gaps(s, n) == Cardinality({i \in 1..n : s[i] = 0})

(* What a stream shows is the samples in order, each once, with a gap for  *)
(* every underflow the tag has counted.                                    *)
ShownInOrder ==
  /\ \A n \in 1..Len(shown) : shown[n] # 0 => shown[n] = n - Gaps(shown, n)
  /\ job.call = "send" /\ main # "cleared" =>
       Gaps(shown, Len(shown)) % UnderflowRange = tag.underflow

(* When tx_send_samples has returned, or a stream was stopped early, all   *)
(* of its samples have been shown, in order and without a gap: a stop that *)
(* cuts a stream short does not return, for the assertion at               *)
(* tag-L4xx-ex.h:334 fails.                                                *)
SendIsComplete ==
  main = "idle" /\ job.call = "send" /\ Running =>
    shown = [i \in 1..job.n |-> i]

(* No answer is awaited by both threads at once, so that leaving out the   *)
(* lock hides nothing.                                                     *)
OneThreadAtSoftIO ==
  thread.at # "none" =>
    main \in {"launched", "wait", "join"}

(* A repetition starts at the beginning of the tag's fifo: assertion at    *)
(* tag-L4xx.h:314.                                                         *)
RepeatStartsAtZero == fault # "repeat mode must start from 0"

(* A repetition that has ended has shown the message as often as was       *)
(* asked, although the two ends store into repeat_count without excluding  *)
(* each other; of a count of -1 AlwaysRepeats speaks.                      *)
RepeatCounts ==
  /\ job.call = "repeat" /\ job.c # Forever /\ main = "idle" /\ Running
  /\ tag.state = "none" /\ tag.rounds = 0
  => rounds = job.c

(* A message that is to be repeated for ever is: "-1 for always repeat"    *)
(* (tag-L4xx.h:315).                                                       *)
AlwaysRepeats ==
  job.call = "repeat" /\ job.c = Forever /\ main = "idle" /\ Running =>
    ~(tag.state = "none" /\ tag.rounds = 0)

(* Every call returns, or an assertion stops the program; but a send while *)
(* the tag repeats a message for ever waits for ever (a repetition may be  *)
(* begun meanwhile, and returns).                                          *)
CallsReturn ==
  main # "idle" ~>
    \/ main = "idle" \/ fault # "none"
    \/ job.call = "send" /\ tag.rounds = Forever

(* The stream keeps up as long as the PC does: assertions at               *)
(* tag-L4xx-ex.h:319 and 334, "may be system overloaded".                  *)
StreamKeepsUp == fault \notin {"tx overflow occurs", "tx_underflow"}
=============================================================================

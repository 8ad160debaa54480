---------------------------- MODULE TagTxProofs -----------------------------
(***************************************************************************)
(* What holds of TagTx for every size of the tag's fifo, every message and *)
(* every stream, proved.                                                   *)
(*                                                                         *)
(* The argument has three layers, each an inductive invariant of its own:  *)
(* Discipline says who is talking to the tag and about what; on it build   *)
(* Rotation, the second half of this module, which follows repeat_count,   *)
(* and Accounting (TagTxStreamProofs), which follows the samples of a      *)
(* stream from the caller to the shutter.                                  *)
(***************************************************************************)
EXTENDS TagTx, TLAPS

States == {"none", "sending", "interval"}

Tags == [count : Nat, underflow : 0..(UnderflowRange - 1), rounds : 0..Forever,
         state : States, idx : Nat]

Ops == {"zero", "reset", "fill", "count", "low", "high",
        "read_count", "read_both", "read_underflow", "read_state"}

ReadOps == {"read_count", "read_both", "read_underflow", "read_state"}

(* The caller has launched the thread and not joined it yet.               *)
Streams == main \in {"launched", "wait", "join"}

-----------------------------------------------------------------------------
(* Discipline. *)

Typing ==
  /\ tag \in Tags
  /\ data \in Seq(Nat) /\ Len(data) <= Capacity
  /\ readAt \in 0..Capacity
  /\ todo \in Seq([op : Ops, n : Nat])
  /\ answers \in Seq([op : ReadOps, tag : Tags])
  /\ mem \in [count : Nat, underflow : Nat, state : States]
  /\ job \in [call : {"none", "send", "repeat"}, n : Nat, c : 0..Forever]
  /\ sent \in 0..job.n
  /\ shown \in Seq(Nat)
  /\ rounds \in 0..Forever

(* The thread lives while the caller has not joined it.                    *)
Threads ==
  /\ main \in {"idle", "cleared", "counted", "launched", "wait", "join",
               "halted", "polled", "emptied", "loaded"}
  /\ thread \in [at : {"none", "first", "handle", "blocked", "top", "size",
                       "check", "drain", "drained", "last"},
                 next : {"none", "top", "size", "check", "drained", "last"}]
  /\ thread.at # "none" => Streams
  /\ thread.at = "handle" => thread.next \in {"top", "size", "check"}
  /\ thread.at = "blocked" => thread.next \in {"check", "drained", "last"}
  /\ sent # 0 => main = "counted" \/ thread.at # "none"

(* Where nothing may be under way, nothing is.                             *)
Quiet ==
  /\ main = "idle" => Answered
  /\ Streams /\ thread.at \in {"none", "drained", "last"} => Answered
  /\ main \in {"cleared", "counted", "halted", "emptied", "loaded"} => answers = <<>>

(* What the tag may be asked while the caller is at m.                     *)
Fits(m, request) ==
  /\ request.op \in {"low", "high"} => request.n \in 0..(Digit - 1)
  /\ m = "halted" => request.op \in {"low", "high"} /\ request.n = 0
  /\ m \in {"cleared", "emptied"} => request.op \in {"zero", "reset"}
  /\ m = "counted" => request.op \in {"fill", "count"}
  /\ m = "polled" => request.op = "read_state"
  /\ m = "loaded" => request.op \in {"fill", "low", "high"}
  /\ m \in {"launched", "wait", "join"} =>
       request.op \in {"fill", "read_count", "read_both", "read_underflow"}

Requests == \A i \in 1..Len(todo) : Fits(main, todo[i])

(* Once the zeros have arrived the tag streams nothing, and once the reset *)
(* has arrived as well its fifo is empty and at its beginning.             *)
Emptying ==
  main \in {"cleared", "emptied"} =>
    /\ Len(todo) <= 2
    /\ Len(todo) = 2 => todo[1].op = "zero" /\ todo[2].op = "reset"
    /\ Len(todo) = 1 => todo[1].op = "reset"
    /\ Len(todo) <= 1 => tag.count = 0 /\ tag.underflow = 0
    /\ Len(todo) = 0 => data = <<>> /\ readAt = 0

Loading == main = "loaded" => tag.count = 0 /\ readAt = 0

RepeatsFromZero ==
  /\ tag.rounds # 0 => readAt = 0
  /\ fault # "repeat mode must start from 0"

Discipline ==
  /\ Typing /\ Threads /\ Quiet /\ Requests /\ Emptying /\ Loading /\ RepeatsFromZero

-----------------------------------------------------------------------------
(* The requests the PC makes. *)

RequestType == [op : Ops, n : Nat]

LEMMA SamplesFacts ==
  ASSUME NEW from \in Nat, NEW n \in Nat
  PROVE  /\ Samples(from, n) \in Seq(RequestType) /\ Len(Samples(from, n)) = n
         /\ \A i \in 1..n : Samples(from, n)[i] = [op |-> "fill", n |-> from + i]
BY DEF Samples, Set, RequestType, Ops

LEMMA RoundsFacts ==
  ASSUME NEW c \in Nat
  PROVE  /\ SetRounds(c) \in Seq(RequestType) /\ Len(SetRounds(c)) = 2
         /\ SetRounds(c)[1] = [op |-> "low", n |-> c % Digit]
         /\ SetRounds(c)[2] = [op |-> "high", n |-> c \div Digit]
<1>1. c % Digit \in Nat /\ c \div Digit \in Nat
  BY SizeAssumption
<1> DEFINE l == [op |-> "low", n |-> c % Digit]
           h == [op |-> "high", n |-> c \div Digit]
<1>2. l \in RequestType /\ h \in RequestType
  BY <1>1 DEF RequestType, Ops
<1>3. SetRounds(c) = <<l, h>>
  BY DEF SetRounds, Set
<1> HIDE DEF l, h
<1>4. /\ <<l, h>> \in Seq(RequestType) /\ Len(<<l, h>>) = 2
      /\ <<l, h>>[1] = l /\ <<l, h>>[2] = h
  BY <1>2
<1>5. QED
  BY <1>3, <1>4 DEF l, h

LEMMA DoFacts ==
  ASSUME NEW op \in Ops
  PROVE  Do(op) \in RequestType /\ Do(op).op = op
BY DEF Do, RequestType

(* Joining, and taking the first off.                                      *)
LEMMA JoinFacts ==
  ASSUME NEW S, NEW s \in Seq(S), NEW t \in Seq(S)
  PROVE  /\ s \o t \in Seq(S) /\ Len(s \o t) = Len(s) + Len(t)
         /\ \A i \in 1..Len(s) : (s \o t)[i] = s[i]
         /\ \A i \in (Len(s) + 1)..(Len(s) + Len(t)) : (s \o t)[i] = t[i - Len(s)]
OBVIOUS

LEMMA TailFacts ==
  ASSUME NEW S, NEW s \in Seq(S), s # <<>>
  PROVE  /\ Tail(s) \in Seq(S) /\ Len(Tail(s)) = Len(s) - 1 /\ Len(s) \in Nat \ {0}
         /\ \A i \in 1..(Len(s) - 1) : Tail(s)[i] = s[i + 1]
         /\ Head(s) = s[1] /\ Head(s) \in S
OBVIOUS

(* The halves of a repeat_count.                                           *)
LEMMA Halves ==
  ASSUME NEW c \in 0..Forever
  PROVE  /\ c % Digit \in 0..(Digit - 1) /\ c \div Digit \in 0..(Digit - 1)
         /\ Digit * (c \div Digit) + (c % Digit) = c
BY SizeAssumption DEF Forever

LEMMA Rejoined ==
  ASSUME NEW h \in 0..(Digit - 1), NEW l \in 0..(Digit - 1)
  PROVE  /\ Digit * h + l \in 0..Forever
         /\ (Digit * h + l) % Digit = l /\ (Digit * h + l) \div Digit = h
BY SizeAssumption DEF Forever

LEMMA ForeverIsPositive == Forever \in Nat /\ Forever > Digit - 1
BY SizeAssumption DEF Forever

(* Taking in an answer overwrites what it is about and nothing else.       *)
LEMMA ReceiveFacts ==
  ASSUME mem \in [count : Nat, underflow : Nat, state : States],
         NEW a \in [op : ReadOps, tag : Tags], Receive(a)
  PROVE  /\ mem' \in [count : Nat, underflow : Nat, state : States]
         /\ mem'.count = IF a.op \in {"read_count", "read_both"}
                         THEN a.tag.count ELSE mem.count
         /\ mem'.underflow = IF a.op \in {"read_both", "read_underflow"}
                             THEN a.tag.underflow ELSE mem.underflow
         /\ mem'.state = IF a.op = "read_state" THEN a.tag.state ELSE mem.state
<1>1. DOMAIN mem = {"count", "underflow", "state"}
  OBVIOUS
<1>2. /\ mem'.count = IF "count" \in Reads[a.op] THEN a.tag["count"] ELSE mem["count"]
      /\ mem'.underflow = IF "underflow" \in Reads[a.op]
                          THEN a.tag["underflow"] ELSE mem["underflow"]
      /\ mem'.state = IF "state" \in Reads[a.op] THEN a.tag["state"] ELSE mem["state"]
  BY <1>1 DEF Receive
<1>3. /\ "count" \in Reads[a.op] <=> a.op \in {"read_count", "read_both"}
      /\ "underflow" \in Reads[a.op] <=> a.op \in {"read_both", "read_underflow"}
      /\ "state" \in Reads[a.op] <=> a.op = "read_state"
  BY DEF Reads, ReadOps
<1>4. /\ mem'.count = IF a.op \in {"read_count", "read_both"}
                      THEN a.tag.count ELSE mem.count
      /\ mem'.underflow = IF a.op \in {"read_both", "read_underflow"}
                          THEN a.tag.underflow ELSE mem.underflow
      /\ mem'.state = IF a.op = "read_state" THEN a.tag.state ELSE mem.state
  BY <1>2, <1>3
<1>5. mem'.count \in Nat /\ mem'.underflow \in Nat /\ mem'.state \in States
  BY <1>4, SizeAssumption DEF Tags
<1>6. mem' = [f \in {"count", "underflow", "state"} |-> mem'[f]]
  BY <1>1 DEF Receive
<1>7. mem' \in [count : Nat, underflow : Nat, state : States]
  BY <1>5, <1>6
<1>8. QED
  BY <1>4, <1>7

(* What carrying out a request does to those on their way.                 *)
LEMMA Carried ==
  ASSUME Typing, todo # <<>>, todo' = Tail(todo)
  PROVE  /\ Head(todo) = todo[1] /\ todo[1].op \in Ops /\ todo[1].n \in Nat
         /\ Len(todo) \in Nat \ {0} /\ 1 \in 1..Len(todo)
         /\ todo' \in Seq([op : Ops, n : Nat]) /\ Len(todo') = Len(todo) - 1
         /\ \A i \in 1..Len(todo') : todo'[i] = todo[i + 1] /\ i + 1 \in 1..Len(todo)
<1> DEFINE S == [op : Ops, n : Nat]
<1>1. todo \in Seq(S)
  BY DEF Typing
<1> HIDE DEF S
<1>2. /\ Tail(todo) \in Seq(S) /\ Len(Tail(todo)) = Len(todo) - 1
      /\ Len(todo) \in Nat \ {0}
      /\ \A i \in 1..(Len(todo) - 1) : Tail(todo)[i] = todo[i + 1]
      /\ Head(todo) = todo[1] /\ Head(todo) \in S
  BY <1>1, TailFacts
<1>3. Head(todo).op \in Ops /\ Head(todo).n \in Nat
  BY <1>2 DEF S
<1>4. QED
  BY <1>2, <1>3 DEF S

(* A tag's memory with one or a few of its fields stored.                  *)
LEMMA CountStored ==
  ASSUME NEW t \in Tags, NEW c \in Nat
  PROVE  [t EXCEPT !.count = c] \in Tags
BY DEF Tags

LEMMA CountsStored ==
  ASSUME NEW t \in Tags, NEW c \in Nat, NEW u \in 0..(UnderflowRange - 1)
  PROVE  [t EXCEPT !.count = c, !.underflow = u] \in Tags
BY DEF Tags

LEMMA RoundsStored ==
  ASSUME NEW t \in Tags, NEW r \in 0..Forever
  PROVE  [t EXCEPT !.rounds = r] \in Tags
BY DEF Tags

LEMMA RoundBegun ==
  ASSUME NEW t \in Tags, NEW r \in 0..Forever
  PROVE  [t EXCEPT !.rounds = r, !.idx = 0, !.state = "sending"] \in Tags
BY DEF Tags, States

LEMMA IdxStored ==
  ASSUME NEW t \in Tags, NEW i \in Nat
  PROVE  [t EXCEPT !.idx = i] \in Tags
BY DEF Tags

LEMMA StateStored ==
  ASSUME NEW t \in Tags
  PROVE  /\ [t EXCEPT !.state = "none"] \in Tags
         /\ [t EXCEPT !.idx = 0, !.state = "interval"] \in Tags
BY DEF Tags, States

LEMMA Numbers ==
  /\ 0 \in Nat /\ 0 \in 0..(UnderflowRange - 1) /\ 0 \in 0..Forever
BY SizeAssumption, ForeverIsPositive

LEMMA OneLess ==
  ASSUME NEW r \in 0..Forever, r # 0
  PROVE  OneRoundLess(r) \in 0..Forever
BY ForeverIsPositive DEF OneRoundLess

LEMMA ByteSet ==
  ASSUME NEW r \in 0..Forever, NEW n \in 0..(Digit - 1)
  PROVE  /\ n + Digit * (r \div Digit) \in 0..Forever
         /\ Digit * n + (r % Digit) \in 0..Forever
<1>1. r % Digit \in 0..(Digit - 1) /\ r \div Digit \in 0..(Digit - 1)
  BY Halves
<1>2. n + Digit * (r \div Digit) = Digit * (r \div Digit) + n
  BY <1>1, SizeAssumption
<1>3. QED
  BY <1>1, <1>2, Rejoined

-----------------------------------------------------------------------------
(* Discipline is kept, conjunct by conjunct. *)

LEMMA TagKept ==
  ASSUME Typing, Requests, [Next]_vars
  PROVE  tag' \in Tags
<1>1. /\ tag \in Tags /\ tag.count \in Nat /\ tag.idx \in Nat
      /\ tag.underflow \in 0..(UnderflowRange - 1) /\ tag.rounds \in 0..Forever
  BY DEF Typing, Tags
<1>2. CASE Zero
  BY <1>1, <1>2, Numbers, CountsStored DEF Zero
<1>3. CASE SetCount
  <2>1. Head(todo).n \in Nat
    BY <1>3, Carried DEF SetCount, Carry
  <2>2. QED
    BY <1>1, <1>3, <2>1, CountStored DEF SetCount
<1>4. CASE SetByte
  <2>1. Head(todo).n \in 0..(Digit - 1)
    BY <1>4, Carried DEF SetByte, Carry, Requests, Fits
  <2>2. QED
    BY <1>1, <1>4, <2>1, ByteSet, RoundsStored DEF SetByte
<1>5. ASSUME tag' = [tag EXCEPT !.rounds = OneRoundLess(@), !.idx = 0,
                                !.state = "sending"],
             tag.rounds # 0
      PROVE  tag' \in Tags
  <2>1. OneRoundLess(tag.rounds) \in 0..Forever
    BY <1>1, <1>5, OneLess
  <2>2. QED
    BY <1>1, <1>5, <2>1, RoundBegun
<1>6. CASE BeginRepeat
  BY <1>5, <1>6 DEF BeginRepeat
<1>7. CASE NextRound
  <2>1. CASE tag.rounds # 0
    BY <1>5, <1>7, <2>1 DEF NextRound
  <2>2. CASE tag.rounds = 0
    <3>1. tag' = [tag EXCEPT !.state = "none"]
      BY <1>7, <2>2 DEF NextRound
    <3>2. QED
      BY <1>1, <3>1, StateStored
  <2>3. QED
    BY <2>1, <2>2
<1>8. CASE Stream
  <2>1. tag.count # 0 /\ tag' = [tag EXCEPT !.count = @ - 1]
    BY <1>8 DEF Stream, Streaming
  <2>2. tag.count - 1 \in Nat
    BY <1>1, <2>1
  <2>3. QED
    BY <1>1, <2>1, <2>2, CountStored
<1>9. CASE Underflow
  <2>1. /\ tag.count # 0
        /\ tag' = [tag EXCEPT !.count = @ - 1,
                              !.underflow = (@ + 1) % UnderflowRange]
    BY <1>9 DEF Underflow, Streaming
  <2>2. /\ tag.count - 1 \in Nat
        /\ (tag.underflow + 1) % UnderflowRange \in 0..(UnderflowRange - 1)
    BY <1>1, <2>1, SizeAssumption
  <2>3. QED
    BY <1>1, <2>1, <2>2, CountsStored
<1>10. CASE Sending \/ Pause
  <2>1. tag' = [tag EXCEPT !.idx = @ + 1]
    BY <1>10 DEF Sending, Pause
  <2>2. tag.idx + 1 \in Nat
    BY <1>1
  <2>3. QED
    BY <1>1, <2>1, <2>2, IdxStored
<1>11. CASE MessageSent
  BY <1>1, <1>11, StateStored DEF MessageSent
<1>12. CASE UNCHANGED tag
  BY <1>1, <1>12
<1>13. QED
  BY <1>2, <1>3, <1>4, <1>6, <1>7, <1>8, <1>9, <1>10, <1>11, <1>12
  DEF Next, vars, board, StopEarly, Caller, Feeder, Receiving, Serve, Tick, Send, Repeat,
      FirstFill, Launch, SetRunning, Waited, Join, Poll, Polled, Load, Loaded, Main,
      First, Handled, Top, Feed, Sleep, Check, Drain, Drained, Last, Thread, TakeAnswer,
      Reset, Fill, Read

LEMMA DataKept ==
  ASSUME Typing, [Next]_vars
  PROVE  /\ data' \in Seq(Nat) /\ Len(data') <= Capacity /\ readAt' \in 0..Capacity
<1>1. data \in Seq(Nat) /\ Len(data) <= Capacity /\ readAt \in 0..Capacity
  BY DEF Typing
<1>2. CASE Reset
  BY <1>2, SizeAssumption DEF Reset
<1>3. CASE Fill
  <2>1. Head(todo).n \in Nat
    BY <1>3, Carried DEF Fill, Carry
  <2>2. readAt' = readAt /\ (data' = data \/ (Len(data) < Capacity /\ data' = Append(data, Head(todo).n)))
    BY <1>3 DEF Fill
  <2>3. QED
    BY <1>1, <2>1, <2>2, SizeAssumption, SMTT(30)
<1>4. CASE Stream
  <2>1. data # <<>> /\ data' = Tail(data) /\ readAt' = (readAt + 1) % (Capacity + 1)
    BY <1>4 DEF Stream
  <2>2. data' \in Seq(Nat) /\ Len(data') <= Capacity
    BY <1>1, <2>1, SizeAssumption
  <2>3. readAt' \in 0..Capacity
    BY <1>1, <2>1, SizeAssumption
  <2>4. QED
    BY <2>2, <2>3
<1>5. CASE UNCHANGED <<data, readAt>>
  BY <1>1, <1>5
<1>6. QED
  BY <1>2, <1>3, <1>4, <1>5
  DEF Next, vars, board, StopEarly, Caller, Feeder, Receiving, Serve, Tick, Send, Repeat,
      FirstFill, Launch, SetRunning, Waited, Join, Poll, Polled, Load, Loaded, Main,
      First, Handled, Top, Feed, Sleep, Check, Drain, Drained, Last, Thread, TakeAnswer,
      Zero, SetCount, SetByte, Read, BeginRepeat, Underflow, Sending, MessageSent, Pause,
      NextRound

LEMMA JobKept ==
  ASSUME Typing, Threads, [Next]_vars
  PROVE  /\ job' \in [call : {"none", "send", "repeat"}, n : Nat, c : 0..Forever]
         /\ sent' \in 0..job'.n
<1>1. /\ job \in [call : {"none", "send", "repeat"}, n : Nat, c : 0..Forever]
      /\ sent \in 0..job.n /\ job.n \in Nat
  BY DEF Typing
<1>2. main = "idle" => sent = 0
  BY DEF Threads, Streams
<1>3. ASSUME NEW n \in Counts, Send(n)
      PROVE  /\ job' \in [call : {"none", "send", "repeat"}, n : Nat, c : 0..Forever]
             /\ sent' \in 0..job'.n
  <2>1. n \in Nat /\ 0 \in 0..Forever
    BY SizeAssumption, ForeverIsPositive
  <2>2. sent' = 0 /\ job' = [call |-> "send", n |-> n, c |-> 0]
    BY <1>2, <1>3 DEF Send, Main
  <2>3. QED
    BY <2>1, <2>2
<1>4. ASSUME NEW n \in Messages, NEW c \in Rounds, Repeat(n, c)
      PROVE  /\ job' \in [call : {"none", "send", "repeat"}, n : Nat, c : 0..Forever]
             /\ sent' \in 0..job'.n
  <2>1. n \in Nat /\ c \in 0..Forever
    BY SizeAssumption, RoundsAssumption DEF Forever
  <2>2. sent' = 0 /\ job' = [call |-> "repeat", n |-> n, c |-> c]
    BY <1>2, <1>4 DEF Repeat, Main
  <2>3. QED
    BY <2>1, <2>2
<1>5. CASE FirstFill
  BY <1>1, <1>5, SizeAssumption DEF FirstFill, Smaller
<1>6. CASE Feed
  <2>1. GetLen > 0 /\ GetLen \in Int /\ sent + GetLen <= job.n
    BY <1>1, <1>6, SizeAssumption, SMTT(30) DEF Feed, GetLen, Room, Smaller, Typing
  <2>2. job' = job /\ (sent' = sent \/ sent' = sent + GetLen)
    BY <1>6 DEF Feed, Thread
  <2>3. QED
    BY <1>1, <2>1, <2>2
<1>7. CASE Last
  <2>1. job' = job /\ sent' = 0
    BY <1>7 DEF Last, Thread
  <2>2. QED
    BY <1>1, <2>1
<1>8. CASE UNCHANGED <<job, sent>>
  BY <1>1, <1>8
<1>9. QED
  BY <1>3, <1>4, <1>5, <1>6, <1>7, <1>8
  DEF Next, vars, driver, StopEarly, Caller, Feeder, Receiving, Serve, Tick,
      Launch, SetRunning, Waited, Join, Poll, Polled, Load, Loaded, Main,
      First, Handled, Top, Sleep, Check, Drain, Drained, Thread, TakeAnswer,
      Zero, Reset, Fill, SetCount, SetByte, Read, Carry, Interrupt, BeginRepeat, Stream,
      Underflow, Sending, MessageSent, Pause, NextRound

LEMMA HistoryKept ==
  ASSUME Typing, [Next]_vars
  PROVE  shown' \in Seq(Nat) /\ rounds' \in 0..Forever
<1>1. shown \in Seq(Nat) /\ rounds \in 0..Forever /\ data \in Seq(Nat)
  BY DEF Typing
<1>2. Smaller(rounds + 1, Forever) \in 0..Forever /\ 0 \in 0..Forever
  BY <1>1, ForeverIsPositive DEF Smaller
<1>3. CASE Stream
  <2>1. data # <<>> /\ shown' = Append(shown, Head(data)) /\ rounds' = rounds
    BY <1>3 DEF Stream
  <2>2. Head(data) \in Nat
    BY <1>1, <2>1, TailFacts
  <2>3. QED
    BY <1>1, <2>1, <2>2
<1>4. CASE Underflow
  <2>1. shown' = Append(shown, 0) /\ rounds' = rounds
    BY <1>4 DEF Underflow
  <2>2. QED
    BY <1>1, <2>1
<1>5. CASE BeginRepeat \/ NextRound \/ Load
  BY <1>1, <1>2, <1>5 DEF BeginRepeat, NextRound, Load
<1>6. CASE \E n \in Counts : Send(n)
  <2>1. shown' = <<>> /\ rounds' = rounds
    BY <1>6 DEF Send
  <2>2. QED
    BY <1>1, <2>1
<1>7. CASE UNCHANGED <<shown, rounds>>
  BY <1>1, <1>7
<1>8. QED
  BY <1>3, <1>4, <1>5, <1>6, <1>7
  DEF Next, vars, history, StopEarly, Caller, Feeder, Receiving, Serve, Tick, Repeat,
      FirstFill, Launch, SetRunning, Waited, Join, Poll, Polled, Loaded, Main,
      First, Handled, Top, Feed, Sleep, Check, Drain, Drained, Last, Thread, TakeAnswer,
      Zero, Reset, Fill, SetCount, SetByte, Read, Carry, Sending, MessageSent, Pause

(* A step of the PC asks for nothing, or for something that the tag knows. *)
LEMMA TodoKept ==
  ASSUME Typing, [Next]_vars
  PROVE  todo' \in Seq(RequestType)
<1>1. todo \in Seq(RequestType)
  BY DEF Typing, RequestType
<1>2. ASSUME NEW r \in Seq(RequestType), todo' = todo \o r
      PROVE  todo' \in Seq(RequestType)
  BY <1>1, <1>2, JoinFacts
<1>3. ASSUME NEW op \in Ops, todo' = todo \o <<Do(op)>>
      PROVE  todo' \in Seq(RequestType)
  <2>1. <<Do(op)>> \in Seq(RequestType)
    BY DoFacts
  <2>2. QED
    BY <1>2, <1>3, <2>1
<1>4. <<Do("zero"), Do("reset")>> \in Seq(RequestType)
  BY DoFacts DEF Ops
<1>5. job.n \in Nat /\ job.c \in Nat /\ sent \in Nat /\ 0 \in Nat
  BY ForeverIsPositive DEF Typing
<1>6. CASE \E n \in Counts : Send(n)
  BY <1>2, <1>4, <1>6 DEF Send, Ask
<1>7. CASE FirstFill
  <2> DEFINE m == Smaller(Capacity, job.n)
             k == [op |-> "count", n |-> job.n]
  <2>1. m \in Nat /\ k \in RequestType
    BY <1>5, SizeAssumption DEF Smaller, RequestType, Ops
  <2>2. todo' = todo \o (Samples(0, m) \o <<k>>)
    BY <1>7 DEF FirstFill, Ask, Set
  <2> HIDE DEF m, k
  <2>3. Samples(0, m) \in Seq(RequestType) /\ <<k>> \in Seq(RequestType)
    BY <2>1, SamplesFacts
  <2>4. Samples(0, m) \o <<k>> \in Seq(RequestType)
    BY <2>3, JoinFacts
  <2>5. QED
    BY <1>2, <2>2, <2>4
<1>8. CASE \E n \in Messages, c \in Rounds : Repeat(n, c)
  BY <1>2, <1>5, <1>8, RoundsFacts DEF Repeat, Ask
<1>9. CASE Poll \/ First \/ Sleep \/ Drain
  BY <1>3, <1>9 DEF Poll, First, Sleep, Drain, Ask, Ops
<1>10. CASE Polled
  BY <1>1, <1>2, <1>4, <1>10 DEF Polled, Ask, link
<1>11. CASE Load
  <2>1. Samples(0, job.n) \in Seq(RequestType) /\ SetRounds(job.c) \in Seq(RequestType)
    BY <1>5, SamplesFacts, RoundsFacts
  <2>2. Samples(0, job.n) \o SetRounds(job.c) \in Seq(RequestType)
    BY <2>1, JoinFacts
  <2>3. QED
    BY <1>2, <1>11, <2>2 DEF Load, Ask
<1>12. CASE Feed
  <2>1. CASE GetLen <= Capacity
    <3>1. GetLen \in Nat
      BY <1>5, <1>12, SizeAssumption, SMTT(30) DEF Feed, GetLen, Room, Smaller, Typing
    <3>2. Samples(sent, GetLen) \in Seq(RequestType) /\ <<Do("read_both")>> \in Seq(RequestType)
      BY <1>5, <3>1, SamplesFacts, DoFacts DEF Ops
    <3>3. Samples(sent, GetLen) \o <<Do("read_both")>> \in Seq(RequestType)
      BY <3>2, JoinFacts
    <3>4. QED
      BY <1>2, <1>12, <2>1, <3>3 DEF Feed, Ask
  <2>2. CASE ~(GetLen <= Capacity)
    BY <1>1, <1>12, <2>2 DEF Feed, link
  <2>3. QED
    BY <2>1, <2>2
<1>13. CASE Drained
  BY <1>1, <1>3, <1>13 DEF Drained, Ask, Ops, link
<1>14. CASE Serve
  BY <1>14, Carried DEF Serve, Zero, Reset, Fill, SetCount, SetByte, Read, Carry, RequestType
<1>15. CASE UNCHANGED todo
  BY <1>1, <1>15
<1>16. QED
  BY <1>6, <1>7, <1>8, <1>9, <1>10, <1>11, <1>12, <1>13, <1>14, <1>15
  DEF Next, vars, link, StopEarly, Caller, Feeder, Receiving, Tick, Interrupt,
      Launch, SetRunning, Waited, Join, Loaded, Handled, Top, Check, Last, TakeAnswer,
      BeginRepeat, Stream, Underflow, Sending, MessageSent, Pause, NextRound

LEMMA MemStored ==
  ASSUME NEW m \in [count : Nat, underflow : Nat, state : States], NEW c \in Nat
  PROVE  /\ [m EXCEPT !.count = c] \in [count : Nat, underflow : Nat, state : States]
         /\ [m EXCEPT !.count = 0, !.underflow = 0]
              \in [count : Nat, underflow : Nat, state : States]
OBVIOUS

LEMMA MemKept ==
  ASSUME Typing, [Next]_vars
  PROVE  /\ mem' \in [count : Nat, underflow : Nat, state : States]
         /\ answers' \in Seq([op : ReadOps, tag : Tags])
<1> DEFINE M == [count : Nat, underflow : Nat, state : States]
           A == [op : ReadOps, tag : Tags]
<1>1. mem \in M /\ answers \in Seq(A) /\ tag \in Tags /\ job.n \in Nat
  BY DEF Typing
<1>2. CASE (\E n \in Counts : Send(n)) \/ Polled
  <2>1. (mem' = mem \/ mem' = [mem EXCEPT !.count = 0, !.underflow = 0]) /\ answers' = answers
    BY <1>2 DEF Send, Polled, Ask, link
  <2>2. [mem EXCEPT !.count = 0, !.underflow = 0] \in M
    BY <1>1, MemStored
  <2> HIDE DEF M, A
  <2>3. mem' \in M /\ answers' \in Seq(A)
    BY <1>1, <2>1, <2>2
  <2>4. QED
    BY <2>3 DEF M, A
<1>3. CASE FirstFill
  <2>1. mem' = [mem EXCEPT !.count = job.n] /\ answers' = answers
    BY <1>3 DEF FirstFill, Ask
  <2>2. QED
    BY <1>1, <2>1
<1>4. CASE Receiving
  <2>1. answers # <<>> /\ answers' = Tail(answers) /\ Receive(Head(answers))
    BY <1>4 DEF Receiving, TakeAnswer
  <2> HIDE DEF A
  <2>2. Head(answers) \in A /\ Tail(answers) \in Seq(A)
    BY <1>1, <2>1, TailFacts
  <2> USE DEF A
  <2>3. QED
    BY <1>1, <2>1, <2>2, ReceiveFacts
<1>5. CASE Read
  <2> DEFINE a == [op |-> Head(todo).op, tag |-> tag]
  <2>1. mem' = mem /\ answers' = Append(answers, a)
    BY <1>5 DEF Read, Carry
  <2>2. a \in A
    BY <1>1, <1>5, Zenon DEF Read, Carry, Reads, ReadOps
  <2> HIDE DEF a, A
  <2>3. Append(answers, a) \in Seq(A)
    BY <1>1, <2>2
  <2>4. QED
    BY <1>1, <2>1, <2>3 DEF A
<1>6. CASE UNCHANGED <<mem, answers>>
  BY <1>1, <1>6
<1>7. QED
  BY <1>2, <1>3, <1>4, <1>5, <1>6
  DEF Next, vars, link, StopEarly, Caller, Feeder, Serve, Tick, Interrupt, Repeat, Poll,
      Load, Launch, SetRunning, Waited, Join, Loaded, Ask, Carry, Zero, Reset, Fill,
      SetCount, SetByte, First, Handled, Top, Feed, Sleep, Check, Drain, Drained, Last,
      BeginRepeat, Stream, Underflow, Sending, MessageSent, Pause, NextRound

LEMMA TypingKept ==
  ASSUME Typing, Threads, Requests, [Next]_vars
  PROVE  Typing'
BY TagKept, DataKept, JobKept, HistoryKept, TodoKept, MemKept DEF Typing, RequestType

LEMMA ThreadsKept ==
  ASSUME Threads, [Next]_vars
  PROVE  Threads'
<1> USE DEF Threads, Streams, Main, Thread
<1>1. CASE \/ \E n \in Counts : Send(n)
           \/ \E n \in Messages, c \in Rounds : Repeat(n, c)
           \/ StopEarly
  BY <1>1 DEF Send, Repeat, StopEarly
<1>2. CASE Caller
  BY <1>2 DEF Caller, FirstFill, Launch, SetRunning, Waited, Join, Poll, Polled, Load,
              Loaded, Answered
<1>3. CASE First \/ Handled \/ Top
  BY <1>3 DEF First, Handled, Top
<1>4. CASE Feed \/ Sleep \/ Check
  <2>1. CASE Feed
    BY <2>1 DEF Feed
  <2>2. CASE Sleep
    BY <2>2 DEF Sleep
  <2>3. CASE Check
    BY <2>3 DEF Check
  <2>4. QED
    BY <1>4, <2>1, <2>2, <2>3
<1>5. CASE Drain \/ Drained \/ Last
  BY <1>5 DEF Drain, Drained, Last
<1>6. CASE Receiving \/ Serve \/ Tick
  BY <1>6, ZenonT(40) DEF Receiving, TakeAnswer, Serve, Carry, Zero, Reset, Fill, SetCount, SetByte,
              Read, Tick, Interrupt, BeginRepeat, Stream, Underflow, Sending, MessageSent,
              Pause, NextRound, driver
<1>7. CASE UNCHANGED vars
  BY <1>7 DEF vars, driver
<1>8. QED
  BY <1>1, <1>2, <1>3, <1>4, <1>5, <1>6, <1>7 DEF Next, Feeder

(* Only a call, or a working thread, has something under way; and only a   *)
(* read is answered.                                                       *)
LEMMA QuietKept ==
  ASSUME Typing, Threads, Quiet, Requests, [Next]_vars
  PROVE  Quiet'
<1> USE DEF Threads, Quiet, Streams, Answered, Main, Thread
<1>1. CASE \/ \E n \in Counts : Send(n)
           \/ \E n \in Messages, c \in Rounds : Repeat(n, c)
           \/ StopEarly
  BY <1>1 DEF Send, Repeat, StopEarly, Ask, link
<1>2. CASE FirstFill \/ Launch \/ SetRunning \/ Waited \/ Join
  BY <1>2 DEF FirstFill, Launch, SetRunning, Waited, Join, Ask, link
<1>3. CASE Poll \/ Polled \/ Load \/ Loaded
  BY <1>3 DEF Poll, Polled, Load, Loaded, Ask, link
<1>4. CASE First \/ Handled \/ Top
  BY <1>4 DEF First, Handled, Top, Ask, link
<1>5. CASE Feed \/ Sleep \/ Check
  <2>1. CASE Feed
    BY <2>1 DEF Feed
  <2>2. CASE Sleep
    BY <2>2 DEF Sleep
  <2>3. CASE Check
    BY <2>3 DEF Check, link
  <2>4. QED
    BY <1>5, <2>1, <2>2, <2>3
<1>6. CASE Drain \/ Drained \/ Last
  BY <1>6 DEF Drain, Drained, Last, Ask, link
<1>7. CASE Receiving
  BY <1>7 DEF Receiving, TakeAnswer, driver
<1>8. CASE Zero \/ Reset \/ Fill \/ SetCount \/ SetByte
  <2>1. todo # <<>> /\ answers' = answers /\ main' = main /\ thread' = thread
    BY <1>8 DEF Zero, Reset, Fill, SetCount, SetByte, Carry, driver
  <2>2. QED
    BY <2>1
<1>9. CASE Read
  <2>1. todo # <<>> /\ main' = main /\ thread' = thread /\ Head(todo).op \in ReadOps
    BY <1>9 DEF Read, Carry, driver, Reads, ReadOps
  <2>2. todo[1].op \in ReadOps /\ 1 \in 1..Len(todo)
    BY <1>9, <2>1, Carried DEF Read, Carry
  <2>3. main \notin {"cleared", "counted", "halted", "emptied", "loaded"}
    BY <2>2 DEF Requests, Fits, ReadOps
  <2>4. QED
    BY <2>1, <2>3
<1>10. CASE Tick
  BY <1>10 DEF Tick, Interrupt, BeginRepeat, Stream, Underflow, Sending, MessageSent,
               Pause, NextRound, link, driver
<1>11. CASE UNCHANGED vars
  BY <1>11 DEF vars, link, driver
<1>12. QED
  BY <1>1, <1>2, <1>3, <1>4, <1>5, <1>6, <1>7, <1>8, <1>9, <1>10, <1>11
  DEF Next, Caller, Feeder, Serve

LEMMA SamplesFit ==
  ASSUME NEW from \in Nat, NEW n \in Nat,
         NEW m \in {"counted", "loaded", "launched", "wait", "join"}
  PROVE  /\ Samples(from, n) \in Seq(RequestType)
         /\ \A i \in 1..Len(Samples(from, n)) : Fits(m, Samples(from, n)[i])
<1>1. /\ Samples(from, n) \in Seq(RequestType) /\ Len(Samples(from, n)) = n
      /\ \A i \in 1..n : Samples(from, n)[i] = [op |-> "fill", n |-> from + i]
  BY SamplesFacts
<1>2. ASSUME NEW k \in Nat PROVE Fits(m, [op |-> "fill", n |-> k])
  BY DEF Fits
<1>3. QED
  BY <1>1, <1>2

LEMMA RoundsFit ==
  ASSUME NEW c \in 0..Forever, NEW m, m = "loaded" \/ (m = "halted" /\ c = 0)
  PROVE  /\ SetRounds(c) \in Seq(RequestType)
         /\ \A i \in 1..Len(SetRounds(c)) : Fits(m, SetRounds(c)[i])
<1>1. c \in Nat
  BY ForeverIsPositive
<1>2. /\ SetRounds(c) \in Seq(RequestType) /\ Len(SetRounds(c)) = 2
      /\ SetRounds(c)[1] = [op |-> "low", n |-> c % Digit]
      /\ SetRounds(c)[2] = [op |-> "high", n |-> c \div Digit]
  BY <1>1, RoundsFacts
<1>3. c % Digit \in 0..(Digit - 1) /\ c \div Digit \in 0..(Digit - 1)
  BY Halves
<1>4. c = 0 => c % Digit = 0 /\ c \div Digit = 0
  BY SizeAssumption
<1>5. ASSUME NEW k \in 0..(Digit - 1), m = "loaded" \/ k = 0
      PROVE  Fits(m, [op |-> "low", n |-> k]) /\ Fits(m, [op |-> "high", n |-> k])
  BY <1>5 DEF Fits
<1>6. Fits(m, SetRounds(c)[1]) /\ Fits(m, SetRounds(c)[2])
  BY <1>2, <1>3, <1>4, <1>5
<1>7. QED
  BY <1>2, <1>6

LEMMA JoinedFit ==
  ASSUME NEW m, NEW f \in Seq(RequestType), NEW r \in Seq(RequestType),
         \A i \in 1..Len(f) : Fits(m, f[i]), \A i \in 1..Len(r) : Fits(m, r[i])
  PROVE  f \o r \in Seq(RequestType) /\ \A i \in 1..Len(f \o r) : Fits(m, (f \o r)[i])
<1>1. /\ f \o r \in Seq(RequestType) /\ Len(f \o r) = Len(f) + Len(r)
      /\ \A i \in 1..Len(f) : (f \o r)[i] = f[i]
      /\ \A i \in (Len(f) + 1)..(Len(f) + Len(r)) : (f \o r)[i] = r[i - Len(f)]
  BY JoinFacts
<1>2. Len(f) \in Nat /\ Len(r) \in Nat
  OBVIOUS
<1>3. ASSUME NEW i \in 1..(Len(f) + Len(r)) PROVE Fits(m, (f \o r)[i])
  <2>1. CASE i <= Len(f)
    BY <1>1, <1>2, <2>1
  <2>2. CASE i > Len(f)
    <3>1. i - Len(f) \in 1..Len(r)
      BY <1>2, <2>2
    <3>2. QED
      BY <1>1, <1>2, <2>2, <3>1
  <2>3. QED
    BY <1>2, <2>1, <2>2
<1>4. QED
  BY <1>1, <1>3

LEMMA RequestsJoined ==
  ASSUME Typing, NEW r \in Seq(RequestType), Ask(r),
         \A i \in 1..Len(todo) : Fits(main', todo[i]),
         \A i \in 1..Len(r) : Fits(main', r[i])
  PROVE  Requests'
<1>1. todo \in Seq(RequestType)
  BY DEF Typing, RequestType
<1>2. todo' = todo \o r
  BY DEF Ask
<1>3. \A i \in 1..Len(todo \o r) : Fits(main', (todo \o r)[i])
  BY <1>1, JoinedFit
<1>4. QED
  BY <1>2, <1>3 DEF Requests

LEMMA RequestsKept ==
  ASSUME Typing, Threads, Quiet, Requests, [Next]_vars
  PROVE  Requests'
<1>1. job.n \in Nat /\ job.c \in 0..Forever /\ job.c \in Nat /\ sent \in Nat /\ 0 \in Nat
  BY ForeverIsPositive DEF Typing
<1>2. Answered => \A i \in 1..Len(todo) : Fits(main', todo[i])
  BY DEF Answered
<1>3. ASSUME NEW op \in Ops, Ask(<<Do(op)>>), Fits(main', Do(op)),
             \A i \in 1..Len(todo) : Fits(main', todo[i])
      PROVE  Requests'
  <2>1. <<Do(op)>> \in Seq(RequestType)
    BY DoFacts
  <2>2. \A i \in 1..Len(<<Do(op)>>) : Fits(main', <<Do(op)>>[i])
    BY <1>3
  <2>3. QED
    BY <1>3, <2>1, <2>2, RequestsJoined
<1>4. ASSUME Answered, main' \in {"cleared", "emptied"}, Ask(<<Do("zero"), Do("reset")>>)
      PROVE  Requests'
  <2>1. <<Do("zero"), Do("reset")>> \in Seq(RequestType)
    BY DoFacts DEF Ops
  <2>2. Fits(main', Do("zero")) /\ Fits(main', Do("reset"))
    BY <1>4 DEF Fits, Do
  <2>3. \A i \in 1..Len(<<Do("zero"), Do("reset")>>) :
          Fits(main', <<Do("zero"), Do("reset")>>[i])
    BY <2>2
  <2>4. QED
    BY <1>2, <1>4, <2>1, <2>3, RequestsJoined
<1>5. CASE \E n \in Counts : Send(n)
  BY <1>4, <1>5 DEF Send, Main, Quiet
<1>6. CASE FirstFill
  <2> DEFINE m == Smaller(Capacity, job.n)
             k == [op |-> "count", n |-> job.n]
  <2>1. m \in Nat /\ k \in RequestType /\ Fits("counted", k)
    BY <1>1, SizeAssumption DEF Smaller, RequestType, Ops, Fits
  <2>2. Answered /\ main' = "counted" /\ Ask(Samples(0, m) \o <<k>>)
    BY <1>6 DEF FirstFill, Main, Ask, Set
  <2> HIDE DEF m, k
  <2>3. <<k>> \in Seq(RequestType) /\ \A i \in 1..Len(<<k>>) : Fits("counted", <<k>>[i])
    BY <2>1
  <2>4. /\ Samples(0, m) \in Seq(RequestType)
        /\ \A i \in 1..Len(Samples(0, m)) : Fits("counted", Samples(0, m)[i])
    BY <1>1, <2>1, SamplesFit
  <2>5. /\ Samples(0, m) \o <<k>> \in Seq(RequestType)
        /\ \A i \in 1..Len(Samples(0, m) \o <<k>>) :
             Fits("counted", (Samples(0, m) \o <<k>>)[i])
    BY <2>3, <2>4, JoinedFit
  <2>6. QED
    BY <1>2, <2>2, <2>5, RequestsJoined
<1>7. CASE Launch \/ Loaded
  BY <1>7 DEF Launch, Loaded, Answered, link, Requests
<1>8. CASE SetRunning \/ Waited \/ StopEarly
  BY <1>8 DEF SetRunning, Waited, StopEarly, Main, link, Requests, Fits
<1>9. CASE Join
  BY <1>9 DEF Join, Main, link, Requests, Quiet, Streams, Answered
<1>10. CASE \E n \in Messages, c \in Rounds : Repeat(n, c)
  <2>1. Answered /\ main' = "halted" /\ Ask(SetRounds(0))
    BY <1>10 DEF Repeat, Main, Quiet
  <2>2. /\ SetRounds(0) \in Seq(RequestType)
        /\ \A i \in 1..Len(SetRounds(0)) : Fits("halted", SetRounds(0)[i])
    BY Numbers, RoundsFit
  <2>3. QED
    BY <1>2, <2>1, <2>2, RequestsJoined
<1>11. CASE Poll
  BY <1>2, <1>3, <1>11 DEF Poll, Main, Ops, Fits, Do
<1>12. CASE Polled
  <2>1. CASE mem.state = "none"
    BY <1>4, <1>12, <2>1 DEF Polled
  <2>2. CASE mem.state # "none"
    BY <1>12, <2>2 DEF Polled, Answered, link, Requests
  <2>3. QED
    BY <2>1, <2>2
<1>13. CASE Load
  <2> DEFINE f == Samples(0, job.n)
             r == SetRounds(job.c)
  <2>1. Answered /\ main' = "loaded" /\ Ask(f \o r)
    BY <1>13 DEF Load, Main
  <2>2. f \in Seq(RequestType) /\ \A i \in 1..Len(f) : Fits("loaded", f[i])
    BY <1>1, SamplesFit
  <2>3. r \in Seq(RequestType) /\ \A i \in 1..Len(r) : Fits("loaded", r[i])
    BY <1>1, RoundsFit
  <2> HIDE DEF f, r
  <2>4. f \o r \in Seq(RequestType) /\ \A i \in 1..Len(f \o r) : Fits("loaded", (f \o r)[i])
    BY <2>2, <2>3, JoinedFit
  <2>5. QED
    BY <1>2, <2>1, <2>4, RequestsJoined
<1>14. ASSUME thread.at # "none", main' = main, NEW op \in {"read_count", "read_both", "read_underflow"},
              Ask(<<Do(op)>>)
       PROVE  Requests'
  <2>1. op \in Ops /\ Fits(main', Do(op))
    BY <1>14 DEF Ops, Fits, Do, Threads, Streams
  <2>2. \A i \in 1..Len(todo) : Fits(main', todo[i])
    BY <1>14 DEF Requests
  <2>3. QED
    BY <1>3, <1>14, <2>1, <2>2
<1>15. CASE First
  BY <1>14, <1>15 DEF First, Thread
<1>16. CASE Sleep
  BY <1>14, <1>16 DEF Sleep, Thread
<1>17. CASE Drain
  BY <1>14, <1>17 DEF Drain, Thread
<1>18. CASE Drained
  <2>1. CASE mem.count = 0
    BY <1>14, <1>18, <2>1 DEF Drained, Thread
  <2>2. CASE mem.count # 0
    BY <1>18, <2>2 DEF Drained, Thread, link, Requests
  <2>3. QED
    BY <2>1, <2>2
<1>19. CASE Feed
  <2>1. main' = main /\ thread.at = "size"
    BY <1>19 DEF Feed, Thread
  <2>2. CASE GetLen <= Capacity
    <3> DEFINE f == Samples(sent, GetLen)
               k == Do("read_both")
    <3>1. GetLen \in Nat /\ Ask(f \o <<k>>)
      BY <1>1, <1>19, <2>2, SizeAssumption, SMTT(30) DEF Feed, GetLen, Room, Smaller, Typing
    <3>2. main \in {"launched", "wait", "join"}
      BY <2>1 DEF Threads, Streams
    <3>3. f \in Seq(RequestType) /\ \A i \in 1..Len(f) : Fits(main, f[i])
      BY <1>1, <3>1, <3>2, SamplesFit
    <3>4. k \in RequestType /\ Fits(main, k)
      BY <3>2, DoFacts DEF Ops, Fits, Do
    <3> HIDE DEF f, k
    <3>5. /\ <<k>> \in Seq(RequestType)
          /\ \A i \in 1..Len(<<k>>) : Fits(main, <<k>>[i])
      BY <3>4
    <3>6. /\ f \o <<k>> \in Seq(RequestType)
          /\ \A i \in 1..Len(f \o <<k>>) : Fits(main, (f \o <<k>>)[i])
      BY <3>3, <3>5, JoinedFit
    <3>7. \A i \in 1..Len(todo) : Fits(main, todo[i])
      BY DEF Requests
    <3>8. QED
      BY <2>1, <3>1, <3>6, <3>7, RequestsJoined
  <2>3. CASE ~(GetLen <= Capacity)
    BY <1>19, <2>1, <2>3 DEF Feed, link, Requests
  <2>4. QED
    BY <2>2, <2>3
<1>20. CASE Serve
  <2>1. main' = main /\ todo # <<>> /\ todo' = Tail(todo)
    BY <1>20 DEF Serve, Zero, Reset, Fill, SetCount, SetByte, Read, Carry, driver
  <2>2. QED
    BY <2>1, Carried DEF Requests
<1>21. CASE UNCHANGED <<todo, main>>
  BY <1>21 DEF Requests
<1>22. QED
  BY <1>5, <1>6, <1>7, <1>8, <1>9, <1>10, <1>11, <1>12, <1>13, <1>15, <1>16, <1>17,
     <1>18, <1>19, <1>20, <1>21
  DEF Next, vars, link, driver, Caller, Feeder, Receiving, TakeAnswer, Tick, Interrupt,
      Handled, Top, Check, Last, Thread, BeginRepeat, Stream, Underflow, Sending,
      MessageSent, Pause, NextRound

(* The emptying of the tag: the zeros, then the reset.                     *)
LEMMA EmptyingBegins ==
  ASSUME Answered, Ask(<<Do("zero"), Do("reset")>>)
  PROVE  Emptying'
<1>1. todo' = <<Do("zero"), Do("reset")>>
  <2>1. <<Do("zero"), Do("reset")>> \in Seq(RequestType)
    BY DoFacts DEF Ops
  <2>2. QED
    BY <2>1 DEF Answered, Ask
<1>2. Do("zero").op = "zero" /\ Do("reset").op = "reset"
  BY DEF Do
<1>3. Len(todo') = 2 /\ todo'[1].op = "zero" /\ todo'[2].op = "reset"
  BY <1>1, <1>2
<1>4. QED
  BY <1>3 DEF Emptying

LEMMA EmptyingKept ==
  ASSUME Typing, Threads, Quiet, Requests, Emptying, [Next]_vars
  PROVE  Emptying'
<1>1. todo \in Seq(RequestType) /\ Len(todo) \in Nat
  BY DEF Typing, RequestType
<1>2. CASE \E n \in Counts : Send(n)
  BY <1>2, EmptyingBegins DEF Send, Main, Quiet
<1>3. CASE Polled
  BY <1>3, EmptyingBegins DEF Polled, Emptying
<1>4. CASE main' \notin {"cleared", "emptied"}
  BY <1>4 DEF Emptying
<1>5. CASE Serve /\ main \in {"cleared", "emptied"}
  <2>1. /\ todo # <<>> /\ todo' = Tail(todo) /\ main' = main
        /\ todo[1].op \in {"zero", "reset"} /\ Head(todo) = todo[1]
        /\ Len(todo') = Len(todo) - 1 /\ Len(todo) # 0
        /\ \A i \in 1..Len(todo') : todo'[i] = todo[i + 1]
    BY <1>5, Carried DEF Requests, Fits, Serve, Zero, Reset, Fill, SetCount, SetByte, Read,
                         Carry, driver
  <2>2. Zero \/ Reset
    BY <1>5, <2>1 DEF Serve, Fill, SetCount, SetByte, Read, Carry, Reads
  <2>3. CASE Zero
    <3>1. /\ tag'.count = 0 /\ tag'.underflow = 0 /\ Head(todo).op = "zero"
      BY <2>3 DEF Zero, Carry, Typing, Tags
    <3>2. Len(todo) = 2
      BY <1>1, <1>5, <2>1, <3>1 DEF Emptying
    <3>3. Len(todo') = 1 /\ todo'[1].op = "reset"
      BY <1>5, <2>1, <3>2, SMTT(30) DEF Emptying
    <3>4. QED
      BY <3>1, <3>3 DEF Emptying
  <2>4. CASE Reset
    <3>1. data' = <<>> /\ readAt' = 0 /\ tag' = tag /\ Head(todo).op = "reset"
      BY <2>4 DEF Reset, Carry
    <3>2. Len(todo) = 1
      BY <1>1, <1>5, <2>1, <3>1 DEF Emptying
    <3>3. Len(todo') = 0 /\ tag'.count = 0 /\ tag'.underflow = 0
      BY <1>5, <2>1, <3>1, <3>2 DEF Emptying
    <3>4. QED
      BY <3>1, <3>3 DEF Emptying
  <2>5. QED
    BY <2>2, <2>3, <2>4
<1>6. CASE Tick
  <2>1. todo' = todo /\ main' = main
    BY <1>6 DEF Tick, Interrupt, BeginRepeat, Stream, Underflow, Sending, MessageSent,
                Pause, NextRound, link, driver
  <2>2. tag.count = 0 =>
          /\ tag'.count = tag.count /\ tag'.underflow = tag.underflow
          /\ data' = data /\ readAt' = readAt
    BY <1>6 DEF Tick, Interrupt, BeginRepeat, Stream, Underflow, Sending, MessageSent,
                Pause, NextRound, Streaming, Typing, Tags
  <2>3. QED
    BY <1>1, <2>1, <2>2 DEF Emptying
<1>7. CASE Receiving
  BY <1>7 DEF Receiving, TakeAnswer, Emptying, board, driver
<1>8. CASE UNCHANGED vars
  BY <1>8 DEF vars, board, link, driver, Emptying
<1>9. QED
  BY <1>2, <1>3, <1>4, <1>5, <1>6, <1>7, <1>8, ZenonT(40)
  DEF Next, Caller, Feeder, Main, Repeat, StopEarly, FirstFill, Launch, SetRunning, Waited,
      Join, Poll, Load, Loaded, First, Handled, Top, Feed, Sleep, Check, Drain, Drained,
      Last, Thread, Threads, Streams, Serve, Carry, Zero, Reset, Fill, SetCount, SetByte,
      Read, driver

LEMMA LoadingKept ==
  ASSUME Typing, Threads, Requests, Emptying, Loading, [Next]_vars
  PROVE  Loading'
<1>1. CASE Load
  BY <1>1 DEF Load, Main, Answered, Emptying, Loading, board
<1>2. CASE Serve /\ main = "loaded"
  <2>1. todo # <<>> /\ todo' = Tail(todo) /\ Head(todo).op \in {"fill", "low", "high"}
    BY <1>2, Carried DEF Requests, Fits, Serve, Zero, Reset, Fill, SetCount, SetByte, Read,
                         Carry
  <2>2. Fill \/ SetByte
    BY <1>2, <2>1 DEF Serve, Zero, Reset, SetCount, Read, Carry, Reads
  <2>3. tag'.count = tag.count /\ readAt' = readAt
    BY <2>2 DEF Fill, SetByte, Typing, Tags
  <2>4. QED
    BY <1>2, <2>3 DEF Loading
<1>3. CASE Tick
  BY <1>3 DEF Tick, Interrupt, BeginRepeat, Stream, Underflow, Sending, MessageSent, Pause,
              NextRound, Streaming, Typing, Tags, Loading, driver
<1>4. CASE Receiving \/ UNCHANGED vars
  BY <1>4 DEF Receiving, TakeAnswer, vars, board, driver, Loading
<1>5. CASE main' # "loaded"
  BY <1>5 DEF Loading
<1>6. QED
  BY <1>1, <1>2, <1>3, <1>4, <1>5, ZenonT(40)
  DEF Next, Caller, Feeder, Main, Send, Repeat, StopEarly, FirstFill, Launch, SetRunning,
      Waited, Join, Poll, Polled, Loaded, First, Handled, Top, Feed, Sleep, Check, Drain,
      Drained, Last, Thread, Threads, Streams, Serve, Carry, Zero, Reset, Fill, SetCount,
      SetByte, Read, driver

(* The bytes of repeat_count that are not zero are stored only while       *)
(* nothing is streamed, and a repetition that runs keeps streams waiting.  *)
LEMMA RepeatsFromZeroKept ==
  ASSUME Typing, Threads, Quiet, Requests, Loading, RepeatsFromZero, [Next]_vars
  PROVE  RepeatsFromZero'
<1>1. tag \in Tags /\ tag.rounds \in 0..Forever
  BY DEF Typing, Tags
<1>2. CASE SetByte
  <2>1. /\ todo # <<>> /\ Head(todo) = todo[1] /\ Fits(main, todo[1])
        /\ Head(todo).op \in {"low", "high"}
    BY <1>2, Carried DEF SetByte, Carry, Requests
  <2>2. main = "loaded" \/ (main = "halted" /\ Head(todo).n = 0)
    BY <2>1 DEF Fits, Threads, Quiet, Answered
  <2>3. readAt' = readAt /\ fault' = fault
    BY <1>2 DEF SetByte
  <2>4. CASE main = "loaded"
    BY <2>3, <2>4 DEF Loading, RepeatsFromZero
  <2>5. CASE Head(todo).n = 0
    <3>1. tag.rounds = 0 => tag.rounds \div Digit = 0 /\ tag.rounds % Digit = 0
      BY SizeAssumption
    <3>2. tag.rounds = 0 => tag'.rounds = 0
      BY <1>1, <1>2, <2>5, <3>1, SizeAssumption DEF SetByte, Tags
    <3>3. QED
      BY <2>3, <3>2 DEF RepeatsFromZero
  <2>6. QED
    BY <2>2, <2>4, <2>5
<1>3. CASE BeginRepeat
  BY <1>1, <1>3 DEF BeginRepeat, RepeatsFromZero
<1>4. CASE NextRound
  BY <1>1, <1>4 DEF NextRound, RepeatsFromZero, Tags
<1>5. CASE Stream
  BY <1>1, <1>5 DEF Stream, Streaming, RepeatsFromZero, Tags
<1>6. CASE Underflow
  BY <1>1, <1>6 DEF Underflow, Streaming, RepeatsFromZero, Tags
<1>7. CASE Zero \/ SetCount \/ Sending \/ MessageSent \/ Pause
  <2>1. tag'.rounds = tag.rounds /\ readAt' = readAt /\ fault' = fault
    BY <1>1, <1>7 DEF Zero, SetCount, Sending, MessageSent, Pause, Tags
  <2>2. QED
    BY <2>1 DEF RepeatsFromZero
<1>8. CASE Reset
  BY <1>8 DEF Reset, RepeatsFromZero
<1>9. ASSUME UNCHANGED <<tag, readAt>>, fault' \in {fault, "fifo is not enough to write",
        "fifo_copy_from_buffer", "tx overflow occurs", "tx_underflow"}
      PROVE  RepeatsFromZero'
  BY <1>9 DEF RepeatsFromZero
<1>10. CASE Fill \/ Read
  BY <1>9, <1>10 DEF Fill, Read, board
<1>11. CASE Feeder
  BY <1>9, <1>11 DEF Feeder, First, Handled, Top, Feed, Sleep, Check, Drain, Drained, Last,
                     Thread, board
<1>12. CASE Receiving \/ UNCHANGED vars
  BY <1>9, <1>12 DEF Receiving, TakeAnswer, vars, board
<1>13. CASE Caller \/ StopEarly \/ (\E n \in Counts : Send(n))
              \/ (\E n \in Messages, c \in Rounds : Repeat(n, c))
  BY <1>9, <1>13 DEF Caller, Send, Repeat, StopEarly, FirstFill, Launch, SetRunning,
                     Waited, Join, Poll, Polled, Load, Loaded, Main, board
<1>14. QED
  BY <1>2, <1>3, <1>4, <1>5, <1>6, <1>7, <1>8, <1>10, <1>11, <1>12, <1>13
  DEF Next, Serve, Tick

LEMMA InitDiscipline == Init => Discipline
<1> SUFFICES ASSUME Init PROVE Discipline
  OBVIOUS
<1>1. Typing
  BY SizeAssumption, ForeverIsPositive DEF Init, Typing, Tags, States
<1>2. Threads /\ Quiet /\ Requests /\ Emptying /\ Loading /\ RepeatsFromZero
  BY DEF Init, Threads, Quiet, Answered, Requests, Emptying, Loading, RepeatsFromZero, Streams
<1>3. QED
  BY <1>1, <1>2 DEF Discipline

LEMMA DisciplineKept == Discipline /\ [Next]_vars => Discipline'
BY TypingKept, ThreadsKept, QuietKept, RequestsKept, EmptyingKept, LoadingKept,
   RepeatsFromZeroKept DEF Discipline

LEMMA SpecDiscipline == Spec => []Discipline
BY InitDiscipline, DisciplineKept, PTL DEF Spec

(* Counters keep their width, and the tag's fifo holds what it can.        *)
THEOREM TypeCorrect == Spec => []TypeOK
<1>1. Discipline => TypeOK
  BY DEF Discipline, Typing, TypeOK, Tags, States
<1>2. QED
  BY <1>1, SpecDiscipline, PTL

(* The caller and the thread that feeds a stream never await answers of    *)
(* the tag at the same time, whatever is called in which order: it is why  *)
(* the model needs no lock for the calls it has.                           *)
THEOREM OneAtATime == Spec => []OneThreadAtSoftIO
<1>1. Discipline => OneThreadAtSoftIO
  BY DEF Discipline, Threads, Streams, OneThreadAtSoftIO
<1>2. QED
  BY <1>1, SpecDiscipline, PTL

(* The assertion at tag-L4xx.h:314 cannot fail: a repetition, although the *)
(* PC stores its number in two bytes and the timer counts it down          *)
(* meanwhile, always finds the message at the beginning of the tag's fifo. *)
THEOREM RepeatsStartAtZero == Spec => []RepeatStartsAtZero
<1>1. Discipline => RepeatStartsAtZero
  BY DEF Discipline, RepeatsFromZero, RepeatStartsAtZero
<1>2. QED
  BY <1>1, SpecDiscipline, PTL

-----------------------------------------------------------------------------
(* repeat_count, which the PC stores byte by byte while the timer of the   *)
(* tag counts it down: Rotation, which is inductive on top of Discipline,  *)
(* and what it implies.                                                    *)

Resting == tag.state = "none" /\ tag.rounds = 0

(* What is still on its way of the samples of a message and the two bytes  *)
(* of the repeat_count c behind them.                                      *)
Pending(q, c) ==
  /\ Len(q) >= 1 => q[Len(q)] = [op |-> "high", n |-> c \div Digit]
  /\ Len(q) >= 2 => q[Len(q) - 1] = [op |-> "low", n |-> c % Digit]
  /\ \A i \in 1..(Len(q) - 2) : q[i].op = "fill"

-----------------------------------------------------------------------------
(* Rotation. *)

Kinds ==
  /\ main \in {"cleared", "counted"} \/ Streams => job.call = "send"
  /\ main \in {"halted", "polled", "emptied", "loaded"} => job.call = "repeat"

(* A round that has begun before both zeros have arrived goes on; the tag  *)
(* then rests with what is left, and does not begin again.                 *)
Stopping ==
  main = "halted" =>
    /\ Pending(todo, 0) /\ Len(todo) <= 2
    /\ Len(todo) = 1 /\ tag.state = "none" => tag.rounds % Digit = 0
    /\ Len(todo) = 0 /\ tag.state = "none" => tag.rounds = 0

(* A tag that says it rests does.                                          *)
Polling ==
  main = "polled" =>
    /\ Len(todo) + Len(answers) <= 1
    /\ tag.state = "none" => tag.rounds = 0
    /\ Len(answers) = 1 => /\ answers[1].op = "read_state"
                           /\ answers[1].tag.state = "none" => Resting
    /\ Answered /\ mem.state = "none" => Resting

Rested == main = "emptied" => Resting

(* The tag may begin when it has the low byte alone.                       *)
Starting ==
  main = "loaded" =>
    /\ Pending(todo, job.c)
    /\ Len(todo) >= 2 => Resting /\ rounds = 0
    /\ Len(todo) = 1 => tag.rounds + rounds = job.c % Digit

(* Rounds to come and rounds begun add up to those that were asked for.    *)
Turning ==
  job.call = "repeat" /\ (main = "idle" \/ (main = "loaded" /\ Len(todo) = 0)) =>
    tag.rounds = Forever \/ tag.rounds + rounds = job.c

Rotation == Kinds /\ Stopping /\ Polling /\ Rested /\ Starting /\ Turning

-----------------------------------------------------------------------------
(* Bytes of repeat_count. *)

LEMMA HighJoins ==
  ASSUME NEW c \in 0..Forever, NEW t \in Nat, NEW r \in Nat, t + r = c % Digit
  PROVE  (Digit * (c \div Digit) + (t % Digit)) + r = c
<1>1. /\ c % Digit \in 0..(Digit - 1) /\ c \div Digit \in 0..(Digit - 1)
      /\ Digit * (c \div Digit) + (c % Digit) = c
  BY Halves
<1>2. t \in 0..(Digit - 1)
  BY <1>1, SizeAssumption
<1>3. \A u \in 0..(Digit - 1) : u % Digit = u
  BY SizeAssumption
<1>4. t % Digit = t
  BY <1>2, <1>3
<1>5. Digit * (c \div Digit) \in Int /\ c \in Int
  BY <1>1, SizeAssumption DEF Forever
<1>6. QED
  BY <1>1, <1>4, <1>5

LEMMA ZeroBytes ==
  /\ 0 % Digit = 0 /\ 0 \div Digit = 0
  /\ \A h \in 0..(Digit - 1) : (0 + Digit * h) % Digit = 0
<1>1. 0 % Digit = 0 /\ 0 \div Digit = 0
  BY SizeAssumption
<1>2. ASSUME NEW h \in 0..(Digit - 1) PROVE (0 + Digit * h) % Digit = 0
  <2>1. (Digit * h + 0) % Digit = 0 /\ Digit * h \in Int
    <3>1. 0 \in 0..(Digit - 1)
      BY SizeAssumption
    <3>2. QED
      BY <3>1, Rejoined, SizeAssumption
  <2>2. 0 + Digit * h = Digit * h + 0
    BY <2>1
  <2>3. QED
    BY <2>1, <2>2
<1>3. QED
  BY <1>1, <1>2

LEMMA PendingTail ==
  ASSUME NEW q \in Seq(RequestType), q # <<>>, NEW c \in Nat, Pending(q, c)
  PROVE  /\ Pending(Tail(q), c) /\ Len(Tail(q)) = Len(q) - 1 /\ Len(q) \in Nat \ {0}
         /\ Len(q) > 2 => q[1].op = "fill"
         /\ Len(q) = 2 => q[1] = [op |-> "low", n |-> c % Digit]
         /\ Len(q) = 1 => q[1] = [op |-> "high", n |-> c \div Digit]
<1> DEFINE t == Tail(q)
<1>1. /\ Len(t) = Len(q) - 1 /\ Len(q) \in Nat \ {0}
      /\ \A i \in 1..(Len(q) - 1) : t[i] = q[i + 1]
  BY TailFacts
<1> HIDE DEF t
<1>2. Len(t) >= 1 => t[Len(t)] = q[Len(q)]
  BY <1>1
<1>3. Len(t) >= 2 => t[Len(t) - 1] = q[Len(q) - 1]
  BY <1>1
<1>4. ASSUME NEW i \in 1..(Len(t) - 2) PROVE t[i].op = "fill"
  <2>1. i + 1 \in 1..(Len(q) - 2) /\ t[i] = q[i + 1]
    BY <1>1
  <2>2. QED
    BY <2>1 DEF Pending
<1>5. Pending(t, c)
  BY <1>1, <1>2, <1>3, <1>4 DEF Pending
<1>6. Len(q) > 2 => q[1].op = "fill"
  BY <1>1 DEF Pending
<1>7. Len(q) = 2 => q[1] = [op |-> "low", n |-> c % Digit]
  BY <1>1 DEF Pending
<1>8. Len(q) = 1 => q[1] = [op |-> "high", n |-> c \div Digit]
  BY <1>1 DEF Pending
<1>9. QED
  BY <1>1, <1>5, <1>6, <1>7, <1>8 DEF t

LEMMA PendingMessage ==
  ASSUME NEW m \in Nat, NEW c \in Nat
  PROVE  /\ Pending(Samples(0, m) \o SetRounds(c), c)
         /\ Len(Samples(0, m) \o SetRounds(c)) >= 2
         /\ Pending(SetRounds(c), c) /\ Len(SetRounds(c)) = 2
<1> DEFINE s == Samples(0, m)
           r == SetRounds(c)
           q == s \o r
<1>1. s \in Seq(RequestType) /\ Len(s) = m /\ \A i \in 1..m : s[i].op = "fill"
  <2>1. s \in Seq(RequestType) /\ Len(s) = m
        /\ \A i \in 1..m : s[i] = [op |-> "fill", n |-> 0 + i]
    BY SamplesFacts
  <2> HIDE DEF s
  <2>2. QED
    BY <2>1
<1>2. /\ r \in Seq(RequestType) /\ Len(r) = 2
      /\ r[1] = [op |-> "low", n |-> c % Digit]
      /\ r[2] = [op |-> "high", n |-> c \div Digit]
  BY RoundsFacts
<1> HIDE DEF s, r
<1>3. /\ Len(q) = m + 2 /\ \A i \in 1..m : q[i] = s[i]
      /\ q[m + 1] = r[1] /\ q[m + 2] = r[2]
  <2>1. /\ Len(q) = Len(s) + Len(r) /\ \A i \in 1..Len(s) : q[i] = s[i]
        /\ \A i \in (Len(s) + 1)..(Len(s) + Len(r)) : q[i] = r[i - Len(s)]
    BY <1>1, <1>2, JoinFacts, ZenonT(30)
  <2> HIDE DEF q
  <2>2. m + 1 \in (m + 1)..(m + 2) /\ m + 2 \in (m + 1)..(m + 2)
    OBVIOUS
  <2>3. q[m + 1] = r[m + 1 - m] /\ q[m + 2] = r[m + 2 - m]
    BY <1>1, <1>2, <2>1, <2>2
  <2>4. QED
    BY <1>1, <1>2, <2>1, <2>3
<1> HIDE DEF q
<1>4. Pending(q, c) /\ Len(q) >= 2
  BY <1>1, <1>2, <1>3 DEF Pending
<1>5. Pending(r, c)
  BY <1>2 DEF Pending
<1>6. QED
  BY <1>2, <1>4, <1>5 DEF q, r, s

-----------------------------------------------------------------------------
(* What the steps of the tag change of repeat_count. *)

Begun ==
  /\ tag.rounds # 0 /\ tag'.state = "sending"
  /\ tag'.rounds = OneRoundLess(tag.rounds) /\ rounds' = Smaller(rounds + 1, Forever)

NotBegun ==
  /\ tag'.rounds = tag.rounds /\ rounds' = rounds
  /\ tag'.state = "none" => tag.state = "none" \/ tag.rounds = 0
  /\ tag.state = "none" => tag'.state = "none"

LEMMA TickTurns ==
  ASSUME Typing, Tick
  PROVE  /\ Begun \/ NotBegun
         /\ Running /\ UNCHANGED <<todo, answers, mem, main, thread, job>>
<1>1. tag \in Tags
  BY DEF Typing
<1>2. Running /\ UNCHANGED <<todo, answers, mem, main, thread, job>>
  BY DEF Tick, Interrupt, BeginRepeat, Stream, Underflow, Sending, MessageSent, Pause,
         NextRound, link, driver
<1>3. CASE BeginRepeat
  <2>1. Begun
    BY <1>1, <1>3 DEF BeginRepeat, Begun, Tags
  <2>2. QED
    BY <1>2, <2>1
<1>4. CASE NextRound
  <2>1. CASE tag.rounds # 0
    <3>1. Begun
      BY <1>1, <1>4, <2>1 DEF NextRound, Begun, Tags
    <3>2. QED
      BY <1>2, <3>1
  <2>2. CASE tag.rounds = 0
    <3>1. NotBegun
      BY <1>1, <1>4, <2>2 DEF NextRound, NotBegun, Tags
    <3>2. QED
      BY <1>2, <3>1
  <2>3. QED
    BY <2>1, <2>2
<1>5. CASE MessageSent
  <2>1. NotBegun
    BY <1>1, <1>5 DEF MessageSent, NotBegun, Tags, history
  <2>2. QED
    BY <1>2, <2>1
<1>6. CASE Stream \/ Underflow
  <2>1. NotBegun
    BY <1>1, <1>6 DEF Stream, Underflow, NotBegun, Tags, history
  <2>2. QED
    BY <1>2, <2>1
<1>7. CASE Sending \/ Pause
  <2>1. NotBegun
    BY <1>1, <1>7 DEF Sending, Pause, NotBegun, Tags, history
  <2>2. QED
    BY <1>2, <2>1
<1>8. QED
  BY <1>3, <1>4, <1>5, <1>6, <1>7 DEF Tick

(* A round that begins is one less to come, and one more begun.            *)
LEMMA BegunCounts ==
  ASSUME NEW t \in 0..Forever, NEW r \in 0..Forever, t # 0, NEW c \in 0..Forever
  PROVE  /\ t = Forever => OneRoundLess(t) = Forever
         /\ t # Forever /\ t + r = c => OneRoundLess(t) + Smaller(r + 1, Forever) = c
<1>1. Forever \in Nat
  BY ForeverIsPositive
<1>2. t = Forever => OneRoundLess(t) = Forever
  BY DEF OneRoundLess
<1>3. ASSUME t # Forever, t + r = c
      PROVE  OneRoundLess(t) + Smaller(r + 1, Forever) = c
  <2>1. OneRoundLess(t) = t - 1
    BY <1>3 DEF OneRoundLess
  <2>2. r + 1 <= Forever
    BY <1>1, <1>3
  <2>3. Smaller(r + 1, Forever) = r + 1
    BY <2>2 DEF Smaller
  <2>4. QED
    BY <1>1, <1>3, <2>1, <2>3
<1>4. QED
  BY <1>2, <1>3

LEMMA ServeTurns ==
  ASSUME Typing, Serve
  PROVE  /\ Running /\ todo # <<>> /\ todo' = Tail(todo)
         /\ UNCHANGED <<mem, main, thread, job, rounds>>
         /\ tag'.state = tag.state
         /\ todo[1].op \notin {"low", "high"} => tag'.rounds = tag.rounds
         /\ todo[1].op = "low" => tag'.rounds = todo[1].n + Digit * (tag.rounds \div Digit)
         /\ todo[1].op = "high" => tag'.rounds = Digit * todo[1].n + (tag.rounds % Digit)
         /\ IF todo[1].op \in ReadOps
            THEN tag' = tag /\ answers' = Append(answers, [op |-> todo[1].op, tag |-> tag])
            ELSE answers' = answers
<1>1. /\ Running /\ todo # <<>> /\ todo' = Tail(todo) /\ Head(todo) = todo[1]
      /\ UNCHANGED <<mem, main, thread, job, rounds>>
  BY Carried DEF Serve, Carry, Zero, Reset, Fill, SetCount, SetByte, Read, driver, history
<1>2. tag \in Tags
  BY DEF Typing
<1>3. CASE Zero \/ Reset \/ Fill \/ SetCount
  <2>1. todo[1].op \notin {"low", "high"} \cup ReadOps
    BY <1>1, <1>3 DEF Zero, Reset, Fill, SetCount, Carry, ReadOps
  <2>2. tag'.state = tag.state /\ tag'.rounds = tag.rounds /\ answers' = answers
    BY <1>2, <1>3 DEF Zero, Reset, Fill, SetCount, Tags
  <2>3. QED
    BY <1>1, <2>1, <2>2
<1>4. CASE SetByte
  <2>1. todo[1].op \in {"low", "high"} /\ todo[1].op \notin ReadOps
    BY <1>1, <1>4 DEF SetByte, Carry, ReadOps
  <2>2. /\ tag'.state = tag.state /\ answers' = answers
        /\ tag'.rounds = IF todo[1].op = "low" THEN todo[1].n + Digit * (tag.rounds \div Digit)
                                               ELSE Digit * todo[1].n + (tag.rounds % Digit)
    BY <1>1, <1>2, <1>4 DEF SetByte, Tags
  <2>3. QED
    BY <1>1, <2>1, <2>2
<1>5. CASE Read
  <2>1. todo[1].op \in ReadOps /\ todo[1].op \notin {"low", "high"}
    BY <1>1, <1>5 DEF Read, Carry, Reads, ReadOps
  <2>2. tag' = tag /\ answers' = Append(answers, [op |-> todo[1].op, tag |-> tag])
    BY <1>1, <1>5 DEF Read, board
  <2>3. QED
    BY <1>1, <2>1, <2>2
<1>6. QED
  BY <1>3, <1>4, <1>5 DEF Serve

-----------------------------------------------------------------------------
(* Rotation is kept, conjunct by conjunct. *)

LEMMA KindsKept ==
  ASSUME Discipline, Kinds, [Next]_vars
  PROVE  Kinds'
<1>1. CASE \E n \in Counts : Send(n)
  BY <1>1 DEF Send, Main, Kinds, Streams
<1>2. CASE \E n \in Messages, c \in Rounds : Repeat(n, c)
  BY <1>2 DEF Repeat, Main, Kinds, Streams
<1>3. CASE Caller \/ StopEarly
  BY <1>3 DEF Caller, StopEarly, FirstFill, Launch, SetRunning, Waited, Join, Poll, Polled,
              Load, Loaded, Main, Kinds, Streams
<1>4. CASE Feeder
  BY <1>4 DEF Feeder, First, Handled, Top, Feed, Sleep, Check, Drain, Drained, Last, Thread,
              Kinds, Streams
<1>5. CASE Receiving \/ Serve \/ Tick \/ UNCHANGED vars
  <2>1. main' = main /\ job' = job
    BY <1>5, TickTurns, ServeTurns DEF Discipline, Receiving, TakeAnswer, vars, driver
  <2>2. QED
    BY <2>1 DEF Kinds, Streams
<1>6. QED
  BY <1>1, <1>2, <1>3, <1>4, <1>5 DEF Next

(* Steps that leave what Rotation is about alone.                          *)
LEMMA Untouched ==
  ASSUME Discipline, [Next]_vars
  PROVE  \/ /\ UNCHANGED <<main, job, todo, answers, mem, rounds>>
            /\ tag'.rounds = tag.rounds /\ tag'.state = tag.state
         \/ main' \in {"cleared", "counted", "launched", "wait", "join"}
         \/ (\E n \in Messages, c \in Rounds : Repeat(n, c)) \/ Poll \/ Polled \/ Load
         \/ Loaded \/ Join \/ Receiving \/ Serve \/ Tick
<1>1. CASE \E n \in Counts : Send(n)
  BY <1>1 DEF Send, Main
<1>2. CASE FirstFill \/ Launch \/ SetRunning \/ Waited \/ StopEarly
  BY <1>2 DEF FirstFill, Launch, SetRunning, Waited, StopEarly, Main
<1>3. CASE Feeder
  <2>1. main' = main /\ thread.at # "none"
    BY <1>3 DEF Feeder, First, Handled, Top, Feed, Sleep, Check, Drain, Drained, Last, Thread
  <2>2. QED
    BY <2>1 DEF Discipline, Threads, Streams
<1>4. CASE UNCHANGED vars
  BY <1>4 DEF vars, board, link, driver, history
<1>5. QED
  BY <1>1, <1>2, <1>3, <1>4 DEF Next, Caller

LEMMA Basics ==
  ASSUME Discipline
  PROVE  /\ Typing /\ tag.rounds \in Nat /\ tag.rounds \in 0..Forever
         /\ rounds \in 0..Forever /\ rounds \in Nat /\ job.c \in 0..Forever /\ job.c \in Nat
         /\ todo \in Seq(RequestType) /\ answers \in Seq([op : ReadOps, tag : Tags])
         /\ Len(todo) \in Nat /\ Len(answers) \in Nat
<1>1. Typing
  BY DEF Discipline
<1>2. tag.rounds \in 0..Forever /\ rounds \in 0..Forever /\ job.c \in 0..Forever
  BY <1>1 DEF Typing, Tags
<1>3. Forever \in Nat
  BY ForeverIsPositive
<1>4. tag.rounds \in Nat /\ rounds \in Nat /\ job.c \in Nat
  BY <1>2, <1>3
<1>5. todo \in Seq(RequestType) /\ answers \in Seq([op : ReadOps, tag : Tags])
  BY <1>1 DEF Typing, RequestType
<1>6. QED
  BY <1>1, <1>2, <1>4, <1>5

LEMMA StoppingKept ==
  ASSUME Discipline, Stopping, Polling, [Next]_vars
  PROVE  Stopping'
<1>1. /\ Typing /\ tag.rounds \in Nat /\ todo \in Seq(RequestType) /\ Len(todo) \in Nat
  BY Basics
<1>2. CASE \E n \in Messages, c \in Rounds : Repeat(n, c)
  <2>1. main = "idle" /\ todo' = todo \o SetRounds(0)
    BY <1>2 DEF Repeat, Main, Ask
  <2>2. todo = <<>>
    BY <2>1 DEF Discipline, Quiet, Answered
  <2>3. Pending(SetRounds(0), 0) /\ Len(SetRounds(0)) = 2
    BY PendingMessage
  <2>4. todo' = SetRounds(0)
    <3>1. SetRounds(0) \in Seq(RequestType)
      BY RoundsFacts
    <3>2. QED
      BY <2>1, <2>2, <3>1
  <2>5. Pending(todo', 0) /\ Len(todo') = 2
    BY <2>3, <2>4
  <2>6. QED
    BY <2>5 DEF Stopping
<1>3. CASE Polled
  <2>1. CASE main' = "halted"
    <3>1. /\ main = "polled" /\ UNCHANGED <<tag, todo>> /\ todo = <<>>
      BY <1>3, <2>1 DEF Polled, Answered, link, board
    <3>2. Pending(<<>>, 0) /\ Len(<<>>) = 0
      BY DEF Pending
    <3>3. QED
      BY <3>1, <3>2 DEF Stopping, Polling
  <2>2. CASE main' # "halted"
    BY <2>2 DEF Stopping
  <2>3. QED
    BY <2>1, <2>2
<1>4. CASE Receiving
  <2>1. UNCHANGED <<main, todo, tag>>
    BY <1>4 DEF Receiving, TakeAnswer, board, driver
  <2>2. QED
    BY <2>1 DEF Stopping
<1>5. CASE Tick
  <2>1. Begun \/ NotBegun
    BY <1>1, <1>5, TickTurns
  <2>2. UNCHANGED <<main, todo>>
    BY <1>1, <1>5, TickTurns
  <2>3. CASE Begun
    BY <2>2, <2>3 DEF Begun, Stopping
  <2>4. CASE NotBegun
    BY <2>2, <2>4, ZeroBytes DEF NotBegun, Stopping
  <2>5. QED
    BY <2>1, <2>3, <2>4
<1>6. CASE Serve
  <2>1. main' = main /\ todo # <<>> /\ todo' = Tail(todo) /\ tag'.state = tag.state
    BY <1>1, <1>6, ServeTurns
  <2>2. CASE main = "halted"
    <3>1. Pending(todo, 0) /\ Len(todo) <= 2
      BY <2>2 DEF Stopping
    <3>2. /\ Pending(todo', 0) /\ Len(todo') = Len(todo) - 1 /\ Len(todo) \in Nat \ {0}
          /\ Len(todo) = 2 => todo[1] = [op |-> "low", n |-> 0 % Digit]
          /\ Len(todo) = 1 => todo[1] = [op |-> "high", n |-> 0 \div Digit]
      BY <1>1, <2>1, <3>1, PendingTail
    <3>3. CASE Len(todo) = 2
      <4>1. todo[1].op = "low" /\ todo[1].n = 0
        BY <3>2, <3>3, ZeroBytes
      <4>2. tag'.rounds = 0 + Digit * (tag.rounds \div Digit)
        BY <1>1, <1>6, <4>1, ServeTurns
      <4>3. tag.rounds \div Digit \in 0..(Digit - 1)
        BY Basics, Halves
      <4>4. tag'.rounds % Digit = 0
        BY <4>2, <4>3, ZeroBytes
      <4>5. QED
        BY <3>2, <3>3, <4>4 DEF Stopping
    <3>4. CASE Len(todo) = 1
      <4>1. todo[1].op = "high" /\ todo[1].n = 0
        BY <3>2, <3>4, ZeroBytes
      <4>2. tag'.rounds = Digit * 0 + (tag.rounds % Digit)
        BY <1>1, <1>6, <4>1, ServeTurns
      <4>3. tag.state = "none" => tag.rounds % Digit = 0
        BY <2>2, <3>4 DEF Stopping
      <4>4. tag.state = "none" => tag'.rounds = 0
        BY <4>2, <4>3, SizeAssumption
      <4>5. Pending(todo', 0) /\ Len(todo') = 0
        BY <3>2, <3>4
      <4>6. tag'.state = "none" => tag'.rounds = 0
        BY <2>1, <4>4
      <4>7. QED
        BY <4>5, <4>6 DEF Stopping
    <3>5. QED
      BY <3>1, <3>2, <3>3, <3>4
  <2>3. CASE main # "halted"
    BY <2>1, <2>3 DEF Stopping
  <2>4. QED
    BY <2>2, <2>3
<1>7. CASE Poll \/ Load \/ Loaded \/ Join
  BY <1>7 DEF Poll, Load, Loaded, Join, Main, Stopping
<1>8. QED
  BY <1>2, <1>3, <1>4, <1>5, <1>6, <1>7, Untouched DEF Stopping

LEMMA PollingKept ==
  ASSUME Discipline, Stopping, Polling, [Next]_vars
  PROVE  Polling'
<1>1. /\ Typing /\ tag.rounds \in Nat /\ todo \in Seq(RequestType) /\ Len(todo) \in Nat
      /\ answers \in Seq([op : ReadOps, tag : Tags]) /\ Len(answers) \in Nat
  BY Basics
<1>2. CASE Poll
  <2>1. /\ main = "halted" /\ todo = <<>> /\ answers = <<>> /\ tag' = tag
        /\ todo' = todo \o <<Do("read_state")>> /\ answers' = answers
    BY <1>2 DEF Poll, Main, Ask, Answered, board
  <2>2. Len(todo') = 1 /\ Len(answers') = 0
    <3>1. Do("read_state") \in RequestType
      BY DoFacts DEF Ops
    <3>2. QED
      BY <2>1, <3>1
  <2>3. todo' # <<>>
    BY <2>2
  <2>4. QED
    BY <2>1, <2>2, <2>3 DEF Stopping, Polling, Answered
<1>3. CASE Receiving
  <2>1. /\ UNCHANGED <<main, todo, tag>> /\ answers # <<>> /\ answers' = Tail(answers)
        /\ Receive(Head(answers))
    BY <1>3 DEF Receiving, TakeAnswer, board, driver
  <2>2. CASE main = "polled"
    <3>1. Len(answers) = 1 /\ Len(answers') = 0
      <4>1. Len(answers) \in Nat \ {0} /\ Len(answers') = Len(answers) - 1
        BY <1>1, <2>1, TailFacts
      <4>2. Len(todo) + Len(answers) <= 1
        BY <2>2 DEF Polling
      <4>3. QED
        BY <1>1, <4>1, <4>2
    <3>2. Head(answers) = answers[1] /\ answers[1] \in [op : ReadOps, tag : Tags]
      BY <1>1, <2>1, TailFacts
    <3>3. answers[1].op = "read_state" /\ (answers[1].tag.state = "none" => Resting)
      BY <2>2, <3>1 DEF Polling
    <3>4. mem'.state = answers[1].tag.state
      BY <1>1, <2>1, <3>2, <3>3, ReceiveFacts DEF Typing
    <3>5. Len(todo) + Len(answers') <= 1
      BY <1>1, <2>2, <3>1 DEF Polling
    <3>6. QED
      BY <2>1, <2>2, <3>1, <3>3, <3>4, <3>5 DEF Polling, Resting
  <2>3. CASE main # "polled"
    BY <2>1, <2>3 DEF Polling
  <2>4. QED
    BY <2>2, <2>3
<1>4. CASE Tick
  <2>1. Begun \/ NotBegun
    BY <1>1, <1>4, TickTurns
  <2>2. UNCHANGED <<main, todo, answers, mem>>
    BY <1>1, <1>4, TickTurns
  <2>3. Resting => Resting'
    BY <2>1 DEF Begun, NotBegun, Resting
  <2>4. CASE main = "polled"
    <3>1. tag.state = "none" => tag.rounds = 0
      BY <2>4 DEF Polling
    <3>2. tag'.state = "none" => tag'.rounds = 0
      BY <2>1, <3>1 DEF Begun, NotBegun
    <3>3. QED
      BY <2>2, <2>3, <2>4, <3>2 DEF Polling, Answered
  <2>5. CASE main # "polled"
    BY <2>2, <2>5 DEF Polling
  <2>6. QED
    BY <2>4, <2>5
<1>5. CASE Serve
  <2>1. main' = main /\ todo # <<>> /\ todo' = Tail(todo)
    BY <1>1, <1>5, ServeTurns
  <2>2. CASE main = "polled"
    <3>1. todo[1].op = "read_state"
      <4>1. 1 \in 1..Len(todo)
        BY <1>1, <2>1
      <4>2. QED
        BY <2>2, <4>1 DEF Discipline, Requests, Fits
    <3>2. tag' = tag /\ answers' = Append(answers, [op |-> todo[1].op, tag |-> tag])
      BY <1>1, <1>5, <3>1, ServeTurns DEF ReadOps
    <3>3. Len(todo) = 1 /\ Len(answers) = 0 /\ Len(todo') = 0
      <4>1. Len(todo) \in Nat \ {0} /\ Len(todo') = Len(todo) - 1
        BY <1>1, <2>1, TailFacts
      <4>2. Len(todo) + Len(answers) <= 1
        BY <2>2 DEF Polling
      <4>3. QED
        BY <1>1, <4>1, <4>2
    <3>4. [op |-> todo[1].op, tag |-> tag] \in [op : ReadOps, tag : Tags]
      BY <1>1, <3>1 DEF Typing, ReadOps
    <3>5. Len(answers') = 1 /\ answers'[1] = [op |-> todo[1].op, tag |-> tag]
      BY <1>1, <3>2, <3>3, <3>4
    <3>6. answers' # <<>>
      BY <3>5
    <3>7. tag'.state = "none" => tag'.rounds = 0
      BY <2>2, <3>2 DEF Polling
    <3>8. answers'[1].op = "read_state" /\ answers'[1].tag = tag'
      BY <3>1, <3>2, <3>5
    <3>9. Len(todo') + Len(answers') <= 1
      BY <3>3, <3>5
    <3>10. QED
      BY <3>6, <3>7, <3>8, <3>9 DEF Polling, Resting, Answered
  <2>3. CASE main # "polled"
    BY <2>1, <2>3 DEF Polling
  <2>4. QED
    BY <2>2, <2>3
<1>6. CASE Polled
  BY <1>6 DEF Polled, Polling
<1>7. CASE Load \/ Loaded \/ Join \/ (\E n \in Messages, c \in Rounds : Repeat(n, c))
  BY <1>7 DEF Load, Loaded, Join, Repeat, Main, Polling
<1>8. ASSUME UNCHANGED <<main, todo, answers, mem>>,
             tag'.rounds = tag.rounds, tag'.state = tag.state
      PROVE  Polling'
  BY <1>8 DEF Polling, Resting, Answered
<1>9. QED
  BY <1>2, <1>3, <1>4, <1>5, <1>6, <1>7, <1>8, Untouched DEF Polling

LEMMA RestedKept ==
  ASSUME Discipline, Polling, Rested, [Next]_vars
  PROVE  Rested'
<1>1. CASE Polled
  BY <1>1 DEF Polled, Polling, Rested, Resting, board
<1>2. CASE Tick
  <2>1. Begun \/ NotBegun
    BY <1>2, TickTurns DEF Discipline
  <2>2. main' = main
    BY <1>2, TickTurns DEF Discipline
  <2>3. Resting => Resting'
    BY <2>1 DEF Begun, NotBegun, Resting
  <2>4. QED
    BY <2>2, <2>3 DEF Rested
<1>3. CASE Serve
  <2>1. /\ main' = main /\ tag'.state = tag.state /\ todo # <<>>
        /\ todo[1].op \notin {"low", "high"} => tag'.rounds = tag.rounds
    BY <1>3, ServeTurns DEF Discipline
  <2>2. CASE main = "emptied"
    <3>1. 1 \in 1..Len(todo)
      BY <2>1, Basics
    <3>2. todo[1].op \in {"zero", "reset"}
      BY <2>2, <3>1 DEF Discipline, Requests, Fits
    <3>3. QED
      BY <2>1, <3>2 DEF Rested, Resting
  <2>3. CASE main # "emptied"
    BY <2>1, <2>3 DEF Rested
  <2>4. QED
    BY <2>2, <2>3
<1>4. CASE Receiving
  BY <1>4 DEF Receiving, TakeAnswer, Rested, Resting, board, driver
<1>5. CASE Load \/ Loaded \/ Join \/ Poll \/ (\E n \in Messages, c \in Rounds : Repeat(n, c))
  BY <1>5 DEF Load, Loaded, Join, Poll, Repeat, Main, Rested
<1>6. QED
  BY <1>1, <1>2, <1>3, <1>4, <1>5, Untouched DEF Rested, Resting

LEMMA StartingKept ==
  ASSUME Discipline, Rested, Starting, [Next]_vars
  PROVE  Starting'
<1>1. /\ Typing /\ tag.rounds \in Nat /\ tag.rounds \in 0..Forever /\ rounds \in Nat
      /\ rounds \in 0..Forever /\ job.c \in 0..Forever /\ job.c \in Nat
      /\ todo \in Seq(RequestType) /\ Len(todo) \in Nat
  BY Basics
<1>2. job.c % Digit \in 0..(Digit - 1) /\ job.c \div Digit \in 0..(Digit - 1)
  BY <1>1, Halves
<1>3. CASE Load
  <2>1. /\ main = "emptied" /\ todo = <<>> /\ job' = job /\ tag' = tag /\ rounds' = 0
        /\ todo' = todo \o (Samples(0, job.n) \o SetRounds(job.c))
    BY <1>3 DEF Load, Main, Ask, Answered, board
  <2>2. job.n \in Nat
    BY <1>1 DEF Typing
  <2>3. todo' = Samples(0, job.n) \o SetRounds(job.c) /\ Len(todo') \in Nat
    <3>1. Samples(0, job.n) \in Seq(RequestType) /\ SetRounds(job.c) \in Seq(RequestType)
      BY <1>1, <2>2, SamplesFacts, RoundsFacts
    <3>2. Samples(0, job.n) \o SetRounds(job.c) \in Seq(RequestType)
      BY <3>1, JoinFacts
    <3>3. QED
      BY <2>1, <3>2
  <2>4. Pending(todo', job.c) /\ Len(todo') >= 2 /\ Len(todo') # 1
    <3>1. Pending(todo', job.c) /\ Len(todo') >= 2
      BY <1>1, <2>2, <2>3, PendingMessage
    <3>2. QED
      BY <2>3, <3>1
  <2>5. Resting'
    BY <2>1 DEF Rested, Resting
  <2>6. QED
    BY <2>1, <2>4, <2>5 DEF Starting
<1>4. CASE Tick
  <2>1. Begun \/ NotBegun
    BY <1>1, <1>4, TickTurns
  <2>2. UNCHANGED <<main, todo, job>>
    BY <1>1, <1>4, TickTurns
  <2>3. Resting => NotBegun /\ Resting'
    BY <2>1 DEF Begun, NotBegun, Resting
  <2>4. CASE main = "loaded"
    <3>1. Len(todo) >= 2 => Resting' /\ rounds' = 0
      BY <2>3, <2>4 DEF Starting, NotBegun
    <3>2. Len(todo) = 1 => tag'.rounds + rounds' = job.c % Digit
      <4>1. CASE Len(todo) = 1 /\ Begun
        <5>1. tag.rounds + rounds = job.c % Digit
          BY <2>4, <4>1 DEF Starting
        <5>2. tag.rounds # 0 /\ tag.rounds # Forever /\ job.c % Digit \in 0..Forever
          BY <1>1, <1>2, <4>1, <5>1, ForeverIsPositive, SizeAssumption, SMTT(30) DEF Begun
        <5>3. OneRoundLess(tag.rounds) + Smaller(rounds + 1, Forever) = job.c % Digit
          BY <1>1, <5>1, <5>2, BegunCounts
        <5>4. QED
          BY <4>1, <5>3 DEF Begun
      <4>2. CASE Len(todo) = 1 /\ NotBegun
        BY <2>4, <4>2 DEF Starting, NotBegun
      <4>3. QED
        BY <2>1, <4>1, <4>2
    <3>3. QED
      BY <2>2, <2>4, <3>1, <3>2 DEF Starting
  <2>5. CASE main # "loaded"
    BY <2>2, <2>5 DEF Starting
  <2>6. QED
    BY <2>4, <2>5
<1>5. CASE Serve
  <2>1. /\ main' = main /\ todo # <<>> /\ todo' = Tail(todo) /\ tag'.state = tag.state
        /\ job' = job /\ rounds' = rounds
    BY <1>1, <1>5, ServeTurns
  <2>2. CASE main = "loaded"
    <3>1. Pending(todo, job.c)
      BY <2>2 DEF Starting
    <3>2. /\ Pending(todo', job.c) /\ Len(todo') = Len(todo) - 1 /\ Len(todo) \in Nat \ {0}
          /\ Len(todo) > 2 => todo[1].op = "fill"
          /\ Len(todo) = 2 => todo[1] = [op |-> "low", n |-> job.c % Digit]
      BY <1>1, <2>1, <3>1, PendingTail
    <3>3. CASE Len(todo) > 2
      <4>1. tag'.rounds = tag.rounds
        BY <1>1, <1>5, <3>2, <3>3, ServeTurns
      <4>2. Resting /\ rounds = 0
        BY <2>2, <3>2, <3>3 DEF Starting
      <4>3. Resting' /\ rounds' = 0 /\ Len(todo') # 1
        BY <2>1, <3>2, <3>3, <4>1, <4>2 DEF Resting
      <4>4. QED
        BY <2>1, <3>2, <4>3 DEF Starting
    <3>4. CASE Len(todo) = 2
      <4>1. todo[1].op = "low" /\ todo[1].n = job.c % Digit
        BY <3>2, <3>4
      <4>2. tag'.rounds = (job.c % Digit) + Digit * (tag.rounds \div Digit)
        BY <1>1, <1>5, <4>1, ServeTurns
      <4>3. tag.rounds = 0 /\ rounds' = 0
        BY <2>1, <2>2, <3>4 DEF Starting, Resting
      <4>4. tag'.rounds = job.c % Digit
        BY <1>2, <4>2, <4>3, ZeroBytes, SizeAssumption
      <4>5. tag'.rounds + rounds' = job.c % Digit /\ Len(todo') = 1
        BY <1>2, <3>2, <3>4, <4>3, <4>4
      <4>6. QED
        BY <2>1, <3>2, <4>5 DEF Starting
    <3>5. CASE Len(todo) = 1
      <4>1. Pending(todo', job'.c) /\ Len(todo') = 0
        BY <2>1, <3>2, <3>5
      <4>2. QED
        BY <4>1 DEF Starting
    <3>6. QED
      BY <3>2, <3>3, <3>4, <3>5
  <2>3. CASE main # "loaded"
    BY <2>1, <2>3 DEF Starting
  <2>4. QED
    BY <2>2, <2>3
<1>6. CASE Receiving
  <2>1. UNCHANGED <<main, todo, tag, job, rounds>>
    BY <1>6 DEF Receiving, TakeAnswer, board, driver, history
  <2>2. QED
    BY <2>1 DEF Starting, Resting
<1>7. CASE Polled
  BY <1>7 DEF Polled, Starting
<1>8. CASE Loaded \/ Join \/ Poll \/ (\E n \in Messages, c \in Rounds : Repeat(n, c))
  BY <1>8 DEF Loaded, Join, Poll, Repeat, Main, Starting
<1>9. ASSUME UNCHANGED <<main, job, todo, rounds>>,
             tag'.rounds = tag.rounds, tag'.state = tag.state
      PROVE  Starting'
  BY <1>9 DEF Starting, Resting
<1>10. QED
  BY <1>3, <1>4, <1>5, <1>6, <1>7, <1>8, <1>9, Untouched DEF Starting

LEMMA TurningKept ==
  ASSUME Discipline, Kinds, Starting, Turning, [Next]_vars
  PROVE  Turning'
<1>1. /\ Typing /\ tag.rounds \in Nat /\ tag.rounds \in 0..Forever /\ rounds \in Nat
      /\ rounds \in 0..Forever /\ job.c \in 0..Forever /\ job.c \in Nat
      /\ todo \in Seq(RequestType) /\ Len(todo) \in Nat
  BY Basics
<1>2. ASSUME UNCHANGED <<job, rounds>>, tag'.rounds = tag.rounds,
             \/ UNCHANGED <<main, todo>>
             \/ main = "loaded" /\ Len(todo) = 0
      PROVE  Turning'
  BY <1>2 DEF Turning
<1>3. CASE Loaded
  <2>1. UNCHANGED <<job, rounds, tag>> /\ main = "loaded" /\ todo = <<>>
    BY <1>3 DEF Loaded, Main, Answered, board, history
  <2>2. Len(todo) = 0
    BY <2>1
  <2>3. QED
    BY <1>2, <2>1, <2>2
<1>4. CASE Join
  BY <1>4 DEF Join, Main, Kinds, Streams, Turning
<1>5. CASE Load
  <2>1. Len(todo') # 0
    <3>1. /\ todo = <<>> /\ todo' = todo \o (Samples(0, job.n) \o SetRounds(job.c))
      BY <1>5 DEF Load, Main, Ask, Answered
    <3>2. job.n \in Nat
      BY <1>1 DEF Typing
    <3>3. Samples(0, job.n) \in Seq(RequestType) /\ SetRounds(job.c) \in Seq(RequestType)
      BY <1>1, <3>2, SamplesFacts, RoundsFacts
    <3>4. Samples(0, job.n) \o SetRounds(job.c) \in Seq(RequestType)
      BY <3>3, JoinFacts
    <3>5. Len(Samples(0, job.n) \o SetRounds(job.c)) >= 2
      BY <1>1, <3>2, PendingMessage
    <3>6. QED
      BY <3>1, <3>4, <3>5
  <2>2. main' = "loaded"
    BY <1>5 DEF Load, Main
  <2>3. QED
    BY <2>1, <2>2 DEF Turning
<1>6. CASE Tick
  <2>1. Begun \/ NotBegun
    BY <1>1, <1>6, TickTurns
  <2>2. UNCHANGED <<main, todo, job>>
    BY <1>1, <1>6, TickTurns
  <2>3. CASE Begun
    <3>1. /\ tag.rounds = Forever => OneRoundLess(tag.rounds) = Forever
          /\ tag.rounds # Forever /\ tag.rounds + rounds = job.c =>
               OneRoundLess(tag.rounds) + Smaller(rounds + 1, Forever) = job.c
      BY <1>1, <2>3, BegunCounts DEF Begun
    <3>2. QED
      BY <2>2, <2>3, <3>1 DEF Turning, Begun
  <2>4. CASE NotBegun
    BY <1>2, <2>2, <2>4 DEF NotBegun
  <2>5. QED
    BY <2>1, <2>3, <2>4
<1>7. CASE Serve
  <2>1. /\ main' = main /\ todo # <<>> /\ todo' = Tail(todo) /\ job' = job
        /\ rounds' = rounds
    BY <1>1, <1>7, ServeTurns
  <2>2. main # "idle"
    BY <2>1 DEF Discipline, Quiet, Answered
  <2>3. CASE main = "loaded" /\ Len(todo) = 1
    <3>1. Pending(todo, job.c) /\ tag.rounds + rounds = job.c % Digit
      BY <2>3 DEF Starting
    <3>2. todo[1] = [op |-> "high", n |-> job.c \div Digit]
      BY <1>1, <2>1, <2>3, <3>1, PendingTail
    <3>3. todo[1].op = "high" /\ todo[1].n = job.c \div Digit
      BY <3>2
    <3>4. tag'.rounds = Digit * (job.c \div Digit) + (tag.rounds % Digit)
      BY <1>1, <1>7, <3>3, ServeTurns
    <3>5. tag'.rounds + rounds = job.c
      BY <1>1, <3>1, <3>4, HighJoins
    <3>6. QED
      BY <2>1, <3>5 DEF Turning
  <2>4. CASE ~(main = "loaded" /\ Len(todo) = 1)
    <3>1. Len(todo) \in Nat \ {0} /\ Len(todo') = Len(todo) - 1
      BY <1>1, <2>1, TailFacts
    <3>2. main' # "loaded" \/ Len(todo') # 0
      BY <2>1, <2>4, <3>1
    <3>3. QED
      BY <2>1, <2>2, <3>2 DEF Turning
  <2>5. QED
    BY <2>3, <2>4
<1>8. CASE Receiving
  <2>1. UNCHANGED <<main, todo, tag, job, rounds>>
    BY <1>8 DEF Receiving, TakeAnswer, board, driver, history
  <2>2. QED
    BY <1>2, <2>1
<1>9. CASE Polled
  BY <1>9 DEF Polled, Turning
<1>10. CASE Poll \/ (\E n \in Messages, c \in Rounds : Repeat(n, c))
  BY <1>10 DEF Poll, Repeat, Main, Turning
<1>11. QED
  BY <1>2, <1>3, <1>4, <1>5, <1>6, <1>7, <1>8, <1>9, <1>10, Untouched DEF Turning

-----------------------------------------------------------------------------
LEMMA InitRotation ==
  ASSUME Init
  PROVE  Rotation
BY DEF Init, Rotation, Kinds, Streams, Stopping, Polling, Rested, Starting, Turning

LEMMA SpecRotation == Spec => []Rotation
<1>1. Init => Rotation
  BY InitRotation
<1>2. Discipline /\ Rotation /\ [Next]_vars => Rotation'
  BY KindsKept, StoppingKept, PollingKept, RestedKept, StartingKept, TurningKept
  DEF Rotation
<1>3. QED
  BY <1>1, <1>2, SpecDiscipline, PTL DEF Spec

(* A message is repeated as often as was asked, for every repeat_count,    *)
(* although the PC stores its two bytes one after the other and the tag's  *)
(* timer counts it down in between (tag-L4xx.h:306-372): the low byte alone*)
(* never borrows from the high one, and -1 never counts.                   *)
THEOREM RepeatsCounted == Spec => []RepeatCounts
<1>1. Discipline /\ Rotation => RepeatCounts
  <2>1. ASSUME Discipline, Rotation, job.call = "repeat", main = "idle", tag.rounds = 0
        PROVE  rounds = job.c
    <3>1. tag.rounds = Forever \/ tag.rounds + rounds = job.c
      BY <2>1 DEF Rotation, Turning
    <3>2. tag.rounds # Forever
      BY <2>1, ForeverIsPositive, SizeAssumption
    <3>3. rounds \in Nat
      BY <2>1, Basics
    <3>4. QED
      BY <2>1, <3>1, <3>2, <3>3
  <2>2. QED
    BY <2>1 DEF RepeatCounts
<1>2. QED
  BY <1>1, SpecDiscipline, SpecRotation, PTL
=============================================================================

-------------------------- MODULE ReaderRxProofs ----------------------------
(***************************************************************************)
(* Reception by the reader, for every size of the fifos and of packets: no *)
(* sample is lost without being counted, and a stream that has ended       *)
(* without a failed assertion has no gap.                                  *)
(*                                                                         *)
(* The inductive invariant is Typing with Reception, which says of every   *)
(* phase of start_rx_receiving and stop_rx_receiving what is still on its  *)
(* way (Starts, Receives), accounts for every period (Balance), numbers    *)
(* the samples as long as the board has counted none as lost (InOrder),    *)
(* and follows that count, which is read once before the board stops       *)
(* measuring, to the assertion (Noticed).                                  *)
(***************************************************************************)
EXTENDS ReaderRx, FiniteSetTheorems, FunctionTheorems, TLAPS

-----------------------------------------------------------------------------
(* Messages on their way to the PC. *)

Ops == {"off", "on", "reset", "zero", "allow", "forbid", "read"}

Message(n) == [op : {"push", "ack", "read"}, samples : Seq(1..n), n : Nat]

(* The packets among the first i of q.                                     *)
Count(q, i) == Cardinality({j \in 1..i : q[j].op = "push"})

-----------------------------------------------------------------------------
Typing ==
  /\ flag \in BOOLEAN /\ overflow \in Nat /\ allowed \in 0..Allowance
  /\ adc \in Seq(1..now) /\ Len(adc) <= Capacity
  /\ todo \in Seq(Ops)
  /\ coming \in Seq(Message(now))
  /\ local \in Seq(1..now) /\ Len(local) <= Capacity
  /\ mem \in Nat /\ running \in BOOLEAN
  /\ now \in Nat /\ first \in Nat /\ delivered \in Seq(1..now)
  /\ \A i \in 1..Len(coming) :
       Len(coming[i].samples) = IF coming[i].op = "push" THEN Packet ELSE 0

(* The receiving thread lives from Launch to End.                          *)
Threads ==
  /\ main \in {"idle", "off", "reset", "zero", "allow", "on", "started", "join"}
  /\ rx \in {"none", "top", "loop", "move", "off", "forbid", "reset"}
  /\ rx # "none" => main \in {"started", "join"}
  /\ rx \in {"off", "forbid", "reset"} => main = "join"
  /\ main = "started" => running /\ rx # "none"
  /\ main = "join" => ~running

(* The board neither measures nor has anything to push.                    *)
Still == ~flag /\ adc = <<>>

Silent == coming = <<>> /\ local = <<>>

(* Either a request has not been carried out, or its answer is on its way, *)
(* or has been taken in.                                                   *)
Once(op) ==
  \/ todo = <<op>> /\ coming = <<>>
  \/ todo = <<>> /\ Len(coming) <= 1 /\ \A i \in 1..Len(coming) : coming[i].op = "ack"

Starts ==
  /\ main = "idle" \/ (main = "join" /\ rx = "none") =>
       Still /\ Silent /\ todo = <<>>
  /\ main \in {"off", "reset", "zero", "allow"} =>
       Still /\ local = <<>> /\ delivered = <<>> /\ Once(main)
  /\ (main = "zero" /\ todo = <<>>) \/ main = "allow" => overflow = 0
  /\ main = "on" /\ todo # <<>> =>
       /\ Still /\ Silent /\ delivered = <<>> /\ overflow = 0 /\ todo = <<"on">>
  /\ main = "on" /\ todo = <<>> =>
       flag /\ \A i \in 1..Len(coming) : coming[i].op # "read"

(* What the thread has asked for.                                          *)
Receives ==
  /\ rx \in {"top", "loop", "move"} =>
       flag /\ \A i \in 1..Len(todo) : todo[i] \in {"allow", "read"}
  /\ rx = "off" =>
       IF todo = <<>> THEN ~flag
       ELSE /\ flag /\ todo[Len(todo)] = "off"
            /\ \A i \in 1..(Len(todo) - 1) : todo[i] \in {"allow", "read"}
  /\ rx = "forbid" =>
       /\ ~flag
       /\ todo = <<>> \/ todo = <<"forbid">>
       /\ \A i \in 1..Len(coming) : coming[i].op # "read"
  /\ rx = "reset" =>
       /\ ~flag
       /\ \/ todo = <<"reset">>
          \/ /\ todo = <<>> /\ adc = <<>>
             /\ coming # <<>> => coming[Len(coming)].op = "ack"

(* Every period since the flag was set is accounted for.                   *)
Balance ==
  flag => now - first =
    Len(delivered) + Len(local) + Packet * Count(coming, Len(coming)) + Len(adc) + overflow

Gapless == \A i \in 1..Len(delivered) : delivered[i] = first + i

(* The samples in the fifos and on their way are numbered without a gap.   *)
Received == \A i \in 1..Len(local) : local[i] = first + Len(delivered) + i

Sent ==
  \A i \in 1..Len(coming) : coming[i].op = "push" =>
    \A k \in 1..Packet : coming[i].samples[k] =
      first + Len(delivered) + Len(local) + Packet * Count(coming, i - 1) + k

Waiting == \A i \in 1..Len(adc) : adc[i] = now - Len(adc) + i

(* As long as nothing was lost, everything is in order.                    *)
InOrder == flag /\ overflow = 0 => Gapless /\ Received /\ Sent /\ Waiting

(* The last count read on its way, or the one the PC holds, is not 0.      *)
Told ==
  \/ \E i \in 1..Len(coming) :
       /\ coming[i].op = "read" /\ coming[i].n # 0
       /\ \A j \in (i + 1)..Len(coming) : coming[j].op # "read"
  \/ mem # 0 /\ \A j \in 1..Len(coming) : coming[j].op # "read"

Asked == \E i \in 1..Len(todo) : todo[i] = "read"

(* The PC has read, or is about to, the count of a gap that it delivered.  *)
Noticed ==
  /\ rx \in {"off", "forbid"} => Asked \/ Gapless \/ Told
  /\ rx = "reset" \/ (main = "join" /\ rx = "none") \/ main = "idle" => Gapless

Reception ==
  Running =>
    Threads /\ Starts /\ Receives /\ Balance /\ InOrder /\ Noticed

-----------------------------------------------------------------------------
(* Counting packets. *)

LEMMA CountType ==
  ASSUME NEW q, NEW i \in Nat
  PROVE  /\ IsFiniteSet({j \in 1..i : q[j].op = "push"})
         /\ Count(q, i) \in Nat
<1> DEFINE C == {j \in 1..i : q[j].op = "push"}
<1>1. IsFiniteSet(1..i)
  <2>1. 1 \in Int /\ i \in Int
    OBVIOUS
  <2>2. QED
    BY <2>1, FS_Interval
<1>2. C \in SUBSET (1..i)
  OBVIOUS
<1>3. IsFiniteSet(C)
  BY <1>1, <1>2, FS_Subset
<1>4. Cardinality(C) \in Nat
  BY <1>3, FS_CardinalityType
<1>5. QED
  BY <1>3, <1>4 DEF Count

LEMMA CountNone ==
  ASSUME NEW q
  PROVE  Count(q, 0) = 0
<1>1. {j \in 1..0 : q[j].op = "push"} = {}
  OBVIOUS
<1>2. QED
  BY <1>1, FS_EmptySet DEF Count

LEMMA CountNext ==
  ASSUME NEW q, NEW i \in Nat
  PROVE  Count(q, i + 1) = Count(q, i) + (IF q[i + 1].op = "push" THEN 1 ELSE 0)
<1> DEFINE C == {j \in 1..i : q[j].op = "push"}
           D == {j \in 1..(i + 1) : q[j].op = "push"}
<1>1. IsFiniteSet(C) /\ Cardinality(C) \in Nat
  BY CountType DEF Count
<1>2. CASE q[i + 1].op = "push"
  <2>1. D = C \cup {i + 1} /\ i + 1 \notin C
    BY <1>2
  <2> HIDE DEF C, D
  <2>2. Cardinality(D) = Cardinality(C) + 1
    BY <1>1, <2>1, FS_AddElement
  <2>3. QED
    BY <1>2, <2>2 DEF Count, C, D
<1>3. CASE q[i + 1].op # "push"
  <2>1. D = C
    <3>1. \A j \in D : j # i + 1
      BY <1>3
    <3>2. QED
      BY <3>1
  <2>2. Count(q, i) = Cardinality(C) /\ Count(q, i + 1) = Cardinality(D)
    BY DEF Count
  <2> HIDE DEF C, D
  <2>3. QED
    BY <1>1, <1>3, <2>1, <2>2
<1>4. QED
  BY <1>2, <1>3

LEMMA CountSame ==
  ASSUME NEW p, NEW q, NEW i \in Nat, \A j \in 1..i : p[j] = q[j]
  PROVE  Count(p, i) = Count(q, i)
<1>1. {j \in 1..i : p[j].op = "push"} = {j \in 1..i : q[j].op = "push"}
  OBVIOUS
<1>2. QED
  BY <1>1 DEF Count

(* What is counted does not depend on where it stands.                     *)
LEMMA CountShifted ==
  ASSUME NEW p, NEW q, NEW i \in Nat, \A j \in 1..i : p[j] = q[j + 1]
  PROVE  Count(q, i + 1) = Count(p, i) + (IF q[1].op = "push" THEN 1 ELSE 0)
<1> DEFINE C == {j \in 1..i : p[j].op = "push"}
           D == {j \in 1..(i + 1) : q[j].op = "push"}
           E == {j \in 2..(i + 1) : q[j].op = "push"}
           f == [j \in C |-> j + 1]
<1>1. IsFiniteSet(C) /\ Cardinality(C) \in Nat /\ IsFiniteSet(D) /\ i + 1 \in Nat
  BY CountType DEF Count
<1>2. f \in Bijection(C, E)
  <2>1. f \in [C -> E]
    OBVIOUS
  <2>2. \A a, b \in C : f[a] = f[b] => a = b
    OBVIOUS
  <2>3. \A e \in E : \E a \in C : f[a] = e
    <3>1. ASSUME NEW e \in E PROVE e - 1 \in C /\ f[e - 1] = e
      <4>1. e - 1 \in 1..i /\ p[e - 1] = q[(e - 1) + 1] /\ (e - 1) + 1 = e
        OBVIOUS
      <4>2. e - 1 \in C
        BY <4>1
      <4>3. QED
        BY <4>1, <4>2
    <3>2. QED
      BY <3>1
  <2>4. QED
    <3> HIDE DEF C, E, f
    <3>1. QED
      BY <2>1, <2>2, <2>3, Fun_IsBij
<1>3. IsFiniteSet(E) /\ Cardinality(E) = Cardinality(C)
  BY <1>1, <1>2, FS_Bijection DEF ExistsBijection
<1>4. CASE q[1].op = "push"
  <2>1. D = E \cup {1} /\ 1 \notin E
    BY <1>4
  <2> HIDE DEF C, D, E
  <2>2. Cardinality(D) = Cardinality(E) + 1
    BY <1>3, <2>1, FS_AddElement
  <2>3. QED
    BY <1>3, <1>4, <2>2 DEF Count, C, D
<1>5. CASE q[1].op # "push"
  <2>1. D = E
    <3>1. \A j \in D : j # 1
      BY <1>5
    <3>2. QED
      BY <3>1
  <2> HIDE DEF E
  <2>2. QED
    BY <1>1, <1>3, <1>5, <2>1 DEF Count
<1>6. QED
  BY <1>4, <1>5

LEMMA CountTail ==
  ASSUME NEW S, NEW q \in Seq(S), q # <<>>, NEW i \in 0..(Len(q) - 1)
  PROVE  Count(q, i + 1) = Count(Tail(q), i) + (IF q[1].op = "push" THEN 1 ELSE 0)
<1>1. i \in Nat /\ \A j \in 1..i : Tail(q)[j] = q[j + 1]
  OBVIOUS
<1>2. QED
  BY <1>1, CountShifted

LEMMA CountAppend ==
  ASSUME NEW S, NEW q \in Seq(S), NEW m \in S
  PROVE  /\ \A i \in 0..Len(q) : Count(Append(q, m), i) = Count(q, i)
         /\ Count(Append(q, m), Len(q) + 1) =
              Count(q, Len(q)) + (IF m.op = "push" THEN 1 ELSE 0)
<1> DEFINE t == Append(q, m)
<1>1. Len(q) \in Nat /\ t[Len(q) + 1] = m /\ \A i \in 1..Len(q) : t[i] = q[i]
  OBVIOUS
<1> HIDE DEF t
<1>2. ASSUME NEW i \in 0..Len(q) PROVE Count(t, i) = Count(q, i)
  <2>1. i \in Nat /\ \A j \in 1..i : t[j] = q[j]
    BY <1>1
  <2>2. QED
    BY <2>1, CountSame
<1>3. Count(t, Len(q) + 1) = Count(t, Len(q)) + (IF m.op = "push" THEN 1 ELSE 0)
  BY <1>1, CountNext
<1>4. QED
  BY <1>1, <1>2, <1>3 DEF t

LEMMA PacketsAdd ==
  ASSUME NEW c \in Nat
  PROVE  Packet * (c + 1) = Packet * c + Packet /\ Packet * c \in Nat /\ Packet * 0 = 0
         /\ Packet \in Nat \ {0} /\ Capacity \in Nat
BY SizeAssumption

-----------------------------------------------------------------------------
(* Sequences. *)

LEMMA TailOf ==
  ASSUME NEW S, NEW q \in Seq(S), q # <<>>
  PROVE  /\ Head(q) = q[1] /\ q[1] \in S /\ Len(q) \in Nat \ {0}
         /\ Tail(q) \in Seq(S) /\ Len(Tail(q)) = Len(q) - 1
         /\ \A i \in 1..Len(Tail(q)) : Tail(q)[i] = q[i + 1]
OBVIOUS

LEMMA Joined ==
  ASSUME NEW S, NEW p \in Seq(S), NEW q \in Seq(S)
  PROVE  /\ p \o q \in Seq(S) /\ Len(p \o q) = Len(p) + Len(q)
         /\ Len(p) \in Nat /\ Len(q) \in Nat
         /\ \A i \in 1..Len(p) : (p \o q)[i] = p[i]
         /\ \A i \in 1..Len(q) : (p \o q)[Len(p) + i] = q[i]
         /\ p = <<>> => p \o q = q
         /\ q = <<>> => p \o q = p
BY SMTT(30)

LEMMA Appended ==
  ASSUME NEW S, NEW q \in Seq(S), NEW m \in S
  PROVE  /\ Append(q, m) \in Seq(S) /\ Len(Append(q, m)) = Len(q) + 1
         /\ Len(q) \in Nat
         /\ \A i \in 1..Len(q) : Append(q, m)[i] = q[i]
         /\ Append(q, m)[Len(q) + 1] = m
OBVIOUS

LEMMA Cut ==
  ASSUME NEW S, NEW q \in Seq(S), NEW n \in Nat, n <= Len(q)
  PROVE  /\ SubSeq(q, 1, n) \in Seq(S) /\ Len(SubSeq(q, 1, n)) = n
         /\ \A i \in 1..n : SubSeq(q, 1, n)[i] = q[i]
         /\ SubSeq(q, n + 1, Len(q)) \in Seq(S)
         /\ Len(SubSeq(q, n + 1, Len(q))) = Len(q) - n
         /\ \A i \in 1..(Len(q) - n) : SubSeq(q, n + 1, Len(q))[i] = q[n + i]
OBVIOUS

LEMMA Bare ==
  ASSUME NEW S, NEW q \in Seq(S)
  PROVE  /\ Len(q) \in Nat
         /\ Len(q) = 0 <=> q = <<>>
         /\ \A i \in 1..Len(q) : q[i] \in S
OBVIOUS

LEMMA Wider ==
  ASSUME NEW n \in Nat
  PROVE  Seq(1..n) \subseteq Seq(1..(n + 1)) /\ Seq(Message(n)) \subseteq Seq(Message(n + 1))
<1>1. 1..n \subseteq 1..(n + 1)
  OBVIOUS
<1>2. ASSUME NEW S, NEW T, S \subseteq T PROVE Seq(S) \subseteq Seq(T)
  BY <1>2
<1>3. Seq(1..n) \subseteq Seq(1..(n + 1))
  BY <1>1, <1>2
<1>4. Message(n) \subseteq Message(n + 1)
  BY <1>3 DEF Message
<1>5. QED
  BY <1>2, <1>3, <1>4

-----------------------------------------------------------------------------
(* What the steps do, without the operators they are written with. *)

LEMMA AskedOnce ==
  ASSUME Typing, Answered, NEW r \in Seq(Ops), Ask(r)
  PROVE  todo = <<>> /\ todo' = r /\ coming' = coming
BY DEF Typing, Answered, Ask

LEMMA StartingStep ==
  ASSUME Typing, Starting
  PROVE  /\ Running /\ todo = <<>> /\ \A i \in 1..Len(coming) : coming[i].op = "push"
         /\ \/ main = "off" /\ main' = "reset" /\ local' = local
            \/ main = "reset" /\ main' = "zero" /\ local' = local
            \/ main = "zero" /\ main' = "allow" /\ local' = local
            \/ main = "allow" /\ main' = "on" /\ local' = <<>>
         /\ todo' = <<main'>> /\ coming' = coming
         /\ mem' = mem \/ mem' = 0
         /\ UNCHANGED <<board, rx, now, first, fault, running, delivered>>
<1>1. Answered
  BY DEF Starting
<1>2. Len(Begin) = 5 /\ Begin[1] = "off" /\ Begin[2] = "reset" /\ Begin[3] = "zero"
      /\ Begin[4] = "allow" /\ Begin[5] = "on"
  BY DEF Begin
<1>3. PICK i \in 1..4 :
        /\ Main(Begin[i], Begin[i + 1])
        /\ Ask(<<Begin[i + 1]>>)
        /\ mem' = IF Begin[i + 1] = "zero" THEN 0 ELSE mem
        /\ local' = IF Begin[i + 1] = "on" THEN <<>> ELSE local
        /\ UNCHANGED <<running, delivered>>
  BY <1>2 DEF Starting
<1>4. i = 1 \/ i = 2 \/ i = 3 \/ i = 4
  OBVIOUS
<1>5. Begin[i + 1] \in Ops
  BY <1>2, <1>4 DEF Ops
<1>6. <<Begin[i + 1]>> \in Seq(Ops)
  BY <1>5
<1>7. todo = <<>> /\ todo' = <<Begin[i + 1]>> /\ coming' = coming
  BY <1>1, <1>3, <1>6, AskedOnce
<1>8. Running /\ main = Begin[i] /\ main' = Begin[i + 1]
      /\ UNCHANGED <<board, rx, now, first, fault, running, delivered>>
  BY <1>3 DEF Main
<1>9. /\ \/ main = "off" /\ main' = "reset" /\ local' = local
         \/ main = "reset" /\ main' = "zero" /\ local' = local
         \/ main = "zero" /\ main' = "allow" /\ local' = local
         \/ main = "allow" /\ main' = "on" /\ local' = <<>>
      /\ mem' = mem \/ mem' = 0
  BY <1>2, <1>3, <1>4, <1>8
<1>10. QED
  BY <1>1, <1>7, <1>8, <1>9 DEF Answered

(* Every step of the thread but Move leaves the samples where they are.    *)
LEMMA ThreadStep ==
  ASSUME Typing, Thread
  PROVE  /\ Running /\ UNCHANGED <<board, running, main, now, first, coming, mem>>
         /\ \/ /\ rx = "top" /\ rx' = "loop" /\ UNCHANGED <<todo, local, delivered>>
            \/ /\ rx = "top" /\ rx' = "off" /\ ~running
               /\ todo' = todo \o <<"read", "off">> /\ UNCHANGED <<local, delivered>>
            \/ /\ rx = "loop" /\ rx' = "move"
               /\ todo' = todo \o <<"allow", "read">> /\ UNCHANGED <<local, delivered>>
            \/ /\ rx \in {"loop", "move"} /\ rx' = "top"
               /\ delivered' = delivered \o local /\ local' = <<>> /\ UNCHANGED todo
            \/ /\ rx = "off" /\ rx' = "forbid" /\ Answered
               /\ todo' = <<"forbid">> /\ UNCHANGED <<local, delivered>>
            \/ /\ rx = "forbid" /\ rx' = "reset" /\ Answered /\ Check
               /\ todo' = <<"reset">> /\ UNCHANGED <<local, delivered>>
            \/ /\ rx = "reset" /\ rx' = "none" /\ Answered
               /\ local' = <<>> /\ UNCHANGED <<todo, delivered>>
<1>1. <<"forbid">> \in Seq(Ops) /\ <<"reset">> \in Seq(Ops)
  BY DEF Ops
<1>2. CASE LeaveLoop
  BY <1>2 DEF LeaveLoop, Rx, Ask, link, copies
<1>3. CASE Restore
  BY <1>3 DEF Restore, Rx, Ask, copies
<1>4. CASE Move
  BY <1>4 DEF Move, Rx, link
<1>5. CASE Forbid
  BY <1>1, <1>5, AskedOnce DEF Forbid, Rx, copies
<1>6. CASE ResetFifo
  BY <1>1, <1>6, AskedOnce DEF ResetFifo, Rx, copies
<1>7. CASE End
  BY <1>7 DEF End, Rx, link
<1>8. QED
  BY <1>2, <1>3, <1>4, <1>5, <1>6, <1>7 DEF Thread

LEMMA StartStep ==
  ASSUME Typing, Start
  PROVE  /\ Running /\ main = "idle" /\ main' = "off" /\ delivered' = <<>>
         /\ todo' = todo \o <<"off">>
         /\ UNCHANGED <<board, coming, copies, running, rx, now, first, fault>>
BY DEF Start, Main, Ask

LEMMA CarryStep ==
  ASSUME Typing, Carry
  PROVE  /\ Running /\ todo # <<>> /\ todo' = Tail(todo) /\ Head(todo) \in Ops
         /\ Head(todo) = todo[1] /\ todo' \in Seq(Ops)
         /\ flag' = IF Head(todo) = "off" THEN FALSE ELSE IF Head(todo) = "on" THEN TRUE ELSE flag
         /\ adc' = IF Head(todo) = "reset" THEN <<>> ELSE adc
         /\ overflow' = IF Head(todo) = "zero" THEN 0 ELSE overflow
         /\ allowed' = IF Head(todo) = "allow" THEN Allowance
                       ELSE IF Head(todo) = "forbid" THEN 0 ELSE allowed
         /\ first' = IF Head(todo) = "on" THEN now ELSE first
         /\ \E m \in Message(now) :
              /\ m = IF Head(todo) = "read" THEN Answer("read", overflow) ELSE Answer("ack", 0)
              /\ m.op = IF Head(todo) = "read" THEN "read" ELSE "ack"
              /\ m.n = IF Head(todo) = "read" THEN overflow ELSE 0
              /\ Len(m.samples) = 0
              /\ coming' = Append(coming, m)
         /\ UNCHANGED <<copies, threads, delivered, fault, now>>
<1>1. /\ Running /\ todo # <<>> /\ todo' = Tail(todo)
      /\ flag' = IF Head(todo) = "off" THEN FALSE ELSE IF Head(todo) = "on" THEN TRUE ELSE flag
      /\ adc' = IF Head(todo) = "reset" THEN <<>> ELSE adc
      /\ overflow' = IF Head(todo) = "zero" THEN 0 ELSE overflow
      /\ allowed' = IF Head(todo) = "allow" THEN Allowance
                    ELSE IF Head(todo) = "forbid" THEN 0 ELSE allowed
      /\ first' = IF Head(todo) = "on" THEN now ELSE first
      /\ coming' = Append(coming, IF Head(todo) = "read" THEN Answer("read", overflow)
                                                         ELSE Answer("ack", 0))
      /\ UNCHANGED <<copies, threads, delivered, fault, now>>
  BY DEF Carry, Board
<1>2. Head(todo) \in Ops /\ Head(todo) = todo[1] /\ Tail(todo) \in Seq(Ops)
  BY <1>1, TailOf DEF Typing
<1> DEFINE m == IF Head(todo) = "read" THEN Answer("read", overflow) ELSE Answer("ack", 0)
<1>3. /\ m \in Message(now) /\ Len(m.samples) = 0
      /\ m.op = IF Head(todo) = "read" THEN "read" ELSE "ack"
      /\ m.n = IF Head(todo) = "read" THEN overflow ELSE 0
  BY DEF Answer, Message, Typing
<1> HIDE DEF m
<1>4. coming' = Append(coming, m) /\ m = IF Head(todo) = "read" THEN Answer("read", overflow) ELSE Answer("ack", 0)
  BY <1>1 DEF m
<1>5. QED
  BY <1>1, <1>2, <1>3, <1>4

LEMMA HandleStep ==
  ASSUME Typing, Handle, Running'
  PROVE  /\ Running /\ coming # <<>> /\ coming' = Tail(coming) /\ coming[1] \in Message(now)
         /\ Len(coming[1].samples) = IF coming[1].op = "push" THEN Packet ELSE 0
         /\ mem' = IF coming[1].op = "read" THEN coming[1].n ELSE mem
         /\ Len(local) + Len(coming[1].samples) <= Capacity
         /\ local' = local \o coming[1].samples
         /\ UNCHANGED <<board, todo, threads, history, fault>>
<1>1. coming # <<>> /\ coming \in Seq(Message(now)) /\ 1 \in 1..Len(coming)
  <2>1. coming # <<>> /\ coming \in Seq(Message(now))
    BY DEF Handle, Typing
  <2>2. QED
    BY <2>1, Bare
<1>2. Head(coming) = coming[1] /\ coming[1] \in Message(now)
  BY <1>1, TailOf
<1>3. Len(coming[1].samples) = IF coming[1].op = "push" THEN Packet ELSE 0
  BY <1>1 DEF Typing
<1>4. QED
  BY <1>1, <1>2, <1>3 DEF Handle, Running

LEMMA PushStep ==
  ASSUME Typing, Push
  PROVE  /\ Running /\ Packet \in Nat \ {0} /\ Len(adc) >= Packet /\ Len(adc) \in Nat
         /\ allowed > 0 /\ allowed' = allowed - 1
         /\ SubSeq(adc, 1, Packet) \in Seq(1..now) /\ Len(SubSeq(adc, 1, Packet)) = Packet
         /\ \E m \in Message(now) :
              /\ m.op = "push" /\ m.samples = SubSeq(adc, 1, Packet) /\ m.n = 0
              /\ coming' = Append(coming, m)
         /\ adc' = SubSeq(adc, Packet + 1, Len(adc))
         /\ adc' \in Seq(1..now) /\ Len(adc') = Len(adc) - Packet
         /\ UNCHANGED <<flag, overflow, todo, now, first, copies, threads, delivered, fault>>
<1>1. /\ Running /\ allowed > 0 /\ Len(adc) >= Packet /\ allowed' = allowed - 1
      /\ coming' = Append(coming, [op |-> "push", samples |-> SubSeq(adc, 1, Packet), n |-> 0])
      /\ adc' = SubSeq(adc, Packet + 1, Len(adc))
      /\ UNCHANGED <<flag, overflow, todo, now, first, copies, threads, delivered, fault>>
  BY DEF Push, Board
<1>2. Packet \in Nat \ {0} /\ Capacity \in Nat
  BY SizeAssumption
<1>3. adc \in Seq(1..now) /\ Len(adc) \in Nat
  BY DEF Typing
<1>4. Packet <= Len(adc)
  BY <1>1, <1>2, <1>3
<1>5. /\ SubSeq(adc, 1, Packet) \in Seq(1..now) /\ Len(SubSeq(adc, 1, Packet)) = Packet
      /\ SubSeq(adc, Packet + 1, Len(adc)) \in Seq(1..now)
      /\ Len(SubSeq(adc, Packet + 1, Len(adc))) = Len(adc) - Packet
  BY <1>2, <1>3, <1>4, Cut, ZenonT(30)
<1> DEFINE m == [op |-> "push", samples |-> SubSeq(adc, 1, Packet), n |-> 0]
<1>6. m \in Message(now)
  BY <1>5 DEF Message
<1>7. m.op = "push" /\ m.samples = SubSeq(adc, 1, Packet) /\ m.n = 0
  OBVIOUS
<1> HIDE DEF m
<1>8. coming' = Append(coming, m)
  BY <1>1 DEF m
<1>9. QED
  BY <1>1, <1>2, <1>3, <1>5, <1>6, <1>7, <1>8

LEMMA MeasureStep ==
  ASSUME Typing, Measure
  PROVE  /\ Running /\ flag /\ now' = now + 1 /\ now \in Nat
         /\ \/ overflow' = overflow + 1 /\ adc' = adc
            \/ Len(adc) + 1 <= Capacity /\ adc' = Append(adc, now + 1) /\ overflow' = overflow
         /\ UNCHANGED <<flag, allowed, link, first, copies, threads, delivered, fault>>
<1>1. /\ Running /\ flag /\ now' = now + 1
      /\ UNCHANGED <<flag, allowed, link, first, copies, threads, delivered, fault>>
  BY DEF Measure, Board
<1>2. IF Len(adc) >= Capacity THEN overflow' = overflow + 1 /\ adc' = adc
                              ELSE adc' = Append(adc, now + 1) /\ overflow' = overflow
  BY DEF Measure, Full, Stored
<1>3. Len(adc) \in Nat /\ Capacity \in Nat /\ now \in Nat
  BY SizeAssumption DEF Typing
<1>4. Len(adc) >= Capacity \/ Len(adc) + 1 <= Capacity
  BY <1>3
<1>5. \/ overflow' = overflow + 1 /\ adc' = adc
      \/ Len(adc) + 1 <= Capacity /\ adc' = Append(adc, now + 1) /\ overflow' = overflow
  BY <1>2, <1>4
<1>6. QED
  BY <1>1, <1>3, <1>5

LEMMA LaunchStep ==
  ASSUME Typing, Launch
  PROVE  /\ Running /\ main = "on" /\ main' = "started" /\ running' = TRUE /\ rx' = "top"
         /\ todo = <<>> /\ UNCHANGED <<board, link, copies, history, fault>>
BY DEF Launch, Begin, Answered

LEMMA StopStep ==
  ASSUME Typing, Stop
  PROVE  /\ Running /\ main = "started" /\ main' = "join" /\ running' = FALSE
         /\ UNCHANGED <<board, link, copies, rx, now, first, delivered, fault>>
BY DEF Stop, Main

LEMMA JoinStep ==
  ASSUME Typing, Join
  PROVE  /\ Running /\ main = "join" /\ main' = "idle" /\ rx = "none"
         /\ UNCHANGED <<board, link, copies, running, rx, now, first, delivered, fault>>
BY DEF Join, Main

LEMMA Steps ==
  ASSUME Next
  PROVE  \/ Start \/ Stop \/ Starting \/ Launch \/ Join \/ Thread
         \/ Handle \/ Measure \/ Push \/ Carry
BY DEF Next, Caller

-----------------------------------------------------------------------------
(* Typing. *)

LEMMA TypingQueue ==
  ASSUME Typing, NEW m \in Message(now), coming' = Append(coming, m),
         Len(m.samples) = IF m.op = "push" THEN Packet ELSE 0
  PROVE  /\ coming' \in Seq(Message(now))
         /\ \A i \in 1..Len(coming') :
              Len(coming'[i].samples) = IF coming'[i].op = "push" THEN Packet ELSE 0
<1>1. coming \in Seq(Message(now))
  BY DEF Typing
<1>2. /\ coming' \in Seq(Message(now)) /\ Len(coming') = Len(coming) + 1
      /\ Len(coming) \in Nat /\ coming'[Len(coming) + 1] = m
      /\ \A i \in 1..Len(coming) : coming'[i] = coming[i]
  BY <1>1, Appended
<1>3. ASSUME NEW i \in 1..Len(coming')
      PROVE  Len(coming'[i].samples) = IF coming'[i].op = "push" THEN Packet ELSE 0
  <2>1. i \in 1..Len(coming) \/ i = Len(coming) + 1
    BY <1>2
  <2>2. CASE i \in 1..Len(coming)
    BY <1>2, <2>2 DEF Typing
  <2>3. CASE i = Len(coming) + 1
    BY <1>2, <2>3
  <2>4. QED
    BY <2>1, <2>2, <2>3
<1>4. QED
  BY <1>2, <1>3

LEMMA TypingThread ==
  ASSUME Typing, Thread
  PROVE  Typing'
<1>1. /\ UNCHANGED <<flag, adc, overflow, allowed, running, now, first, coming, mem>>
      /\ \/ UNCHANGED todo
         \/ todo' = todo \o <<"read", "off">>
         \/ todo' = todo \o <<"allow", "read">>
         \/ todo' = <<"forbid">> \/ todo' = <<"reset">>
      /\ UNCHANGED local \/ local' = <<>>
      /\ UNCHANGED delivered \/ delivered' = delivered \o local
  BY ThreadStep DEF board
<1>2. todo' \in Seq(Ops)
  <2>1. /\ <<"read", "off">> \in Seq(Ops) /\ <<"allow", "read">> \in Seq(Ops)
        /\ <<"forbid">> \in Seq(Ops) /\ <<"reset">> \in Seq(Ops) /\ todo \in Seq(Ops)
    BY DEF Ops, Typing
  <2>2. todo \o <<"read", "off">> \in Seq(Ops) /\ todo \o <<"allow", "read">> \in Seq(Ops)
    BY <2>1, Joined
  <2>3. QED
    BY <1>1, <2>1, <2>2
<1>3. local' \in Seq(1..now) /\ Len(local') <= Capacity /\ delivered' \in Seq(1..now)
  <2>1. /\ local \in Seq(1..now) /\ Len(local) <= Capacity /\ delivered \in Seq(1..now)
        /\ Capacity \in Nat
    BY SizeAssumption DEF Typing
  <2>2. delivered \o local \in Seq(1..now) /\ <<>> \in Seq(1..now) /\ Len(<<>>) <= Capacity
    BY <2>1, Joined
  <2>3. QED
    BY <1>1, <2>1, <2>2
<1>4. QED
  BY <1>1, <1>2, <1>3 DEF Typing

LEMMA TypingHandle ==
  ASSUME Typing, Handle
  PROVE  Typing'
<1>1. /\ coming # <<>> /\ coming' = Tail(coming)
      /\ UNCHANGED <<flag, adc, overflow, allowed, todo, running, now, first, delivered>>
      /\ mem' = IF Head(coming).op = "read" THEN Head(coming).n ELSE mem
      /\ \/ /\ Len(local) + Len(Head(coming).samples) <= Capacity
            /\ local' = local \o Head(coming).samples
         \/ local' = local
  BY DEF Handle, board, threads, history
<1>2. coming \in Seq(Message(now)) /\ local \in Seq(1..now) /\ Len(local) <= Capacity
  BY DEF Typing
<1>3. /\ Head(coming) \in Message(now)
      /\ Tail(coming) \in Seq(Message(now)) /\ Len(Tail(coming)) = Len(coming) - 1
      /\ \A i \in 1..Len(Tail(coming)) : Tail(coming)[i] = coming[i + 1]
      /\ Len(coming) \in Nat
  BY <1>1, <1>2, TailOf
<1>4. mem' \in Nat /\ Head(coming).samples \in Seq(1..now)
  <2>1. Head(coming).n \in Nat /\ Head(coming).samples \in Seq(1..now)
    BY <1>3 DEF Message
  <2>2. mem \in Nat
    BY DEF Typing
  <2>3. QED
    BY <1>1, <2>1, <2>2
<1>5. local' \in Seq(1..now) /\ Len(local') <= Capacity
  <2>1. /\ local \o Head(coming).samples \in Seq(1..now)
        /\ Len(local \o Head(coming).samples) = Len(local) + Len(Head(coming).samples)
    BY <1>2, <1>4, Joined
  <2>2. CASE local' = local
    BY <1>2, <2>2
  <2>3. CASE /\ Len(local) + Len(Head(coming).samples) <= Capacity
             /\ local' = local \o Head(coming).samples
    BY <2>1, <2>3
  <2>4. QED
    BY <1>1, <2>2, <2>3
<1>6. ASSUME NEW i \in 1..Len(coming')
      PROVE  Len(coming'[i].samples) = IF coming'[i].op = "push" THEN Packet ELSE 0
  <2>1. i + 1 \in 1..Len(coming) /\ coming'[i] = coming[i + 1]
    BY <1>1, <1>3
  <2>2. QED
    BY <2>1 DEF Typing
<1>7. QED
  BY <1>1, <1>3, <1>4, <1>5, <1>6 DEF Typing

LEMMA TypingCarry ==
  ASSUME Typing, Carry
  PROVE  Typing'
<1>1. /\ todo' \in Seq(Ops)
      /\ UNCHANGED <<local, mem, running, delivered, now>>
      /\ adc' = <<>> \/ adc' = adc
      /\ overflow' = 0 \/ overflow' = overflow
      /\ allowed' = Allowance \/ allowed' = 0 \/ allowed' = allowed
      /\ first' = now \/ first' = first
  BY CarryStep DEF copies, threads
<1>2. flag' = FALSE \/ flag' = TRUE \/ flag' = flag
  BY CarryStep, Zenon
<1>3. PICK m \in Message(now) :
        /\ m.op = IF Head(todo) = "read" THEN "read" ELSE "ack"
        /\ Len(m.samples) = 0
        /\ coming' = Append(coming, m)
  BY CarryStep
<1>4. m.op # "push"
  BY <1>3
<1>5. /\ coming' \in Seq(Message(now))
      /\ \A i \in 1..Len(coming') :
           Len(coming'[i].samples) = IF coming'[i].op = "push" THEN Packet ELSE 0
  BY <1>3, <1>4, TypingQueue
<1>6. Allowance \in Nat /\ Capacity \in Nat /\ allowed' \in 0..Allowance
  BY <1>1, SizeAssumption DEF Typing
<1>7. adc' \in Seq(1..now) /\ Len(adc') <= Capacity /\ overflow' \in Nat /\ first' \in Nat
  <2>1. /\ adc \in Seq(1..now) /\ Len(adc) <= Capacity /\ overflow \in Nat
        /\ first \in Nat /\ now \in Nat
    BY DEF Typing
  <2>2. <<>> \in Seq(1..now) /\ Len(<<>>) <= Capacity /\ 0 \in Nat
    BY <1>6
  <2>3. adc' \in Seq(1..now) /\ Len(adc') <= Capacity
    BY <1>1, <2>1, <2>2
  <2>4. QED
    BY <1>1, <2>1, <2>3
<1>8. flag' \in BOOLEAN
  BY <1>2, Zenon DEF Typing
<1>9. QED
  BY <1>1, <1>5, <1>6, <1>7, <1>8 DEF Typing

LEMMA TypingPush ==
  ASSUME Typing, Push
  PROVE  Typing'
<1>1. /\ UNCHANGED <<flag, overflow, todo, now, first, local, mem, running, delivered>>
      /\ Packet \in Nat \ {0} /\ Len(adc) >= Packet /\ Len(adc) \in Nat
      /\ allowed > 0 /\ allowed' = allowed - 1
      /\ adc' \in Seq(1..now) /\ Len(adc') = Len(adc) - Packet
  BY PushStep DEF copies, threads
<1>2. PICK m \in Message(now) :
        m.op = "push" /\ m.samples = SubSeq(adc, 1, Packet) /\ coming' = Append(coming, m)
  BY PushStep
<1>3. Len(m.samples) = Packet
  BY <1>2, PushStep
<1>4. /\ coming' \in Seq(Message(now))
      /\ \A i \in 1..Len(coming') :
           Len(coming'[i].samples) = IF coming'[i].op = "push" THEN Packet ELSE 0
  BY <1>2, <1>3, TypingQueue
<1>5. Len(adc') <= Capacity /\ allowed' \in 0..Allowance
  <2>1. /\ Len(adc) <= Capacity /\ Capacity \in Nat
        /\ allowed \in 0..Allowance /\ Allowance \in Nat
    BY SizeAssumption DEF Typing
  <2>2. QED
    BY <1>1, <2>1
<1>6. QED
  BY <1>1, <1>4, <1>5 DEF Typing

LEMMA TypingMeasure ==
  ASSUME Typing, Measure
  PROVE  Typing'
<1>1. /\ now' = now + 1 /\ now \in Nat
      /\ \/ overflow' = overflow + 1 /\ adc' = adc
         \/ Len(adc) + 1 <= Capacity /\ adc' = Append(adc, now + 1) /\ overflow' = overflow
      /\ UNCHANGED <<flag, allowed, todo, coming, first, local, mem, running, delivered>>
  BY MeasureStep DEF copies, threads, link
<1>2. /\ adc \in Seq(1..now') /\ local \in Seq(1..now') /\ delivered \in Seq(1..now')
      /\ coming \in Seq(Message(now')) /\ now' \in Nat
  BY <1>1, Wider DEF Typing
<1>3. overflow' \in Nat
  BY <1>1 DEF Typing
<1>4. adc' \in Seq(1..now') /\ Len(adc') <= Capacity
  <2>1. Len(adc) <= Capacity /\ now + 1 \in 1..now'
    BY <1>1 DEF Typing
  <2>2. /\ Append(adc, now + 1) \in Seq(1..now')
        /\ Len(Append(adc, now + 1)) = Len(adc) + 1
    BY <1>2, <2>1, Appended
  <2>3. CASE adc' = adc
    BY <1>2, <2>1, <2>3
  <2>4. CASE Len(adc) + 1 <= Capacity /\ adc' = Append(adc, now + 1)
    BY <2>2, <2>4
  <2>5. QED
    BY <1>1, <2>3, <2>4
<1>5. QED
  BY <1>1, <1>2, <1>3, <1>4 DEF Typing

LEMMA TypingStarts ==
  ASSUME Typing, Start \/ Starting \/ Launch \/ Stop \/ Join
  PROVE  Typing'
<1>1. CASE Start
  <2>1. /\ delivered' = <<>> /\ todo' = todo \o <<"off">>
        /\ UNCHANGED <<board, coming, local, mem, running, now, first>>
    BY <1>1, StartStep DEF copies
  <2>2. todo' \in Seq(Ops)
    <3>1. todo \in Seq(Ops) /\ <<"off">> \in Seq(Ops)
      BY DEF Typing, Ops
    <3>2. QED
      BY <2>1, <3>1, Joined
  <2>3. QED
    BY <2>1, <2>2 DEF Typing, board
<1>2. CASE Starting
  <2>1. /\ todo' = <<main'>> /\ main' \in {"reset", "zero", "allow", "on"}
        /\ local' = local \/ local' = <<>>
        /\ mem' = mem \/ mem' = 0
        /\ UNCHANGED <<board, coming, running, now, first, delivered>>
    BY <1>2, StartingStep
  <2>2. todo' \in Seq(Ops)
    <3>1. main' \in Ops
      BY <2>1 DEF Ops
    <3>2. QED
      BY <2>1, <3>1
  <2>3. local' \in Seq(1..now) /\ Len(local') <= Capacity /\ mem' \in Nat
    <3>1. local \in Seq(1..now) /\ Len(local) <= Capacity /\ mem \in Nat /\ Capacity \in Nat
      BY SizeAssumption DEF Typing
    <3>2. <<>> \in Seq(1..now) /\ Len(<<>>) <= Capacity
      BY <3>1
    <3>3. local' \in Seq(1..now) /\ Len(local') <= Capacity
      BY <2>1, <3>1, <3>2
    <3>4. QED
      BY <2>1, <3>1, <3>3
  <2>4. QED
    BY <2>1, <2>2, <2>3 DEF Typing, board
<1>3. CASE Launch
  BY <1>3, LaunchStep DEF Typing, board, link, copies, history
<1>4. CASE Stop
  BY <1>4, StopStep DEF Typing, board, link, copies
<1>5. CASE Join
  BY <1>5, JoinStep DEF Typing, board, link, copies
<1>6. QED
  BY <1>1, <1>2, <1>3, <1>4, <1>5

LEMMA TypingStep == Typing /\ [Next]_vars => Typing'
<1> SUFFICES ASSUME Typing, [Next]_vars PROVE Typing'
  OBVIOUS
<1>1. CASE Next
  BY <1>1, Steps, TypingStarts, TypingThread, TypingHandle, TypingMeasure, TypingPush,
     TypingCarry
<1>2. CASE UNCHANGED vars
  BY <1>2 DEF Typing, vars, board, link, copies, threads, history
<1>3. QED
  BY <1>1, <1>2

-----------------------------------------------------------------------------
(* The threads. *)

LEMMA ThreadsStep ==
  ASSUME Typing, Threads, Next
  PROVE  Threads'
<1>1. CASE Start
  BY <1>1, StartStep DEF Threads
<1>2. CASE Stop
  BY <1>2, StopStep DEF Threads
<1>3. CASE Starting
  BY <1>3, StartingStep DEF Threads
<1>4. CASE Launch
  BY <1>4, LaunchStep DEF Threads
<1>5. CASE Join
  BY <1>5, JoinStep DEF Threads
<1>6. CASE Thread
  <2>1. /\ UNCHANGED <<main, running>>
        /\ \/ rx = "top" /\ rx' = "loop"
           \/ rx = "top" /\ rx' = "off" /\ ~running
           \/ rx = "loop" /\ rx' = "move"
           \/ rx \in {"loop", "move"} /\ rx' = "top"
           \/ rx = "off" /\ rx' = "forbid"
           \/ rx = "forbid" /\ rx' = "reset"
           \/ rx = "reset" /\ rx' = "none"
    BY <1>6, ThreadStep
  <2>2. QED
    BY <2>1 DEF Threads
<1>7. CASE Handle
  BY <1>7 DEF Handle, threads, Threads
<1>8. CASE Measure
  BY <1>8, MeasureStep DEF threads, Threads
<1>9. CASE Push
  BY <1>9, PushStep DEF threads, Threads
<1>10. CASE Carry
  BY <1>10, CarryStep DEF threads, Threads
<1>11. QED
  BY <1>1, <1>2, <1>3, <1>4, <1>5, <1>6, <1>7, <1>8, <1>9, <1>10, Steps

-----------------------------------------------------------------------------
(* Before the thread starts, and when it has ended. *)

LEMMA NotOne ==
  ASSUME NEW n \in Nat, n # 1
  PROVE  n = 0 \/ (~(n <= 1) /\ 1 \in 1..(n - 1))
OBVIOUS

(* Where no request is left and nothing but packets is on its way, the     *)
(* answer to the only request made has been taken in.                      *)
LEMMA OnceAnswered ==
  ASSUME Typing, NEW op, Once(op), todo = <<>>, \A i \in 1..Len(coming) : coming[i].op = "push"
  PROVE  coming = <<>>
<1>1. Len(coming) \in Nat /\ (Len(coming) = 0 <=> coming = <<>>)
  BY Bare DEF Typing
<1>2. Len(coming) # 1
  <2>1. Len(<<op>>) # Len(<<>>)
    OBVIOUS
  <2>2. QED
    BY <2>1 DEF Once
<1>3. Len(coming) <= 1
  BY DEF Once
<1>4. Len(coming) = 0
  BY <1>1, <1>2, <1>3, NotOne
<1>5. QED
  BY <1>1, <1>4

LEMMA StartsBegins ==
  ASSUME Typing, Threads, Starts, Start
  PROVE  Starts'
<1>1. /\ main = "idle" /\ main' = "off" /\ delivered' = <<>> /\ todo' = todo \o <<"off">>
      /\ UNCHANGED <<flag, adc, coming, local>>
  BY StartStep DEF board, copies
<1>2. Still /\ Silent /\ todo = <<>>
  BY <1>1 DEF Starts
<1>3. todo' = <<"off">>
  BY <1>1, <1>2
<1>4. Still' /\ Silent'
  BY <1>1, <1>2 DEF Still, Silent
<1>5. QED
  BY <1>1, <1>3, <1>4 DEF Starts, Once, Silent

LEMMA StartsGoesOn ==
  ASSUME Typing, Threads, Starts, Starting
  PROVE  Starts'
<1>1. /\ todo = <<>> /\ \A i \in 1..Len(coming) : coming[i].op = "push"
      /\ \/ main = "off" /\ main' = "reset" /\ local' = local
         \/ main = "reset" /\ main' = "zero" /\ local' = local
         \/ main = "zero" /\ main' = "allow" /\ local' = local
         \/ main = "allow" /\ main' = "on" /\ local' = <<>>
      /\ todo' = <<main'>> /\ coming' = coming
      /\ UNCHANGED <<flag, adc, overflow, delivered>>
  BY StartingStep DEF board
<1>2. Still /\ local = <<>> /\ delivered = <<>> /\ Once(main)
  BY <1>1 DEF Starts
<1>3. coming' = <<>> /\ local' = <<>> /\ Still' /\ delivered' = <<>>
  BY <1>1, <1>2, OnceAnswered DEF Still
<1>4. main \in {"zero", "allow"} => overflow = 0
  BY <1>1 DEF Starts
<1>5. main' \in {"allow", "on"} => overflow' = 0
  BY <1>1, <1>4
<1>6. todo' # <<>>
  BY <1>1
<1>7. Once(main)'
  BY <1>1, <1>3 DEF Once
<1>8. QED
  BY <1>1, <1>3, <1>5, <1>6, <1>7 DEF Starts, Silent

LEMMA StartsThread ==
  ASSUME Typing, Threads, Starts, Receives, Thread
  PROVE  Starts'
<1>1. main' = main /\ main \in {"started", "join"} /\ rx # "none"
  BY ThreadStep DEF Threads
<1>2. ASSUME rx' = "none" PROVE Still' /\ Silent' /\ todo' = <<>>
  <2>1. /\ rx = "reset" /\ Answered /\ local' = <<>>
        /\ UNCHANGED <<flag, adc, coming, todo>>
    BY <1>1, <1>2, ThreadStep DEF board
  <2>2. todo = <<>> /\ \A i \in 1..Len(coming) : coming[i].op = "push"
    BY <2>1 DEF Answered
  <2>3. <<"reset">> # <<>>
    OBVIOUS
  <2>4. ~flag /\ adc = <<>> /\ (coming # <<>> => coming[Len(coming)].op = "ack")
    BY <2>1, <2>2, <2>3 DEF Receives
  <2>5. coming = <<>>
    <3>1. coming # <<>> => Len(coming) \in 1..Len(coming)
      BY Bare DEF Typing
    <3>2. QED
      BY <2>2, <2>4, <3>1
  <2>6. QED
    BY <2>1, <2>2, <2>4, <2>5 DEF Still, Silent
<1>3. QED
  BY <1>1, <1>2 DEF Starts

LEMMA StartsHandle ==
  ASSUME Typing, Threads, Starts, Handle, Running'
  PROVE  Starts'
<1>1. /\ coming # <<>> /\ coming' = Tail(coming)
      /\ Len(coming[1].samples) = IF coming[1].op = "push" THEN Packet ELSE 0
      /\ coming[1] \in Message(now)
      /\ local' = local \o coming[1].samples
      /\ UNCHANGED <<flag, adc, overflow, todo, main, rx, delivered>>
  BY HandleStep DEF board, threads, history
<1>2. /\ Len(coming) \in Nat \ {0} /\ Len(coming') = Len(coming) - 1
      /\ \A i \in 1..Len(coming') : coming'[i] = coming[i + 1]
      /\ coming' \in Seq(Message(now))
  BY <1>1, TailOf DEF Typing
<1>3. ~(main = "idle" \/ (main = "join" /\ rx = "none")) /\ ~(main = "on" /\ todo # <<>>)
  BY <1>1 DEF Starts, Silent
<1>4. ASSUME main \in {"off", "reset", "zero", "allow"}
      PROVE  Still' /\ local' = <<>> /\ delivered' = <<>> /\ Once(main)'
  <2>1. Still /\ local = <<>> /\ delivered = <<>> /\ Once(main)
    BY <1>4 DEF Starts
  <2>2. todo = <<>> /\ Len(coming) = 1 /\ coming[1].op = "ack"
    BY <1>1, <1>2, <2>1 DEF Once
  <2>3. coming' = <<>>
    BY <1>2, <2>2, Bare
  <2>4. Len(coming[1].samples) = 0 /\ coming[1].samples \in Seq(1..now)
    BY <1>1, <2>2 DEF Message
  <2>5. local' = <<>>
    <3>1. coming[1].samples = <<>>
      BY <2>4, Bare
    <3>2. QED
      BY <1>1, <2>1, <3>1
  <2>6. Once(main)'
    <3>1. Len(coming') = 0 /\ 1..Len(coming') = {}
      BY <2>3
    <3>2. todo' = <<>> /\ Len(coming') <= 1
      BY <1>1, <2>2, <3>1
    <3>3. \A i \in 1..Len(coming') : coming'[i].op = "ack"
      BY <3>1
    <3>4. QED
      BY <3>2, <3>3 DEF Once
  <2>7. QED
    BY <1>1, <2>1, <2>5, <2>6 DEF Still
<1>5. ASSUME main = "on", todo = <<>>
      PROVE  flag' /\ \A i \in 1..Len(coming') : coming'[i].op # "read"
  <2>1. flag /\ \A i \in 1..Len(coming) : coming[i].op # "read"
    BY <1>5 DEF Starts
  <2>2. ASSUME NEW i \in 1..Len(coming') PROVE coming'[i].op # "read"
    <3>1. i + 1 \in 1..Len(coming)
      BY <1>2
    <3>2. QED
      BY <1>2, <2>1, <3>1
  <2>3. QED
    BY <1>1, <2>1, <2>2, Zenon
<1>6. (main = "zero" /\ todo = <<>>) \/ main = "allow" => overflow' = 0
  BY <1>1 DEF Starts
<1>7. QED
  BY <1>1, <1>3, <1>4, <1>5, <1>6 DEF Starts

LEMMA StartsMeasure ==
  ASSUME Typing, Threads, Starts, Measure
  PROVE  Starts'
<1>1. flag /\ UNCHANGED <<flag, coming, todo, main, rx>>
  BY MeasureStep DEF link, threads
<1>2. /\ ~(main = "idle" \/ (main = "join" /\ rx = "none"))
      /\ main \notin {"off", "reset", "zero", "allow"}
      /\ ~(main = "on" /\ todo # <<>>)
  BY <1>1 DEF Starts, Still
<1>3. QED
  BY <1>1, <1>2 DEF Starts

LEMMA StartsPush ==
  ASSUME Typing, Threads, Starts, Push
  PROVE  Starts'
<1>1. /\ Len(adc) >= Packet /\ Packet \in Nat \ {0} /\ Len(adc) \in Nat
      /\ UNCHANGED <<flag, todo, main, rx>>
  BY PushStep DEF threads
<1>2. PICK m \in Message(now) : m.op = "push" /\ coming' = Append(coming, m)
  BY PushStep
<1>3. adc # <<>>
  <2>1. Len(<<>>) = 0
    OBVIOUS
  <2>2. QED
    BY <1>1, <2>1
<1>4. /\ ~(main = "idle" \/ (main = "join" /\ rx = "none"))
      /\ main \notin {"off", "reset", "zero", "allow"}
      /\ ~(main = "on" /\ todo # <<>>)
  BY <1>3 DEF Starts, Still
<1>5. ASSUME main = "on", todo = <<>>
      PROVE  flag /\ \A i \in 1..Len(coming') : coming'[i].op # "read"
  <2>1. flag /\ \A i \in 1..Len(coming) : coming[i].op # "read"
    BY <1>5 DEF Starts
  <2>2. /\ Len(coming') = Len(coming) + 1 /\ Len(coming) \in Nat
        /\ \A i \in 1..Len(coming) : coming'[i] = coming[i]
        /\ coming'[Len(coming) + 1] = m
    BY <1>2, Appended DEF Typing
  <2>3. \A i \in 1..Len(coming') : coming'[i].op # "read"
    BY <1>2, <2>1, <2>2
  <2>4. QED
    BY <2>1, <2>3
<1>6. QED
  BY <1>1, <1>4, <1>5 DEF Starts

(* Which requests there can be, by the phase.                              *)
LEMMA Carried ==
  ASSUME Typing, Threads, Starts, Receives, Carry
  PROVE  \/ /\ main \in {"off", "reset", "zero", "allow"} /\ rx = "none"
            /\ ~flag /\ todo = <<main>> /\ coming = <<>>
         \/ /\ main = "on" /\ rx = "none" /\ ~flag /\ Still /\ Silent
            /\ delivered = <<>> /\ overflow = 0 /\ todo = <<"on">>
         \/ /\ main \in {"started", "join"} /\ rx \in {"top", "loop", "move", "off"} /\ flag
            /\ Head(todo) \in {"allow", "read"}
         \/ main = "join" /\ rx = "off" /\ flag /\ todo = <<"off">>
         \/ main = "join" /\ rx = "forbid" /\ ~flag /\ todo = <<"forbid">>
         \/ main = "join" /\ rx = "reset" /\ ~flag /\ todo = <<"reset">>
<1>1. todo # <<>> /\ Head(todo) = todo[1] /\ Len(todo) \in Nat \ {0} /\ todo \in Seq(Ops)
  BY CarryStep, Bare DEF Typing
<1>2. ~(main = "idle" \/ (main = "join" /\ rx = "none"))
  BY <1>1 DEF Starts
<1>3. CASE main \in {"off", "reset", "zero", "allow"}
  <2>1. Still /\ Once(main) /\ rx = "none"
    BY <1>3 DEF Starts, Threads
  <2>2. QED
    BY <1>1, <1>3, <2>1 DEF Once, Still
<1>4. CASE main = "on"
  BY <1>1, <1>4 DEF Starts, Still, Threads
<1>5. CASE main \in {"started", "join"} /\ rx \in {"top", "loop", "move"}
  <2>1. 1 \in 1..Len(todo)
    BY <1>1
  <2>2. QED
    BY <1>1, <1>5, <2>1 DEF Receives
<1>6. CASE main \in {"started", "join"} /\ rx = "off"
  <2>1. /\ flag /\ todo[Len(todo)] = "off"
        /\ \A i \in 1..(Len(todo) - 1) : todo[i] \in {"allow", "read"}
    BY <1>1, <1>6 DEF Receives
  <2>2. CASE Len(todo) = 1
    <3>1. todo = <<"off">>
      BY <1>1, <2>1, <2>2
    <3>2. QED
      BY <1>6, <2>1, <3>1 DEF Threads
  <2>3. CASE Len(todo) # 1
    <3>1. 1 \in 1..(Len(todo) - 1)
      BY <1>1, <2>3, NotOne
    <3>2. QED
      BY <1>1, <1>6, <2>1, <3>1
  <2>4. QED
    BY <2>2, <2>3
<1>7. CASE main \in {"started", "join"} /\ rx \in {"forbid", "reset"}
  BY <1>1, <1>7 DEF Receives, Threads
<1>8. QED
  BY <1>2, <1>3, <1>4, <1>5, <1>6, <1>7 DEF Threads

LEMMA StartsCarry ==
  ASSUME Typing, Threads, Starts, Receives, Carry
  PROVE  Starts'
<1>1. /\ todo' = Tail(todo) /\ UNCHANGED <<local, main, rx, delivered>>
      /\ flag' = IF Head(todo) = "off" THEN FALSE ELSE IF Head(todo) = "on" THEN TRUE ELSE flag
      /\ adc' = IF Head(todo) = "reset" THEN <<>> ELSE adc
      /\ overflow' = IF Head(todo) = "zero" THEN 0 ELSE overflow
  BY CarryStep DEF copies, threads
<1>2. PICK m \in Message(now) :
        /\ m.op = IF Head(todo) = "read" THEN "read" ELSE "ack"
        /\ coming' = Append(coming, m)
  BY CarryStep
<1>3. CASE main \in {"off", "reset", "zero", "allow"} /\ todo = <<main>> /\ coming = <<>>
  <2>1. Head(todo) = main /\ todo' = <<>> /\ coming' = <<m>> /\ m.op = "ack"
    BY <1>1, <1>2, <1>3
  <2>2. Still /\ local = <<>> /\ delivered = <<>> /\ (main = "allow" => overflow = 0)
    BY <1>3 DEF Starts
  <2>3. Still'
    BY <1>1, <1>3, <2>1, <2>2 DEF Still
  <2>4. Once(main)'
    BY <2>1 DEF Once
  <2>5. main \in {"zero", "allow"} => overflow' = 0
    BY <1>1, <2>1, <2>2
  <2>6. QED
    BY <1>1, <1>3, <2>2, <2>3, <2>4, <2>5 DEF Starts
<1>4. CASE main = "on" /\ coming = <<>> /\ todo = <<"on">>
  <2>1. Head(todo) = "on" /\ todo' = <<>> /\ coming' = <<m>> /\ m.op = "ack"
    BY <1>1, <1>2, <1>4
  <2>2. flag' = TRUE
    BY <1>1, <2>1
  <2>3. \A i \in 1..Len(coming') : coming'[i].op # "read"
    BY <2>1
  <2>4. QED
    BY <1>1, <1>4, <2>1, <2>2, <2>3 DEF Starts
<1>5. CASE main \in {"started", "join"} /\ rx # "none"
  BY <1>1, <1>5 DEF Starts
<1>6. QED
  BY <1>3, <1>4, <1>5, Carried DEF Silent

LEMMA StartsStep ==
  ASSUME Typing, Threads, Starts, Receives, Next, Running'
  PROVE  Starts'
<1>1. CASE Stop
  <2>1. main = "started" /\ main' = "join" /\ rx' = rx
    BY <1>1, StopStep
  <2>2. rx # "none"
    BY <2>1 DEF Threads
  <2>3. QED
    BY <2>1, <2>2 DEF Starts
<1>2. CASE Launch
  BY <1>2, LaunchStep DEF Starts
<1>3. CASE Join
  <2>1. /\ main = "join" /\ rx = "none" /\ main' = "idle"
        /\ UNCHANGED <<flag, adc, coming, local, todo>>
    BY <1>3, JoinStep DEF board, link, copies
  <2>2. Still /\ Silent /\ todo = <<>>
    BY <2>1 DEF Starts
  <2>3. QED
    BY <2>1, <2>2 DEF Starts, Still, Silent
<1>4. QED
  BY <1>1, <1>2, <1>3, Steps, StartsBegins, StartsGoesOn, StartsThread, StartsHandle,
     StartsMeasure, StartsPush, StartsCarry

-----------------------------------------------------------------------------
(* While the thread lives. *)

LEMMA ReceivesThread ==
  ASSUME Typing, Threads, Receives, Thread
  PROVE  Receives'
<1>1. UNCHANGED <<flag, adc, coming>>
  BY ThreadStep DEF board
<1>2. CASE \/ rx = "top" /\ rx' = "loop" /\ todo' = todo
           \/ rx \in {"loop", "move"} /\ rx' = "top" /\ todo' = todo
  BY <1>1, <1>2 DEF Receives
<1>3. CASE rx = "top" /\ rx' = "off" /\ todo' = todo \o <<"read", "off">>
  <2>1. flag /\ todo \in Seq(Ops) /\ \A i \in 1..Len(todo) : todo[i] \in {"allow", "read"}
    BY <1>3 DEF Receives, Typing
  <2>2. <<"read", "off">> \in Seq(Ops) /\ Len(<<"read", "off">>) = 2
    BY DEF Ops
  <2>3. /\ Len(todo') = Len(todo) + 2 /\ Len(todo) \in Nat
        /\ \A i \in 1..Len(todo) : todo'[i] = todo[i]
        /\ todo'[Len(todo) + 1] = "read" /\ todo'[Len(todo) + 2] = "off"
    <3>1. \A i \in 1..2 : todo'[Len(todo) + i] = <<"read", "off">>[i]
      BY <1>3, <2>1, <2>2, Joined
    <3>2. QED
      BY <1>3, <2>1, <2>2, <3>1, Joined
  <2>4. ASSUME NEW i \in 1..(Len(todo') - 1) PROVE todo'[i] \in {"allow", "read"}
    <3>1. i \in 1..Len(todo) \/ i = Len(todo) + 1
      BY <2>3
    <3>2. QED
      BY <2>1, <2>3, <3>1
  <2>5. todo' # <<>> /\ todo'[Len(todo')] = "off"
    BY <2>3
  <2>6. flag'
    BY <1>1, <2>1
  <2>7. QED
    BY <1>3, <2>4, <2>5, <2>6 DEF Receives
<1>4. CASE rx = "loop" /\ rx' = "move" /\ todo' = todo \o <<"allow", "read">>
  <2>1. /\ flag' /\ todo \in Seq(Ops)
        /\ \A i \in 1..Len(todo) : todo[i] \in {"allow", "read"}
    BY <1>1, <1>4 DEF Receives, Typing
  <2>2. /\ <<"allow", "read">> \in Seq(Ops) /\ Len(<<"allow", "read">>) = 2
        /\ \A i \in 1..2 : <<"allow", "read">>[i] \in {"allow", "read"}
    BY DEF Ops
  <2>3. /\ Len(todo') = Len(todo) + 2 /\ Len(todo) \in Nat
        /\ \A i \in 1..Len(todo) : todo'[i] = todo[i]
        /\ \A i \in 1..2 : todo'[Len(todo) + i] = <<"allow", "read">>[i]
    BY <1>4, <2>1, <2>2, Joined
  <2>4. ASSUME NEW i \in 1..Len(todo') PROVE todo'[i] \in {"allow", "read"}
    <3>1. i \in 1..Len(todo) \/ (i - Len(todo) \in 1..2 /\ i = Len(todo) + (i - Len(todo)))
      BY <2>3
    <3>2. CASE i \in 1..Len(todo)
      BY <2>1, <2>3, <3>2
    <3>3. CASE i - Len(todo) \in 1..2 /\ i = Len(todo) + (i - Len(todo))
      <4> DEFINE k == i - Len(todo)
      <4>1. k \in 1..2 /\ todo'[i] = todo'[Len(todo) + k]
        BY <3>3
      <4> HIDE DEF k
      <4>2. QED
        BY <2>2, <2>3, <4>1
    <3>4. QED
      BY <3>1, <3>2, <3>3
  <2>5. QED
    BY <1>4, <2>1, <2>4 DEF Receives
<1>5. CASE rx = "off" /\ rx' = "forbid" /\ Answered /\ todo' = <<"forbid">>
  <2>1. todo = <<>> /\ \A i \in 1..Len(coming) : coming[i].op = "push"
    BY <1>5 DEF Answered
  <2>2. ~flag'
    BY <1>1, <1>5, <2>1 DEF Receives
  <2>3. \A i \in 1..Len(coming') : coming'[i].op # "read"
    BY <1>1, <2>1
  <2>4. QED
    BY <1>5, <2>2, <2>3 DEF Receives
<1>6. CASE rx = "forbid" /\ rx' = "reset" /\ todo' = <<"reset">>
  BY <1>1, <1>6 DEF Receives
<1>7. CASE rx = "reset" /\ rx' = "none"
  BY <1>7 DEF Receives
<1>8. QED
  BY <1>2, <1>3, <1>4, <1>5, <1>6, <1>7, ThreadStep

LEMMA ReceivesHandle ==
  ASSUME Typing, Receives, Handle, Running'
  PROVE  Receives'
<1>1. /\ coming # <<>> /\ coming' = Tail(coming)
      /\ UNCHANGED <<flag, adc, todo, rx>>
  BY HandleStep DEF board, threads
<1>2. /\ Len(coming) \in Nat \ {0} /\ Len(coming') = Len(coming) - 1
      /\ \A i \in 1..Len(coming') : coming'[i] = coming[i + 1]
      /\ coming' \in Seq(Message(now))
  BY <1>1, TailOf DEF Typing
<1>3. ASSUME rx = "forbid", NEW i \in 1..Len(coming') PROVE coming'[i].op # "read"
  <2>1. i + 1 \in 1..Len(coming)
    BY <1>2
  <2>2. QED
    BY <1>2, <1>3, <2>1 DEF Receives
<1>4. ASSUME coming' # <<>>, coming[Len(coming)].op = "ack" PROVE coming'[Len(coming')].op = "ack"
  <2>1. Len(coming') \in 1..Len(coming') /\ Len(coming') + 1 = Len(coming)
    BY <1>2, <1>4, Bare
  <2>2. QED
    BY <1>2, <1>4, <2>1
<1>5. QED
  BY <1>1, <1>3, <1>4 DEF Receives

LEMMA ReceivesMeasure ==
  ASSUME Typing, Receives, Measure
  PROVE  Receives'
<1>1. flag /\ UNCHANGED <<flag, coming, todo, rx>>
  BY MeasureStep DEF link, threads
<1>2. rx # "reset"
  BY <1>1 DEF Receives
<1>3. QED
  BY <1>1, <1>2 DEF Receives

LEMMA ReceivesPush ==
  ASSUME Typing, Receives, Push
  PROVE  Receives'
<1>1. /\ Len(adc) >= Packet /\ Packet \in Nat \ {0} /\ Len(adc) \in Nat
      /\ UNCHANGED <<flag, todo, rx>>
  BY PushStep DEF threads
<1>2. PICK m \in Message(now) : m.op = "push" /\ coming' = Append(coming, m)
  BY PushStep
<1>3. adc # <<>>
  <2>1. Len(<<>>) = 0
    OBVIOUS
  <2>2. QED
    BY <1>1, <2>1
<1>4. rx = "reset" => todo = <<"reset">>
  BY <1>3 DEF Receives
<1>5. ASSUME rx = "forbid" PROVE \A i \in 1..Len(coming') : coming'[i].op # "read"
  <2>1. \A i \in 1..Len(coming) : coming[i].op # "read"
    BY <1>5 DEF Receives
  <2>2. /\ Len(coming') = Len(coming) + 1 /\ Len(coming) \in Nat
        /\ \A i \in 1..Len(coming) : coming'[i] = coming[i]
        /\ coming'[Len(coming) + 1] = m
    BY <1>2, Appended DEF Typing
  <2>3. QED
    BY <1>2, <2>1, <2>2
<1>6. QED
  BY <1>1, <1>4, <1>5 DEF Receives

LEMMA ReceivesCarry ==
  ASSUME Typing, Threads, Starts, Receives, Carry
  PROVE  Receives'
<1>1. /\ todo # <<>> /\ todo \in Seq(Ops) /\ todo' = Tail(todo) /\ UNCHANGED rx
      /\ flag' = IF Head(todo) = "off" THEN FALSE ELSE IF Head(todo) = "on" THEN TRUE ELSE flag
      /\ adc' = IF Head(todo) = "reset" THEN <<>> ELSE adc
  BY CarryStep DEF Typing, threads
<1>2. PICK m \in Message(now) :
        /\ m.op = IF Head(todo) = "read" THEN "read" ELSE "ack"
        /\ coming' = Append(coming, m)
  BY CarryStep
<1>3. /\ Len(coming') = Len(coming) + 1 /\ Len(coming) \in Nat
      /\ \A i \in 1..Len(coming) : coming'[i] = coming[i]
      /\ coming'[Len(coming) + 1] = m
  BY <1>2, Appended DEF Typing
<1>4. /\ Len(todo) \in Nat \ {0} /\ Len(todo') = Len(todo) - 1
      /\ \A i \in 1..Len(todo') : todo'[i] = todo[i + 1]
      /\ todo' \in Seq(Ops)
  BY <1>1, TailOf
<1>5. CASE rx = "none"
  BY <1>1, <1>5 DEF Receives
<1>6. CASE rx \in {"top", "loop", "move"} /\ flag /\ Head(todo) \in {"allow", "read"}
  <2>1. flag'
    BY <1>1, <1>6
  <2>2. ASSUME NEW i \in 1..Len(todo') PROVE todo'[i] \in {"allow", "read"}
    <3>1. i + 1 \in 1..Len(todo)
      BY <1>4
    <3>2. QED
      BY <1>4, <1>6, <3>1 DEF Receives
  <2>3. QED
    BY <1>1, <1>6, <2>1, <2>2 DEF Receives
<1>7. CASE rx = "off" /\ flag /\ Head(todo) \in {"allow", "read"}
  <2>1. flag'
    BY <1>1, <1>7
  <2>2. /\ todo[Len(todo)] = "off"
        /\ \A i \in 1..(Len(todo) - 1) : todo[i] \in {"allow", "read"}
    BY <1>1, <1>7 DEF Receives
  <2>3. Len(todo) # 1
    <3>1. Head(todo) = todo[1]
      BY <1>1, TailOf
    <3>2. QED
      BY <1>7, <2>2, <3>1
  <2>4. Len(todo') \in 1..Len(todo') /\ Len(todo') # 0
    BY <1>4, <2>3, NotOne
  <2>5. todo' # <<>> /\ todo'[Len(todo')] = "off"
    <3>1. todo'[Len(todo')] = todo[Len(todo') + 1] /\ Len(todo') + 1 = Len(todo)
      BY <1>4, <2>4
    <3>2. todo' # <<>>
      BY <1>4, <2>4, Bare
    <3>3. QED
      BY <2>2, <3>1, <3>2
  <2>6. ASSUME NEW i \in 1..(Len(todo') - 1) PROVE todo'[i] \in {"allow", "read"}
    <3>1. i \in 1..Len(todo') /\ i + 1 \in 1..(Len(todo) - 1)
      BY <1>4
    <3>2. QED
      BY <1>4, <2>2, <3>1
  <2>7. QED
    BY <1>1, <1>7, <2>1, <2>5, <2>6 DEF Receives
<1>8. CASE rx = "off" /\ todo = <<"off">>
  <2>1. Head(todo) = "off" /\ todo' = <<>>
    BY <1>1, <1>8
  <2>2. ~flag'
    BY <1>1, <2>1
  <2>3. QED
    BY <1>1, <1>8, <2>1, <2>2 DEF Receives
<1>9. CASE rx = "forbid" /\ ~flag /\ todo = <<"forbid">>
  <2>1. Head(todo) = "forbid" /\ todo' = <<>>
    BY <1>1, <1>9
  <2>2. ~flag' /\ m.op = "ack"
    BY <1>1, <1>2, <1>9, <2>1
  <2>3. \A i \in 1..Len(coming) : coming[i].op # "read"
    BY <1>9 DEF Receives
  <2>4. \A i \in 1..Len(coming') : coming'[i].op # "read"
    BY <1>3, <2>2, <2>3
  <2>5. QED
    BY <1>1, <1>9, <2>1, <2>2, <2>4 DEF Receives
<1>10. CASE rx = "reset" /\ ~flag /\ todo = <<"reset">>
  <2>1. Head(todo) = "reset" /\ todo' = <<>>
    BY <1>1, <1>10
  <2>2. ~flag' /\ m.op = "ack" /\ adc' = <<>>
    BY <1>1, <1>2, <1>10, <2>1
  <2>3. coming'[Len(coming')].op = "ack"
    BY <1>3, <2>2
  <2>4. QED
    BY <1>1, <1>10, <2>1, <2>2, <2>3 DEF Receives
<1>11. QED
  BY <1>5, <1>6, <1>7, <1>8, <1>9, <1>10, Carried

LEMMA ReceivesStep ==
  ASSUME Typing, Threads, Starts, Receives, Next, Running'
  PROVE  Receives'
<1>1. CASE Start
  <2>1. rx = "none" /\ rx' = rx
    BY <1>1, StartStep DEF Threads
  <2>2. QED
    BY <2>1 DEF Receives
<1>2. CASE Starting
  <2>1. rx = "none" /\ rx' = rx
    BY <1>2, StartingStep DEF Threads
  <2>2. QED
    BY <2>1 DEF Receives
<1>3. CASE Launch
  <2>1. rx' = "top" /\ todo' = <<>> /\ flag' = flag /\ main = "on" /\ todo = <<>>
    BY <1>3, LaunchStep DEF board, link
  <2>2. flag'
    BY <2>1 DEF Starts
  <2>3. QED
    BY <2>1, <2>2 DEF Receives
<1>4. CASE Stop
  BY <1>4, StopStep DEF Receives, board, link
<1>5. CASE Join
  BY <1>5, JoinStep DEF Receives, board, link
<1>6. QED
  BY <1>1, <1>2, <1>3, <1>4, <1>5, Steps, ReceivesThread, ReceivesHandle,
     ReceivesMeasure, ReceivesPush, ReceivesCarry

-----------------------------------------------------------------------------
(* Every period is accounted for. *)

LEMMA Sizes ==
  ASSUME Typing
  PROVE  /\ Len(delivered) \in Nat /\ Len(local) \in Nat /\ Len(adc) \in Nat
         /\ Len(coming) \in Nat /\ Count(coming, Len(coming)) \in Nat
         /\ Packet * Count(coming, Len(coming)) \in Nat /\ Packet \in Nat \ {0}
         /\ overflow \in Nat /\ now \in Nat /\ first \in Nat
<1>1. /\ Len(delivered) \in Nat /\ Len(local) \in Nat /\ Len(adc) \in Nat
      /\ Len(coming) \in Nat /\ overflow \in Nat /\ now \in Nat /\ first \in Nat
  BY DEF Typing
<1>2. Count(coming, Len(coming)) \in Nat
  BY <1>1, CountType
<1>3. QED
  BY <1>1, <1>2, PacketsAdd

(* Taking in a message moves its samples from the way to the fifo.         *)
LEMMA Taken ==
  ASSUME Typing, Handle, Running'
  PROVE  /\ Len(local') = Len(local) + Len(coming[1].samples)
         /\ Packet * Count(coming, Len(coming)) =
              Packet * Count(coming', Len(coming')) + Len(coming[1].samples)
<1>1. /\ coming # <<>> /\ coming' = Tail(coming) /\ coming \in Seq(Message(now))
      /\ coming[1] \in Message(now)
      /\ Len(coming[1].samples) = IF coming[1].op = "push" THEN Packet ELSE 0
      /\ local' = local \o coming[1].samples
  BY HandleStep DEF Typing
<1>2. Len(coming) \in Nat \ {0} /\ Len(coming') = Len(coming) - 1
  BY <1>1, TailOf
<1>3. Count(coming, Len(coming)) =
        Count(coming', Len(coming')) + (IF coming[1].op = "push" THEN 1 ELSE 0)
  <2>1. Len(coming') \in 0..(Len(coming) - 1) /\ Len(coming') + 1 = Len(coming)
    BY <1>2
  <2>2. QED
    BY <1>1, <2>1, CountTail
<1>4. Count(coming', Len(coming')) \in Nat
  <2>1. Len(coming') \in Nat
    BY <1>2
  <2>2. QED
    BY <2>1, CountType
<1>5. Len(local') = Len(local) + Len(coming[1].samples)
  <2>1. coming[1].samples \in Seq(1..now) /\ local \in Seq(1..now)
    BY <1>1 DEF Message, Typing
  <2>2. QED
    BY <1>1, <2>1, Joined, ZenonT(40)
<1>6. CASE coming[1].op = "push"
  BY <1>1, <1>3, <1>4, <1>5, <1>6, PacketsAdd
<1>7. CASE coming[1].op # "push"
  <2>1. Count(coming, Len(coming)) = Count(coming', Len(coming'))
    BY <1>3, <1>4, <1>7
  <2>2. Len(coming[1].samples) = 0 /\ Packet * Count(coming', Len(coming')) \in Nat
    BY <1>1, <1>4, <1>7, PacketsAdd
  <2>3. QED
    BY <1>5, <2>1, <2>2
<1>8. QED
  BY <1>6, <1>7

LEMMA BalanceHandle ==
  ASSUME Typing, Balance, Handle, Running'
  PROVE  Balance'
<1>1. UNCHANGED <<flag, adc, overflow, now, first, delivered>>
  BY HandleStep DEF board, history
<1>2. /\ Len(local') = Len(local) + Len(coming[1].samples)
      /\ Packet * Count(coming, Len(coming)) =
           Packet * Count(coming', Len(coming')) + Len(coming[1].samples)
  BY Taken
<1>3. /\ Len(coming[1].samples) \in Nat
      /\ Packet * Count(coming', Len(coming')) \in Nat
  <2>1. Typing'
    BY TypingHandle
  <2>2. Packet * Count(coming', Len(coming')) \in Nat
    <3>1. Len(coming') \in Nat
      BY <2>1 DEF Typing
    <3>2. QED
      BY <3>1, CountType, PacketsAdd
  <2>3. Len(coming[1].samples) = IF coming[1].op = "push" THEN Packet ELSE 0
    BY HandleStep
  <2>4. QED
    BY <2>2, <2>3, Sizes
<1>4. ASSUME flag
      PROVE  now - first = Len(delivered) + Len(local') + Packet * Count(coming', Len(coming'))
                             + Len(adc) + overflow
  <2>1. now - first = Len(delivered) + Len(local) + Packet * Count(coming, Len(coming))
                        + Len(adc) + overflow
    BY <1>4 DEF Balance
  <2>2. Len(local') \in Nat
    BY <1>2, <1>3, Sizes, SMTT(30)
  <2> DEFINE p == Packet * Count(coming, Len(coming))
             r == Packet * Count(coming', Len(coming'))
             d == Len(delivered)
             l == Len(local)
             m == Len(local')
             a == Len(adc)
             s == Len(coming[1].samples)
  <2>3. /\ now - first = d + l + p + a + overflow /\ m = l + s /\ p = r + s
        /\ d \in Nat /\ l \in Nat /\ p \in Nat /\ a \in Nat /\ overflow \in Nat
        /\ s \in Nat /\ m \in Nat /\ r \in Nat
    BY <1>2, <1>3, <2>1, <2>2, Sizes
  <2> HIDE DEF p, r, d, l, m, a, s
  <2>4. now - first = d + m + r + a + overflow
    BY <2>3
  <2>5. QED
    BY <2>4 DEF p, r, d, l, m, a, s
<1>5. QED
  BY <1>1, <1>4 DEF Balance

LEMMA BalanceMeasure ==
  ASSUME Typing, Balance, Measure
  PROVE  Balance'
<1>1. /\ flag /\ now' = now + 1
      /\ \/ overflow' = overflow + 1 /\ adc' = adc
         \/ adc' = Append(adc, now + 1) /\ overflow' = overflow
      /\ UNCHANGED <<flag, coming, local, first, delivered>>
  BY MeasureStep DEF link, copies
<1>2. Len(Append(adc, now + 1)) = Len(adc) + 1
  BY DEF Typing
<1>3. now - first = Len(delivered) + Len(local) + Packet * Count(coming, Len(coming))
                      + Len(adc) + overflow
  BY <1>1 DEF Balance
<1> DEFINE p == Packet * Count(coming, Len(coming))
           d == Len(delivered)
           l == Len(local)
           a == Len(adc)
<1>4. /\ now - first = d + l + p + a + overflow
      /\ d \in Nat /\ l \in Nat /\ p \in Nat /\ a \in Nat /\ overflow \in Nat
      /\ now \in Nat /\ first \in Nat
  BY <1>3, Sizes
<1> HIDE DEF p, d, l, a
<1>5. /\ (now + 1) - first = d + l + p + (a + 1) + overflow
      /\ (now + 1) - first = d + l + p + a + (overflow + 1)
  BY <1>4
<1>6. now' - first' = Len(delivered') + Len(local') + Packet * Count(coming', Len(coming'))
                        + Len(adc') + overflow'
  <2>1. CASE overflow' = overflow + 1 /\ adc' = adc
    BY <1>1, <1>5, <2>1 DEF p, d, l, a
  <2>2. CASE adc' = Append(adc, now + 1) /\ overflow' = overflow
    BY <1>1, <1>2, <1>5, <2>2 DEF p, d, l, a
  <2>3. QED
    BY <1>1, <2>1, <2>2
<1>7. QED
  BY <1>6 DEF Balance

LEMMA BalancePush ==
  ASSUME Typing, Balance, Push
  PROVE  Balance'
<1>1. /\ UNCHANGED <<flag, overflow, now, first, local, delivered>>
      /\ Len(adc') = Len(adc) - Packet
  BY PushStep DEF copies
<1>2. PICK m \in Message(now) : m.op = "push" /\ coming' = Append(coming, m)
  BY PushStep
<1>3. Len(coming') = Len(coming) + 1
  BY <1>2, Appended DEF Typing
<1>4. Count(coming', Len(coming')) = Count(coming, Len(coming)) + 1
  BY <1>2, <1>3, CountAppend DEF Typing
<1>5. Packet * Count(coming', Len(coming')) = Packet * Count(coming, Len(coming)) + Packet
  BY <1>4, Sizes, PacketsAdd
<1> DEFINE p == Packet * Count(coming, Len(coming))
           r == Packet * Count(coming', Len(coming'))
           a == Len(adc)
           b == Len(adc')
<1>6. ASSUME flag PROVE now - first = Len(delivered) + Len(local) + r + b + overflow
  <2>1. /\ now - first = Len(delivered) + Len(local) + p + a + overflow
        /\ r = p + Packet /\ b = a - Packet /\ p \in Nat /\ a \in Nat /\ Packet \in Nat
    BY <1>1, <1>5, <1>6, Sizes DEF Balance
  <2> HIDE DEF p, r, a, b
  <2>2. r + b = p + a /\ r \in Nat /\ b \in Int
    BY <2>1
  <2>3. QED
    BY <2>1, <2>2, Sizes
<1>7. QED
  BY <1>1, <1>6 DEF Balance

LEMMA BalanceCarry ==
  ASSUME Typing, Threads, Starts, Receives, Balance, Carry
  PROVE  Balance'
<1>1. /\ flag' = IF Head(todo) = "off" THEN FALSE ELSE IF Head(todo) = "on" THEN TRUE ELSE flag
      /\ adc' = IF Head(todo) = "reset" THEN <<>> ELSE adc
      /\ overflow' = IF Head(todo) = "zero" THEN 0 ELSE overflow
      /\ first' = IF Head(todo) = "on" THEN now ELSE first
      /\ UNCHANGED <<local, delivered, now>>
  BY CarryStep DEF copies
<1>2. PICK m \in Message(now) : m.op # "push" /\ coming' = Append(coming, m)
  BY CarryStep
<1>3. Count(coming', Len(coming')) = Count(coming, Len(coming))
  <2>1. Len(coming') = Len(coming) + 1
    BY <1>2, Appended DEF Typing
  <2>2. Count(coming', Len(coming')) = Count(coming, Len(coming)) + 0
    BY <1>2, <2>1, CountAppend DEF Typing
  <2>3. QED
    BY <2>2, Sizes
<1>4. CASE flag /\ Head(todo) \in {"allow", "read"}
  <2>1. UNCHANGED <<flag, adc, overflow, first>>
    BY <1>1, <1>4
  <2>2. QED
    BY <1>1, <1>3, <2>1 DEF Balance
<1>5. CASE /\ Still /\ Silent /\ delivered = <<>> /\ overflow = 0 /\ todo = <<"on">>
  <2>1. Head(todo) = "on"
    BY <1>5
  <2>2. first' = now' /\ UNCHANGED <<adc, overflow>> /\ now' \in Nat
    BY <1>1, <2>1, Sizes
  <2>3. Len(adc') = 0 /\ Len(local') = 0 /\ Len(delivered') = 0
    BY <1>1, <1>5, <2>2 DEF Still, Silent
  <2>4. Count(coming', Len(coming')) = 0
    <3>1. coming = <<>> /\ Len(coming) = 0
      BY <1>5 DEF Silent
    <3>2. QED
      BY <1>3, <3>1, CountNone
  <2>5. overflow' = 0
    BY <1>5, <2>2
  <2>6. QED
    BY <2>2, <2>3, <2>4, <2>5, PacketsAdd DEF Balance
<1>6. CASE (~flag /\ Head(todo) # "on") \/ Head(todo) = "off"
  <2>1. ~flag'
    BY <1>1, <1>6
  <2>2. QED
    BY <2>1 DEF Balance
<1>7. \A op \in Ops : todo = <<op>> => Head(todo) = op
  OBVIOUS
<1>8. "off" \in Ops /\ "forbid" \in Ops /\ "reset" \in Ops /\ "zero" \in Ops /\ "allow" \in Ops
  BY DEF Ops
<1>9. QED
  BY <1>4, <1>5, <1>6, <1>7, <1>8, Carried

LEMMA BalanceThread ==
  ASSUME Typing, Threads, Receives, Balance, Thread
  PROVE  Balance'
<1>1. UNCHANGED <<flag, adc, overflow, coming, now, first>>
  BY ThreadStep DEF board
<1>2. CASE UNCHANGED <<local, delivered>>
  BY <1>1, <1>2 DEF Balance
<1>3. CASE delivered' = delivered \o local /\ local' = <<>>
  <2>1. Len(delivered') = Len(delivered) + Len(local) /\ Len(local') = 0
    BY <1>3, Joined DEF Typing
  <2>2. QED
    BY <1>1, <2>1, Sizes DEF Balance
<1>4. CASE rx = "reset"
  <2>1. ~flag'
    BY <1>1, <1>4 DEF Receives
  <2>2. QED
    BY <2>1 DEF Balance
<1>5. QED
  BY <1>2, <1>3, <1>4, ThreadStep

LEMMA BalanceStep ==
  ASSUME Typing, Threads, Starts, Receives, Balance, Next, Running'
  PROVE  Balance'
<1>1. CASE Start
  <2>1. main = "idle" /\ flag' = flag
    BY <1>1, StartStep DEF board
  <2>2. ~flag'
    BY <2>1 DEF Starts, Still
  <2>3. QED
    BY <2>2 DEF Balance
<1>2. CASE Starting
  <2>1. main \in {"off", "reset", "zero", "allow"} /\ flag' = flag
    BY <1>2, StartingStep DEF board
  <2>2. ~flag'
    BY <2>1 DEF Starts, Still
  <2>3. QED
    BY <2>2 DEF Balance
<1>3. CASE Launch
  BY <1>3, LaunchStep DEF Balance, board, link, copies, history
<1>4. CASE Stop
  BY <1>4, StopStep DEF Balance, board, link, copies
<1>5. CASE Join
  BY <1>5, JoinStep DEF Balance, board, link, copies
<1>6. QED
  BY <1>1, <1>2, <1>3, <1>4, <1>5, Steps, BalanceThread, BalanceHandle,
     BalanceMeasure, BalancePush, BalanceCarry

-----------------------------------------------------------------------------
(* The samples are numbered. *)

LEMMA TakenAt ==
  ASSUME Typing, Handle, Running', NEW i \in 1..Len(coming')
  PROVE  /\ i - 1 \in Nat /\ Count(coming', i - 1) \in Nat
         /\ Packet * Count(coming, i) =
              Packet * Count(coming', i - 1) + Len(coming[1].samples)
<1>1. /\ coming # <<>> /\ coming' = Tail(coming) /\ coming \in Seq(Message(now))
      /\ Len(coming[1].samples) = IF coming[1].op = "push" THEN Packet ELSE 0
  BY HandleStep DEF Typing
<1>2. Len(coming) \in Nat \ {0} /\ Len(coming') = Len(coming) - 1
  BY <1>1, TailOf
<1>3. i - 1 \in Nat /\ Count(coming', i - 1) \in Nat
  <2>1. i - 1 \in Nat
    BY <1>2
  <2>2. QED
    BY <2>1, CountType
<1>4. Count(coming, i) = Count(coming', i - 1) + (IF coming[1].op = "push" THEN 1 ELSE 0)
  <2>1. i - 1 \in 0..(Len(coming) - 1) /\ (i - 1) + 1 = i
    BY <1>2
  <2>2. Count(coming, (i - 1) + 1) =
          Count(Tail(coming), i - 1) + (IF coming[1].op = "push" THEN 1 ELSE 0)
    BY <1>1, <2>1, CountTail
  <2>3. QED
    BY <1>1, <2>1, <2>2
<1>5. CASE coming[1].op = "push"
  BY <1>1, <1>3, <1>4, <1>5, PacketsAdd
<1>6. CASE coming[1].op # "push"
  <2>1. Count(coming, i) = Count(coming', i - 1)
    BY <1>3, <1>4, <1>6
  <2>2. Len(coming[1].samples) = 0 /\ Packet * Count(coming', i - 1) \in Nat
    BY <1>1, <1>3, <1>6, PacketsAdd
  <2>3. QED
    BY <1>3, <2>1, <2>2
<1>7. QED
  BY <1>5, <1>6

LEMMA ReceivedHandle ==
  ASSUME Typing, Received, Sent, Handle, Running'
  PROVE  Received'
<1>1. /\ coming # <<>> /\ coming[1] \in Message(now)
      /\ Len(coming[1].samples) = IF coming[1].op = "push" THEN Packet ELSE 0
      /\ local' = local \o coming[1].samples
      /\ first' = first /\ delivered' = delivered
  BY HandleStep DEF history
<1>2. coming[1].samples \in Seq(1..now) /\ local \in Seq(1..now)
  BY <1>1 DEF Message, Typing
<1>3. /\ Len(local') = Len(local) + Len(coming[1].samples)
      /\ \A i \in 1..Len(local) : local'[i] = local[i]
      /\ \A i \in 1..Len(coming[1].samples) : local'[Len(local) + i] = coming[1].samples[i]
  <2> DEFINE s == coming[1].samples
  <2>1. s \in Seq(1..now) /\ local \in Seq(1..now) /\ local' = local \o s
    BY <1>1, <1>2
  <2> HIDE DEF s
  <2>2. /\ Len(local') = Len(local) + Len(s)
        /\ \A i \in 1..Len(local) : local'[i] = local[i]
        /\ \A i \in 1..Len(s) : local'[Len(local) + i] = s[i]
    BY <2>1, Joined
  <2>3. QED
    BY <2>2 DEF s
<1>4. \A i \in 1..Len(local) : local[i] = first + Len(delivered) + i
  BY DEF Received
<1>5. ASSUME NEW k \in 1..Len(coming[1].samples)
      PROVE  local'[Len(local) + k] = first + Len(delivered) + (Len(local) + k)
  <2>1. coming[1].op = "push" /\ k \in 1..Packet
    BY <1>1, Sizes
  <2>2. 1 \in 1..Len(coming)
    BY <1>1, Sizes, Bare DEF Typing
  <2>3. coming[1].samples[k] =
          first + Len(delivered) + Len(local) + Packet * Count(coming, 1 - 1) + k
    BY <2>1, <2>2 DEF Sent
  <2>4. 1 - 1 = 0 /\ Count(coming, 0) = 0
    BY CountNone
  <2>5. Packet * Count(coming, 1 - 1) = 0
    BY <2>4, PacketsAdd, Sizes
  <2>6. coming[1].samples[k] = first + Len(delivered) + Len(local) + 0 + k
    BY <2>3, <2>5
  <2>7. QED
    BY <1>3, <2>1, <2>6, Sizes, SMTT(30)
<1>6. ASSUME NEW i \in 1..Len(local') PROVE local'[i] = first + Len(delivered) + i
  <2>1. CASE i \in 1..Len(local)
    BY <1>3, <1>4, <2>1
  <2>2. CASE i \notin 1..Len(local)
    <3>1. Len(coming[1].samples) \in Nat /\ Len(local) \in Nat
      BY <1>2
    <3>2. i - Len(local) \in 1..Len(coming[1].samples) /\ Len(local) + (i - Len(local)) = i
      BY <1>3, <2>2, <3>1
    <3>3. QED
      BY <1>5, <3>2
  <2>3. QED
    BY <2>1, <2>2
<1>7. QED
  BY <1>1, <1>6 DEF Received

LEMMA SentHandle ==
  ASSUME Typing, Sent, Handle, Running'
  PROVE  Sent'
<1>1. /\ coming # <<>> /\ coming' = Tail(coming) /\ coming \in Seq(Message(now))
      /\ Len(coming[1].samples) = IF coming[1].op = "push" THEN Packet ELSE 0
      /\ first' = first /\ delivered' = delivered
  BY HandleStep DEF Typing, history
<1>2. /\ Len(coming) \in Nat \ {0} /\ Len(coming') = Len(coming) - 1
      /\ \A i \in 1..Len(coming') : coming'[i] = coming[i + 1]
  BY <1>1, TailOf
<1>3. ASSUME NEW i \in 1..Len(coming'), coming'[i].op = "push", NEW k \in 1..Packet
      PROVE  coming'[i].samples[k] =
               first + Len(delivered) + Len(local') + Packet * Count(coming', i - 1) + k
  <2>1. i + 1 \in 1..Len(coming) /\ (i + 1) - 1 = i /\ coming'[i] = coming[i + 1]
    BY <1>2
  <2>2. coming[i + 1].samples[k] =
          first + Len(delivered) + Len(local) + Packet * Count(coming, (i + 1) - 1) + k
    BY <1>3, <2>1 DEF Sent
  <2>3. coming'[i].samples[k] =
          first + Len(delivered) + Len(local) + Packet * Count(coming, i) + k
    BY <2>1, <2>2
  <2> DEFINE p == Packet * Count(coming, i)
             r == Packet * Count(coming', i - 1)
             d == Len(delivered)
             l == Len(local)
             m == Len(local')
             s == Len(coming[1].samples)
             x == coming'[i].samples[k]
  <2>4. Count(coming', i - 1) \in Nat
    BY TakenAt
  <2>5. r \in Nat
    BY <2>4, PacketsAdd
  <2>6. s \in Nat /\ d \in Nat /\ l \in Nat /\ first \in Nat /\ k \in Nat
    BY <1>1, Sizes
  <2>7. x = first + d + l + p + k /\ m = l + s /\ p = r + s
    BY <2>3, Taken, TakenAt
  <2> HIDE DEF p, r, d, l, m, s, x
  <2>8. x = first + d + m + r + k
    BY <2>5, <2>6, <2>7
  <2>9. QED
    BY <2>8 DEF r, d, m, x
<1>4. QED
  BY <1>1, <1>3 DEF Sent

LEMMA InOrderHandle ==
  ASSUME Typing, InOrder, Handle, Running'
  PROVE  InOrder'
<1>1. UNCHANGED <<flag, adc, overflow, now, first, delivered>>
  BY HandleStep DEF board, history
<1>2. ASSUME flag, overflow = 0 PROVE Gapless' /\ Received' /\ Sent' /\ Waiting'
  <2>1. Gapless /\ Received /\ Sent /\ Waiting
    BY <1>2 DEF InOrder
  <2>2. Received' /\ Sent'
    BY <2>1, ReceivedHandle, SentHandle
  <2>3. QED
    BY <1>1, <2>1, <2>2 DEF Gapless, Waiting
<1>3. QED
  BY <1>1, <1>2 DEF InOrder

LEMMA InOrderMeasure ==
  ASSUME Typing, InOrder, Measure
  PROVE  InOrder'
<1>1. /\ now' = now + 1
      /\ \/ overflow' = overflow + 1 /\ adc' = adc
         \/ adc' = Append(adc, now + 1) /\ overflow' = overflow
      /\ UNCHANGED <<flag, coming, local, first, delivered>>
  BY MeasureStep DEF link, copies
<1>2. ASSUME flag, overflow' = 0 PROVE Gapless' /\ Received' /\ Sent' /\ Waiting'
  <2>1. overflow + 1 # 0
    BY Sizes
  <2>2. overflow = 0 /\ adc' = Append(adc, now + 1)
    BY <1>1, <1>2, <2>1
  <2>3. Gapless /\ Received /\ Sent /\ Waiting
    BY <1>2, <2>2 DEF InOrder
  <2>4. Waiting'
    <3>1. /\ Len(adc') = Len(adc) + 1 /\ adc'[Len(adc) + 1] = now + 1
          /\ \A i \in 1..Len(adc) : adc'[i] = adc[i]
      BY <2>2 DEF Typing
    <3>2. \A i \in 1..Len(adc) : adc[i] = now - Len(adc) + i
      BY <2>3 DEF Waiting
    <3>3. ASSUME NEW i \in 1..Len(adc') PROVE adc'[i] = now' - Len(adc') + i
      <4>1. i \in 1..Len(adc) \/ i = Len(adc) + 1
        BY <3>1, Sizes, SMTT(30)
      <4>2. CASE i \in 1..Len(adc)
        BY <1>1, <3>1, <3>2, <4>2, Sizes, SMTT(30)
      <4>3. CASE i = Len(adc) + 1
        BY <1>1, <3>1, <4>3, Sizes
      <4>4. QED
        BY <4>1, <4>2, <4>3
    <3>4. QED
      BY <3>3 DEF Waiting
  <2>5. QED
    BY <1>1, <2>3, <2>4 DEF Gapless, Received, Sent
<1>3. QED
  BY <1>1, <1>2 DEF InOrder

LEMMA InOrderPush ==
  ASSUME Typing, Balance, InOrder, Push
  PROVE  InOrder'
<1>1. /\ UNCHANGED <<flag, overflow, now, first, local, delivered>>
      /\ Len(adc) >= Packet /\ Len(adc') = Len(adc) - Packet
      /\ adc' = SubSeq(adc, Packet + 1, Len(adc))
  BY PushStep DEF copies
<1>2. PICK m \in Message(now) : /\ m.op = "push" /\ m.samples = SubSeq(adc, 1, Packet)
                                /\ coming' = Append(coming, m)
  BY PushStep
<1>3. /\ \A k \in 1..Packet : m.samples[k] = adc[k]
      /\ \A i \in 1..Len(adc') : adc'[i] = adc[Packet + i]
  <2>1. adc \in Seq(1..now) /\ Packet \in Nat /\ Packet <= Len(adc)
    BY <1>1, Sizes DEF Typing
  <2>2. /\ \A i \in 1..Packet : SubSeq(adc, 1, Packet)[i] = adc[i]
        /\ \A i \in 1..(Len(adc) - Packet) :
             SubSeq(adc, Packet + 1, Len(adc))[i] = adc[Packet + i]
    BY <2>1, Cut
  <2>3. QED
    BY <1>1, <1>2, <2>2
<1>4. /\ Len(coming') = Len(coming) + 1
      /\ \A i \in 1..Len(coming) : coming'[i] = coming[i]
      /\ coming'[Len(coming) + 1] = m
  BY <1>2, Appended DEF Typing
<1>5. \A i \in 0..Len(coming) : Count(coming', i) = Count(coming, i)
  BY <1>2, CountAppend DEF Typing
<1>6. ASSUME flag, overflow = 0 PROVE Gapless' /\ Received' /\ Sent' /\ Waiting'
  <2>1. Gapless /\ Received /\ Sent /\ Waiting
    BY <1>6 DEF InOrder
  <2>2. now - first = Len(delivered) + Len(local) + Packet * Count(coming, Len(coming))
                        + Len(adc)
    BY <1>6, Sizes DEF Balance
  <2>3. Waiting'
    <3>1. ASSUME NEW i \in 1..Len(adc') PROVE adc'[i] = now' - Len(adc') + i
      <4>1. Packet + i \in 1..Len(adc) /\ adc'[i] = adc[Packet + i]
        <5>1. /\ i \in Nat /\ 1 <= i /\ i <= Len(adc) - Packet
              /\ Len(adc) \in Nat /\ Packet \in Nat
          BY <1>1, Sizes
        <5>2. Packet + i \in 1..Len(adc)
          BY <5>1
        <5>3. QED
          BY <1>3, <5>2
      <4>2. adc[Packet + i] = now - Len(adc) + (Packet + i)
        BY <2>1, <4>1 DEF Waiting
      <4>3. QED
        BY <1>1, <4>1, <4>2, Sizes, SMTT(30)
    <3>2. QED
      BY <3>1 DEF Waiting
  <2>4. ASSUME NEW i \in 1..Len(coming'), coming'[i].op = "push", NEW k \in 1..Packet
        PROVE  coming'[i].samples[k] =
                 first + Len(delivered) + Len(local) + Packet * Count(coming', i - 1) + k
    <3>1. i - 1 \in 0..Len(coming) /\ (i \in 1..Len(coming) \/ i = Len(coming) + 1)
      BY <1>4, Sizes, SMTT(30)
    <3>2. Count(coming', i - 1) = Count(coming, i - 1)
      BY <1>5, <3>1
    <3>3. CASE i \in 1..Len(coming)
      <4>1. coming[i].samples[k] =
              first + Len(delivered) + Len(local) + Packet * Count(coming, i - 1) + k
        BY <1>4, <2>1, <2>4, <3>3 DEF Sent
      <4>2. QED
        BY <1>4, <3>2, <3>3, <4>1
    <3>4. CASE i = Len(coming) + 1
      <4>1. i - 1 = Len(coming)
        BY <3>4, Sizes
      <4>2. coming'[i].samples[k] = adc[k] /\ k \in 1..Len(adc)
        <5>1. coming'[i] = m /\ m.samples[k] = adc[k]
          BY <1>3, <1>4, <3>4
        <5>2. k \in 1..Len(adc)
          BY <1>1, Sizes
        <5>3. QED
          BY <5>1, <5>2
      <4>3. adc[k] = now - Len(adc) + k
        BY <2>1, <4>2 DEF Waiting
      <4> DEFINE p == Packet * Count(coming, Len(coming))
                 a == Len(adc)
                 d == Len(delivered)
                 l == Len(local)
      <4>4. Packet * Count(coming', i - 1) = p
        BY <3>2, <4>1
      <4>5. /\ now - first = d + l + p + a /\ adc[k] = now - a + k /\ k \in Nat
            /\ p \in Nat /\ d \in Nat /\ l \in Nat /\ a \in Nat
            /\ now \in Nat /\ first \in Nat
        BY <2>2, <4>3, Sizes
      <4> HIDE DEF p, a, d, l
      <4>6. adc[k] = first + d + l + p + k
        BY <4>5
      <4>7. QED
        BY <4>2, <4>4, <4>6 DEF d, l
    <3>5. QED
      BY <3>1, <3>3, <3>4
  <2>5. Sent'
    BY <1>1, <2>4 DEF Sent
  <2>6. QED
    BY <1>1, <2>1, <2>3, <2>5 DEF Gapless, Received
<1>7. QED
  BY <1>1, <1>6 DEF InOrder

LEMMA InOrderCarry ==
  ASSUME Typing, Threads, Starts, Receives, InOrder, Carry
  PROVE  InOrder'
<1>1. /\ flag' = IF Head(todo) = "off" THEN FALSE ELSE IF Head(todo) = "on" THEN TRUE ELSE flag
      /\ adc' = IF Head(todo) = "reset" THEN <<>> ELSE adc
      /\ overflow' = IF Head(todo) = "zero" THEN 0 ELSE overflow
      /\ first' = IF Head(todo) = "on" THEN now ELSE first
      /\ UNCHANGED <<local, delivered, now>>
  BY CarryStep DEF copies
<1>2. PICK m \in Message(now) : m.op # "push" /\ coming' = Append(coming, m)
  BY CarryStep
<1>3. /\ Len(coming') = Len(coming) + 1
      /\ \A i \in 1..Len(coming) : coming'[i] = coming[i]
      /\ coming'[Len(coming) + 1] = m
  BY <1>2, Appended DEF Typing
<1>4. \A i \in 0..Len(coming) : Count(coming', i) = Count(coming, i)
  BY <1>2, CountAppend DEF Typing
<1>5. CASE flag /\ Head(todo) \in {"allow", "read"}
  <2>1. UNCHANGED <<flag, adc, overflow, first>>
    BY <1>1, <1>5
  <2>2. ASSUME Sent PROVE Sent'
    <3>1. ASSUME NEW i \in 1..Len(coming'), coming'[i].op = "push", NEW k \in 1..Packet
          PROVE  coming'[i].samples[k] =
                   first + Len(delivered) + Len(local) + Packet * Count(coming', i - 1) + k
      <4>1. i \in 1..Len(coming) /\ i - 1 \in 0..Len(coming)
        BY <1>2, <1>3, <3>1, Sizes
      <4>2. coming[i].samples[k] =
              first + Len(delivered) + Len(local) + Packet * Count(coming, i - 1) + k
        BY <1>3, <2>2, <3>1, <4>1 DEF Sent
      <4>3. QED
        BY <1>3, <1>4, <4>1, <4>2
    <3>2. QED
      BY <1>1, <2>1, <3>1 DEF Sent
  <2>3. QED
    BY <1>1, <2>1, <2>2 DEF InOrder, Gapless, Received, Waiting
<1>6. CASE Still /\ Silent /\ delivered = <<>> /\ todo = <<"on">>
  <2>1. adc' = <<>> /\ local' = <<>> /\ delivered' = <<>> /\ coming = <<>>
    BY <1>1, <1>6 DEF Still, Silent
  <2>2. 1..Len(adc') = {} /\ 1..Len(local') = {} /\ 1..Len(delivered') = {} /\ 1..Len(coming) = {}
    BY <2>1
  <2>3. \A i \in 1..Len(coming') : coming'[i].op # "push"
    <3>1. Len(coming) = 0
      BY <2>1
    <3>2. \A i \in 1..Len(coming') : coming'[i] = m
      BY <1>3, <3>1
    <3>3. QED
      BY <1>2, <3>2
  <2>4. QED
    BY <2>2, <2>3 DEF InOrder, Gapless, Received, Sent, Waiting
<1>7. CASE (~flag /\ Head(todo) # "on") \/ Head(todo) = "off"
  <2>1. ~flag'
    BY <1>1, <1>7
  <2>2. QED
    BY <2>1 DEF InOrder
<1>8. \A op \in Ops : todo = <<op>> => Head(todo) = op
  OBVIOUS
<1>9. "off" \in Ops /\ "forbid" \in Ops /\ "reset" \in Ops /\ "zero" \in Ops /\ "allow" \in Ops
  BY DEF Ops
<1>10. QED
  BY <1>5, <1>6, <1>7, <1>8, <1>9, Carried

LEMMA InOrderThread ==
  ASSUME Typing, Threads, Receives, InOrder, Thread
  PROVE  InOrder'
<1>1. UNCHANGED <<flag, adc, overflow, coming, now, first>>
  BY ThreadStep DEF board
<1>2. CASE UNCHANGED <<local, delivered>>
  BY <1>1, <1>2 DEF InOrder, Gapless, Received, Sent, Waiting
<1>3. CASE delivered' = delivered \o local /\ local' = <<>>
  <2>1. /\ Len(delivered') = Len(delivered) + Len(local)
        /\ \A i \in 1..Len(delivered) : delivered'[i] = delivered[i]
        /\ \A i \in 1..Len(local) : delivered'[Len(delivered) + i] = local[i]
    BY <1>3, Joined, SMTT(30) DEF Typing
  <2>2. Len(local') = 0 /\ 1..Len(local') = {}
    BY <1>3
  <2>3. ASSUME Gapless, Received PROVE Gapless'
    <3>1. ASSUME NEW i \in 1..Len(delivered') PROVE delivered'[i] = first + i
      <4>1. CASE i \in 1..Len(delivered)
        BY <2>1, <2>3, <4>1 DEF Gapless
      <4>2. CASE i \notin 1..Len(delivered)
        <5>1. i - Len(delivered) \in 1..Len(local) /\ Len(delivered) + (i - Len(delivered)) = i
          BY <2>1, <4>2, Sizes, SMTT(30)
        <5>2. local[i - Len(delivered)] = first + Len(delivered) + (i - Len(delivered))
          BY <2>3, <5>1 DEF Received
        <5>3. delivered'[i] = local[i - Len(delivered)]
          BY <2>1, <5>1
        <5>4. QED
          BY <5>2, <5>3, Sizes, SMTT(30)
      <4>3. QED
        BY <4>1, <4>2
    <3>2. QED
      BY <1>1, <3>1 DEF Gapless
  <2>4. ASSUME Sent PROVE Sent'
    <3>1. ASSUME NEW i \in 1..Len(coming), coming[i].op = "push", NEW k \in 1..Packet
          PROVE  coming[i].samples[k] =
                   first + Len(delivered') + Len(local') + Packet * Count(coming, i - 1) + k
      <4>1. coming[i].samples[k] =
              first + Len(delivered) + Len(local) + Packet * Count(coming, i - 1) + k
        BY <2>4, <3>1 DEF Sent
      <4>2. first + Len(delivered') + Len(local') = first + Len(delivered) + Len(local)
        BY <2>1, <2>2, Sizes, SMTT(30)
      <4>3. QED
        BY <4>1, <4>2
    <3>2. QED
      BY <1>1, <3>1 DEF Sent
  <2>5. QED
    BY <1>1, <2>2, <2>3, <2>4 DEF InOrder, Received, Waiting
<1>4. CASE rx = "reset"
  <2>1. ~flag'
    BY <1>1, <1>4 DEF Receives
  <2>2. QED
    BY <2>1 DEF InOrder
<1>5. QED
  BY <1>2, <1>3, <1>4, ThreadStep

LEMMA InOrderStep ==
  ASSUME Typing, Threads, Starts, Receives, Balance, InOrder, Next, Running'
  PROVE  InOrder'
<1>1. CASE Start
  <2>1. main = "idle" /\ flag' = flag
    BY <1>1, StartStep DEF board
  <2>2. ~flag'
    BY <2>1 DEF Starts, Still
  <2>3. QED
    BY <2>2 DEF InOrder
<1>2. CASE Starting
  <2>1. main \in {"off", "reset", "zero", "allow"} /\ flag' = flag
    BY <1>2, StartingStep DEF board
  <2>2. ~flag'
    BY <2>1 DEF Starts, Still
  <2>3. QED
    BY <2>2 DEF InOrder
<1>3. CASE Launch
  BY <1>3, LaunchStep DEF InOrder, Gapless, Received, Sent, Waiting, board, link, copies, history
<1>4. CASE Stop
  BY <1>4, StopStep, ZenonT(40) DEF InOrder, Gapless, Received, Sent, Waiting, board, link, copies
<1>5. CASE Join
  BY <1>5, JoinStep DEF InOrder, Gapless, Received, Sent, Waiting, board, link, copies
<1>6. QED
  BY <1>1, <1>2, <1>3, <1>4, <1>5, Steps, InOrderThread, InOrderHandle,
     InOrderMeasure, InOrderPush, InOrderCarry

-----------------------------------------------------------------------------
(* A gap is noticed. *)

LEMMA ToldQueue ==
  ASSUME Typing, NEW m \in Message(now), coming' = Append(coming, m)
  PROVE  /\ m.op = "read" /\ m.n # 0 => Told'
         /\ m.op # "read" /\ mem' = mem /\ Told => Told'
<1>1. /\ Len(coming') = Len(coming) + 1 /\ Len(coming) \in Nat
      /\ \A i \in 1..Len(coming) : coming'[i] = coming[i]
      /\ coming'[Len(coming) + 1] = m
  BY Appended DEF Typing
<1>2. ASSUME m.op = "read", m.n # 0 PROVE Told'
  <2>1. /\ Len(coming') \in 1..Len(coming') /\ coming'[Len(coming')] = m
        /\ (Len(coming') + 1)..Len(coming') = {}
    BY <1>1
  <2>2. QED
    BY <1>2, <2>1 DEF Told
<1>3. ASSUME m.op # "read", mem' = mem, Told PROVE Told'
  <2>1. CASE mem # 0 /\ \A j \in 1..Len(coming) : coming[j].op # "read"
    <3>1. \A j \in 1..Len(coming') : coming'[j].op # "read"
      BY <1>1, <1>3, <2>1
    <3>2. QED
      BY <1>3, <2>1, <3>1 DEF Told
  <2>2. CASE \E i \in 1..Len(coming) :
               /\ coming[i].op = "read" /\ coming[i].n # 0
               /\ \A j \in (i + 1)..Len(coming) : coming[j].op # "read"
    <3>1. PICK i \in 1..Len(coming) :
            /\ coming[i].op = "read" /\ coming[i].n # 0
            /\ \A j \in (i + 1)..Len(coming) : coming[j].op # "read"
      BY <2>2
    <3>2. i \in 1..Len(coming') /\ coming'[i] = coming[i]
      BY <1>1
    <3>3. ASSUME NEW j \in (i + 1)..Len(coming') PROVE coming'[j].op # "read"
      <4>1. j \in (i + 1)..Len(coming) \/ j = Len(coming) + 1
        BY <1>1
      <4>2. CASE j \in (i + 1)..Len(coming)
        <5>1. j \in 1..Len(coming)
          BY <4>2
        <5>2. QED
          BY <1>1, <3>1, <4>2, <5>1
      <4>3. CASE j = Len(coming) + 1
        BY <1>1, <1>3, <4>3
      <4>4. QED
        BY <4>1, <4>2, <4>3
    <3>4. QED
      BY <3>1, <3>2, <3>3 DEF Told
  <2>3. QED
    BY <1>3, <2>1, <2>2 DEF Told
<1>4. QED
  BY <1>2, <1>3

LEMMA ToldHandle ==
  ASSUME Typing, Told, Handle, Running'
  PROVE  Told'
<1>1. /\ coming # <<>> /\ coming' = Tail(coming)
      /\ mem' = IF coming[1].op = "read" THEN coming[1].n ELSE mem
  BY HandleStep
<1>2. /\ Len(coming) \in Nat \ {0} /\ Len(coming') = Len(coming) - 1
      /\ \A i \in 1..Len(coming') : coming'[i] = coming[i + 1]
  BY <1>1, TailOf DEF Typing
<1>3. CASE mem # 0 /\ \A j \in 1..Len(coming) : coming[j].op # "read"
  <2>1. 1 \in 1..Len(coming)
    BY <1>2
  <2>2. mem' # 0
    BY <1>1, <1>3, <2>1
  <2>3. ASSUME NEW j \in 1..Len(coming') PROVE coming'[j].op # "read"
    <3>1. j + 1 \in 1..Len(coming)
      BY <1>2
    <3>2. QED
      BY <1>2, <1>3, <3>1
  <2>4. QED
    BY <2>2, <2>3 DEF Told
<1>4. CASE \E i \in 1..Len(coming) :
             /\ coming[i].op = "read" /\ coming[i].n # 0
             /\ \A j \in (i + 1)..Len(coming) : coming[j].op # "read"
  <2>1. PICK i \in 1..Len(coming) :
          /\ coming[i].op = "read" /\ coming[i].n # 0
          /\ \A j \in (i + 1)..Len(coming) : coming[j].op # "read"
    BY <1>4
  <2>2. ASSUME NEW j \in 1..Len(coming'), j >= i PROVE coming'[j].op # "read"
    <3>1. j + 1 \in (i + 1)..Len(coming)
      BY <1>2, <2>2
    <3>2. QED
      BY <1>2, <2>1, <3>1
  <2>3. CASE i = 1
    <3>1. mem' # 0
      BY <1>1, <2>1, <2>3
    <3>2. \A j \in 1..Len(coming') : coming'[j].op # "read"
      BY <1>2, <2>2, <2>3
    <3>3. QED
      BY <3>1, <3>2 DEF Told
  <2>4. CASE i # 1
    <3>1. i - 1 \in 1..Len(coming') /\ (i - 1) + 1 = i
      BY <1>2, <2>4
    <3>2. coming'[i - 1] = coming[i]
      BY <1>2, <3>1
    <3>3. ASSUME NEW j \in ((i - 1) + 1)..Len(coming') PROVE coming'[j].op # "read"
      <4>1. j \in 1..Len(coming') /\ j >= i
        BY <1>2, <3>1
      <4>2. QED
        BY <2>2, <4>1
    <3>4. QED
      BY <2>1, <3>1, <3>2, <3>3 DEF Told
  <2>5. QED
    BY <2>3, <2>4
<1>5. QED
  BY <1>3, <1>4 DEF Told

LEMMA NoticedThread ==
  ASSUME Typing, Threads, Noticed, Thread, Running'
  PROVE  Noticed'
<1>1. UNCHANGED <<first, coming, mem, main>> /\ main \in {"started", "join"}
  BY ThreadStep DEF Threads
<1>2. CASE rx' \in {"top", "loop", "move"}
  BY <1>1, <1>2 DEF Noticed
<1>3. CASE rx = "top" /\ rx' = "off" /\ todo' = todo \o <<"read", "off">>
  <2>1. todo \in Seq(Ops) /\ <<"read", "off">> \in Seq(Ops)
    BY DEF Ops, Typing
  <2>2. /\ Len(todo') = Len(todo) + 2 /\ Len(todo) \in Nat
        /\ todo'[Len(todo) + 1] = "read"
    <3>1. /\ Len(todo') = Len(todo) + Len(<<"read", "off">>) /\ Len(todo) \in Nat
          /\ \A i \in 1..Len(<<"read", "off">>) : todo'[Len(todo) + i] = <<"read", "off">>[i]
      BY <1>3, <2>1, Joined
    <3>2. Len(<<"read", "off">>) = 2
      OBVIOUS
    <3>3. QED
      BY <3>1, <3>2
  <2>3. Len(todo) + 1 \in 1..Len(todo')
    BY <2>2
  <2>4. Asked'
    BY <2>2, <2>3 DEF Asked
  <2>5. QED
    BY <1>1, <1>3, <2>4 DEF Noticed
<1>4. CASE rx = "off" /\ rx' = "forbid" /\ Answered /\ UNCHANGED delivered
  <2>1. todo = <<>>
    BY <1>4 DEF Answered
  <2>2. ~Asked
    BY <2>1 DEF Asked
  <2>3. Gapless \/ Told
    BY <1>4, <2>2 DEF Noticed
  <2>4. Gapless' \/ Told'
    BY <1>1, <1>4, <2>3 DEF Gapless, Told
  <2>5. QED
    BY <1>1, <1>4, <2>4 DEF Noticed
<1>5. CASE rx = "forbid" /\ rx' = "reset" /\ Answered /\ Check /\ UNCHANGED delivered
  <2>1. todo = <<>> /\ \A i \in 1..Len(coming) : coming[i].op = "push"
    BY <1>5 DEF Answered
  <2>2. mem = 0
    BY <1>5 DEF Check, Running
  <2>3. ~Asked /\ ~Told
    BY <2>1, <2>2 DEF Asked, Told
  <2>4. Gapless
    BY <1>5, <2>3 DEF Noticed
  <2>5. QED
    BY <1>1, <1>5, <2>4 DEF Noticed, Gapless
<1>6. CASE rx = "reset" /\ rx' = "none" /\ UNCHANGED delivered
  BY <1>1, <1>6 DEF Noticed, Gapless
<1>7. QED
  BY <1>2, <1>3, <1>4, <1>5, <1>6, ThreadStep

LEMMA NoticedCarry ==
  ASSUME Typing, Threads, Starts, Receives, InOrder, Noticed, Carry
  PROVE  Noticed'
<1>1. /\ todo # <<>> /\ todo \in Seq(Ops) /\ todo' = Tail(todo)
      /\ first' = IF Head(todo) = "on" THEN now ELSE first
      /\ UNCHANGED <<main, rx, mem, delivered>>
  BY CarryStep DEF Typing, threads, copies
<1>2. PICK m \in Message(now) :
        /\ m.op = IF Head(todo) = "read" THEN "read" ELSE "ack"
        /\ m.n = IF Head(todo) = "read" THEN overflow ELSE 0
        /\ coming' = Append(coming, m)
  BY CarryStep
<1>3. /\ Len(todo) \in Nat \ {0} /\ Len(todo') = Len(todo) - 1 /\ Head(todo) = todo[1]
      /\ \A i \in 1..Len(todo') : todo'[i] = todo[i + 1]
  BY <1>1, TailOf
<1>4. ASSUME Asked, Head(todo) # "read" PROVE Asked'
  <2>1. PICK i \in 1..Len(todo) : todo[i] = "read"
    BY <1>4 DEF Asked
  <2>2. i # 1
    BY <1>3, <1>4, <2>1
  <2>3. i - 1 \in 1..Len(todo') /\ (i - 1) + 1 = i
    BY <1>3, <2>2
  <2>4. todo'[i - 1] = "read"
    BY <1>3, <2>1, <2>3
  <2>5. QED
    BY <2>3, <2>4 DEF Asked
<1>5. ASSUME rx \in {"off", "forbid"} PROVE Asked' \/ Gapless' \/ Told'
  <2>1. /\ Head(todo) \in {"allow", "read", "off", "forbid"}
        /\ Head(todo) = "read" => flag
    <3>1. \A op \in Ops : todo = <<op>> => Head(todo) = op
      OBVIOUS
    <3>2. "off" \in Ops /\ "forbid" \in Ops
      BY DEF Ops
    <3>3. QED
      BY <1>5, <3>1, <3>2, Carried
  <2>2. UNCHANGED <<first, delivered>>
    BY <1>1, <2>1
  <2>3. Gapless => Gapless'
    BY <2>2 DEF Gapless
  <2>4. CASE Head(todo) = "read" /\ overflow # 0
    BY <1>2, <2>4, ToldQueue
  <2>5. CASE Head(todo) = "read" /\ overflow = 0
    BY <2>1, <2>3, <2>5 DEF InOrder
  <2>6. CASE Head(todo) # "read"
    <3>1. m.op # "read"
      BY <1>2, <2>6
    <3>2. Told => Told'
      BY <1>1, <1>2, <3>1, ToldQueue
    <3>3. Asked \/ Gapless \/ Told
      BY <1>5 DEF Noticed
    <3>4. QED
      BY <1>4, <2>3, <2>6, <3>2, <3>3
  <2>7. QED
    BY <2>4, <2>5, <2>6
<1>6. ASSUME rx = "reset" \/ (main = "join" /\ rx = "none") \/ main = "idle" PROVE Gapless'
  <2>1. todo = <<"reset">>
    BY <1>6, Carried
  <2>2. Head(todo) = "reset"
    BY <2>1
  <2>3. UNCHANGED <<first, delivered>>
    BY <1>1, <2>2
  <2>4. QED
    BY <1>6, <2>3 DEF Noticed, Gapless
<1>7. QED
  BY <1>1, <1>5, <1>6 DEF Noticed

LEMMA NoticedStep ==
  ASSUME Typing, Threads, Starts, Receives, InOrder, Noticed, Next, Running'
  PROVE  Noticed'
<1>1. CASE Start
  <2>1. main = "idle" /\ main' = "off" /\ rx' = rx /\ rx = "none"
    BY <1>1, StartStep DEF Threads
  <2>2. QED
    BY <2>1 DEF Noticed
<1>2. CASE Starting
  <2>1. rx = "none" /\ rx' = rx /\ main' \in {"reset", "zero", "allow", "on"}
    BY <1>2, StartingStep DEF Threads
  <2>2. QED
    BY <2>1 DEF Noticed
<1>3. CASE Launch
  <2>1. rx' = "top" /\ main' = "started"
    BY <1>3, LaunchStep
  <2>2. QED
    BY <2>1 DEF Noticed
<1>4. CASE Stop
  <2>1. main = "started" /\ main' = "join" /\ rx' = rx
    BY <1>4, StopStep
  <2>2. rx \notin {"none", "off", "forbid", "reset"}
    BY <2>1 DEF Threads
  <2>3. QED
    BY <2>1, <2>2 DEF Noticed
<1>5. CASE Join
  BY <1>5, JoinStep DEF Noticed, Gapless, Told, Asked, link, copies
<1>6. CASE Handle
  <2>1. UNCHANGED <<todo, main, rx, first, delivered>>
    BY <1>6, HandleStep DEF threads, history
  <2>2. Told => Told'
    BY <1>6, ToldHandle
  <2>3. QED
    BY <2>1, <2>2 DEF Noticed, Gapless, Asked
<1>7. CASE Measure
  <2>1. UNCHANGED <<todo, coming, mem, main, rx, first, delivered>>
    BY <1>7, MeasureStep DEF link, copies, threads
  <2>2. QED
    BY <2>1 DEF Noticed, Gapless, Told, Asked
<1>8. CASE Push
  <2>1. UNCHANGED <<todo, mem, main, rx, first, delivered>>
    BY <1>8, PushStep DEF copies, threads
  <2>2. PICK m \in Message(now) : m.op # "read" /\ coming' = Append(coming, m)
    BY <1>8, PushStep
  <2>3. Told => Told'
    BY <2>1, <2>2, ToldQueue
  <2>4. QED
    BY <2>1, <2>3 DEF Noticed, Gapless, Asked
<1>9. QED
  BY <1>1, <1>2, <1>3, <1>4, <1>5, <1>6, <1>7, <1>8, Steps, NoticedThread, NoticedCarry

-----------------------------------------------------------------------------
LEMMA InitReception == Init => Typing /\ Reception
<1> SUFFICES ASSUME Init PROVE Typing /\ Reception
  OBVIOUS
<1>1. /\ 0 \in 0..Allowance /\ Len(<<>>) <= Capacity /\ <<>> \in Seq(1..0)
      /\ <<>> \in Seq(Ops) /\ <<>> \in Seq(Message(0)) /\ 1..Len(<<>>) = {}
  BY SizeAssumption
<1>2. Typing
  BY <1>1 DEF Init, Typing
<1>3. Threads /\ Starts /\ Receives
  BY DEF Init, Threads, Starts, Receives, Still, Silent
<1>4. Balance /\ InOrder /\ Noticed
  BY <1>1 DEF Init, Balance, InOrder, Noticed, Gapless
<1>5. QED
  BY <1>2, <1>3, <1>4 DEF Reception

LEMMA ReceptionStep == Typing /\ Reception /\ [Next]_vars => Reception'
<1> SUFFICES ASSUME Typing, Reception, [Next]_vars PROVE Reception'
  OBVIOUS
<1>1. CASE UNCHANGED vars
  <2>1. UNCHANGED <<Threads, Running>>
    BY <1>1 DEF vars, threads, Threads, Running
  <2>2. UNCHANGED <<Starts, Receives>>
    BY <1>1 DEF vars, board, link, copies, threads, history, Starts, Receives, Still, Silent,
                Once
  <2>3. UNCHANGED <<Balance, InOrder>>
    BY <1>1 DEF vars, board, link, copies, threads, history, Balance, InOrder, Gapless,
                Received, Sent, Waiting
  <2>4. UNCHANGED Noticed
    BY <1>1 DEF vars, link, copies, threads, history, Noticed, Gapless, Told, Asked
  <2>5. QED
    BY <2>1, <2>2, <2>3, <2>4 DEF Reception
<1>2. ASSUME Next, Running' PROVE Reception'
  <2>1. Running
    BY <1>2, Steps, StartStep, StartingStep, LaunchStep, StopStep, JoinStep, ThreadStep,
       HandleStep, MeasureStep, PushStep, CarryStep
  <2>2. Threads /\ Starts /\ Receives /\ Balance /\ InOrder /\ Noticed
    BY <2>1 DEF Reception
  <2>3. Threads' /\ Starts' /\ Receives'
    BY <1>2, <2>2, ThreadsStep, StartsStep, ReceivesStep
  <2>4. Balance' /\ InOrder' /\ Noticed'
    BY <1>2, <2>2, BalanceStep, InOrderStep, NoticedStep
  <2>5. QED
    BY <2>3, <2>4 DEF Reception
<1>3. QED
  BY <1>1, <1>2 DEF Reception

LEMMA Invariant == Spec => [](Typing /\ Reception)
<1>1. Typing /\ Reception /\ [Next]_vars => (Typing /\ Reception)'
  BY TypingStep, ReceptionStep
<1>2. QED
  BY InitReception, <1>1, PTL DEF Spec

(* Neither side's adc_data holds more than it can, and samples are those   *)
(* of periods that have passed (reader-H7xx.h, reader-H7xx-ex.h).          *)
THEOREM TypeCorrect == Spec => []TypeOK
<1>1. Typing => TypeOK
  BY DEF Typing, TypeOK
<1>2. QED
  BY Invariant, <1>1, PTL

(* Every period since the board began to measure is delivered, or in a     *)
(* fifo or packet on its way, or counted as an overflow.                   *)
THEOREM Accounted == Spec => []NothingLostUncounted
<1>1. Typing /\ Reception => NothingLostUncounted
  BY DEF Reception, NothingLostUncounted, Balance, Pushes, Count
<1>2. QED
  BY Invariant, <1>1, PTL

(* A reception that ends without a failed assertion has handed on the      *)
(* samples of consecutive periods from the first on: what the board lost   *)
(* has reached the check after the thread's last request for the count.    *)
THEOREM GapsNoticed == Spec => []GapsAreNoticed
<1>1. Typing /\ Reception => GapsAreNoticed
  BY DEF Reception, GapsAreNoticed, Noticed, Gapless
<1>2. QED
  BY Invariant, <1>1, PTL
=============================================================================

------------------------- MODULE TagTxStreamProofs --------------------------
(***************************************************************************)
(* The samples of a stream of TagTx, followed from the caller to the       *)
(* shutter: Accounting, which is inductive on top of Discipline, and what  *)
(* it implies.                                                             *)
(*                                                                         *)
(* tx_underflow is a uint16_t and tx_count a uint32_t, so that a stream    *)
(* with 65536 underflows looks like one without.  The theorems are about   *)
(* streams of fewer samples than that.                                     *)
(***************************************************************************)
EXTENDS TagTxProofs, FiniteSetTheorems

ShortStreams == \A n \in Counts : n < UnderflowRange

-----------------------------------------------------------------------------
(* Orders kept by a list of requests, and by one of answers. *)

(* The samples on their way are those after f, up to a, each once and in   *)
(* order.                                                                  *)
Follow(q, f, a) ==
  /\ f <= a
  /\ \A i \in 1..Len(q) : q[i].op = "fill" =>
       /\ f < q[i].n /\ q[i].n <= a
       /\ \A j \in 1..(i - 1) : q[j].op = "fill" => q[j].n < q[i].n
       /\ \/ q[i].n = f + 1
          \/ \E j \in 1..(i - 1) : q[j].op = "fill" /\ q[j].n = q[i].n - 1
  /\ f = a \/ \E i \in 1..Len(q) : q[i].op = "fill" /\ q[i].n = a

(* The values of tx_count on their way do not rise, and lie between l, the *)
(* tag's own, and h, the one that the PC knows.                            *)
Fall(q, l, h) ==
  /\ l <= h
  /\ \A i \in 1..Len(q) :
       /\ l <= q[i].tag.count /\ q[i].tag.count <= h
       /\ \A j \in 1..(i - 1) : q[i].tag.count <= q[j].tag.count

(* Samples, and tx_count behind them.                                      *)
Behind(q, n) ==
  q # <<>> =>
    /\ q[Len(q)] = [op |-> "count", n |-> n]
    /\ \A i \in 1..(Len(q) - 1) : q[i].op = "fill"

-----------------------------------------------------------------------------
(* Accounting. *)

(* tx_count of the call is still on its way, and the tag's is zero.        *)
CountPending == main = "loaded" \/ (main = "counted" /\ todo # <<>>)

(* Samples of the call that have left tx_data, and that have been in it.   *)
Streamed == IF CountPending THEN 0 ELSE job.n - tag.count - tag.underflow
Filled == Streamed + Len(data)

(* Samples the PC has asked the tag to take.                               *)
Asked == IF main = "loaded" THEN job.n ELSE sent

Feeding == Running /\ (main \in {"counted", "loaded"} \/ thread.at # "none")

(* Which call is being made, and how long it is.                           *)
Calls ==
  /\ job.call = "send" => job.n < UnderflowRange
  /\ job.call = "repeat" => job.n <= Capacity
  /\ main \in {"cleared", "counted"} \/ Streams => job.call = "send"
  /\ main \in {"halted", "polled", "emptied", "loaded"} => job.call = "repeat"

(* tx_count and tx_underflow together account for what was not streamed,   *)
(* and between streams tx_count is zero.                                   *)
CountsAddUp ==
  /\ Running /\ main # "counted" /\ ~Streams => tag.count = 0
  /\ main = "counted" =>
       /\ mem.count = job.n /\ sent <= Capacity
       /\ Behind(todo, job.n)
       /\ todo # <<>> => tag.count = 0 /\ tag.underflow = 0
  /\ (main = "counted" /\ todo = <<>>) \/ Streams =>
       tag.count + tag.underflow <= job.n

FillsFollow == Feeding => Follow(todo, Filled, Asked)

(* A count that the PC reckons with is never too low, and the room it      *)
(* computes neither too large nor below zero.                              *)
OldCounts ==
  Streams =>
    /\ Fall(answers, tag.count, mem.count)
    /\ sent + mem.count <= Capacity + job.n

(* tx_data holds the next samples; without an underflow the earlier ones   *)
(* have been shown.                                                        *)
SamplesInOrder ==
  Running /\ (main = "counted" \/ thread.at # "none") =>
    /\ \A k \in 1..Len(data) : data[k] = Streamed + k
    /\ tag.underflow = 0 => shown = [i \in 1..Streamed |-> i]

(* The thread ends when the tag has counted down, having seen the number   *)
(* of underflows there were.                                               *)
Ending ==
  /\ Running /\ main = "cleared" => shown = <<>>
  /\ thread.at = "blocked" /\ thread.next = "last" =>
       /\ tag.count = 0
       /\ \/ todo = <<[op |-> "read_underflow", n |-> 0]>> /\ answers = <<>>
          \/ /\ todo = <<>> /\ Len(answers) = 1
             /\ answers[1].op = "read_underflow"
             /\ answers[1].tag.underflow = tag.underflow
          \/ Answered /\ mem.underflow = tag.underflow
  /\ thread.at = "last" => tag.count = 0 /\ mem.underflow = tag.underflow
  /\ /\ Running /\ job.call = "send"
     /\ main = "idle" \/ (Streams /\ thread.at = "none")
     => tag.count = 0 /\ shown = [i \in 1..job.n |-> i]

Accounting ==
  /\ Calls /\ CountsAddUp /\ FillsFollow /\ OldCounts /\ SamplesInOrder /\ Ending
  /\ NeverTooMany

-----------------------------------------------------------------------------
(* How the orders change with the lists. *)

Answer == [op : ReadOps, tag : Tags]

LEMMA RequestTyped ==
  ASSUME NEW q \in Seq(RequestType), NEW i \in 1..Len(q)
  PROVE  q[i].op \in Ops /\ q[i].n \in Nat
<1>1. q[i] \in RequestType
  OBVIOUS
<1>2. QED
  BY <1>1 DEF RequestType

LEMMA FollowNothing ==
  ASSUME NEW f \in Int
  PROVE  Follow(<<>>, f, f)
BY DEF Follow

LEMMA FollowTail ==
  ASSUME NEW q \in Seq(RequestType), NEW f \in Int, NEW a \in Int, Follow(q, f, a),
         q # <<>>, q[1].op # "fill"
  PROVE  Follow(Tail(q), f, a)
<1> DEFINE t == Tail(q)
<1>1. /\ Len(t) = Len(q) - 1 /\ Len(q) \in Nat \ {0}
      /\ \A i \in 1..(Len(q) - 1) : t[i] = q[i + 1] /\ i + 1 \in 1..Len(q)
  BY TailFacts
<1> HIDE DEF t
<1>2. ASSUME NEW i \in 1..Len(t), t[i].op = "fill"
      PROVE  /\ f < t[i].n /\ t[i].n <= a
             /\ \A j \in 1..(i - 1) : t[j].op = "fill" => t[j].n < t[i].n
             /\ \/ t[i].n = f + 1
                \/ \E j \in 1..(i - 1) : t[j].op = "fill" /\ t[j].n = t[i].n - 1
  <2>1. i \in 1..(Len(q) - 1) /\ i + 1 \in 1..Len(q) /\ t[i] = q[i + 1]
    BY <1>1
  <2>2. f < t[i].n /\ t[i].n <= a
    BY <1>2, <2>1 DEF Follow
  <2>3. \A j \in 1..(i - 1) : t[j].op = "fill" => t[j].n < t[i].n
    <3>1. ASSUME NEW j \in 1..(i - 1), t[j].op = "fill" PROVE t[j].n < t[i].n
      <4>1. j + 1 \in 1..((i + 1) - 1) /\ t[j] = q[j + 1]
        BY <1>1, <2>1, SMTT(30)
      <4>2. QED
        BY <1>2, <2>1, <3>1, <4>1 DEF Follow
    <3>2. QED
      BY <3>1
  <2>4. CASE q[i + 1].n # f + 1
    <3>1. PICK k \in 1..((i + 1) - 1) : q[k].op = "fill" /\ q[k].n = q[i + 1].n - 1
      BY <1>2, <2>1, <2>4 DEF Follow
    <3>2. k # 1
      BY <3>1
    <3>3. k - 1 \in 1..(i - 1) /\ t[k - 1] = q[k]
      BY <1>1, <2>1, <3>2, SMTT(30)
    <3>4. QED
      BY <2>1, <2>2, <2>3, <3>1, <3>3
  <2>5. QED
    BY <2>1, <2>2, <2>3, <2>4
<1>3. f = a \/ \E i \in 1..Len(t) : t[i].op = "fill" /\ t[i].n = a
  <2>1. CASE f # a
    <3>1. PICK k \in 1..Len(q) : q[k].op = "fill" /\ q[k].n = a
      BY <2>1 DEF Follow
    <3>2. k # 1
      BY <3>1
    <3>3. k - 1 \in 1..Len(t) /\ t[k - 1] = q[k]
      BY <1>1, <3>2
    <3>4. QED
      BY <3>1, <3>3
  <2>2. QED
    BY <2>1
<1>4. f <= a
  BY DEF Follow
<1>5. QED
  BY <1>2, <1>3, <1>4 DEF Follow, t

(* The first sample on its way is the next one.                            *)
LEMMA FollowFill ==
  ASSUME NEW q \in Seq(RequestType), NEW f \in Int, NEW a \in Int, Follow(q, f, a),
         q # <<>>, q[1].op = "fill"
  PROVE  q[1].n = f + 1 /\ f + 1 <= a /\ Follow(Tail(q), f + 1, a)
<1> DEFINE t == Tail(q)
<1>1. /\ Len(t) = Len(q) - 1 /\ Len(q) \in Nat \ {0} /\ 1 \in 1..Len(q)
      /\ \A i \in 1..(Len(q) - 1) : t[i] = q[i + 1] /\ i + 1 \in 1..Len(q)
  BY TailFacts
<1> HIDE DEF t
<1>2. q[1].n = f + 1 /\ f + 1 <= a
  BY <1>1 DEF Follow
<1>3. ASSUME NEW i \in 1..Len(t), t[i].op = "fill"
      PROVE  /\ f + 1 < t[i].n /\ t[i].n <= a
             /\ \A j \in 1..(i - 1) : t[j].op = "fill" => t[j].n < t[i].n
             /\ \/ t[i].n = (f + 1) + 1
                \/ \E j \in 1..(i - 1) : t[j].op = "fill" /\ t[j].n = t[i].n - 1
  <2>1. i \in 1..(Len(q) - 1) /\ i + 1 \in 1..Len(q) /\ t[i] = q[i + 1]
        /\ q[i + 1].n \in Nat
    <3>1. i \in 1..(Len(q) - 1) /\ i + 1 \in 1..Len(q) /\ t[i] = q[i + 1]
      BY <1>1
    <3>2. QED
      BY <3>1, RequestTyped
  <2>2. q[1].n < q[i + 1].n /\ t[i].n <= a
    <3>1. 1 \in 1..((i + 1) - 1)
      BY <2>1
    <3>2. QED
      BY <1>3, <2>1, <3>1 DEF Follow
  <2>3. \A j \in 1..(i - 1) : t[j].op = "fill" => t[j].n < t[i].n
    <3>1. ASSUME NEW j \in 1..(i - 1), t[j].op = "fill" PROVE t[j].n < t[i].n
      <4>1. j \in 1..(Len(q) - 1) /\ j + 1 \in 1..((i + 1) - 1)
        BY <1>1, <2>1, SMTT(30)
      <4>2. t[j] = q[j + 1]
        BY <1>1, <4>1
      <4>3. QED
        BY <1>3, <2>1, <3>1, <4>1, <4>2 DEF Follow
    <3>2. QED
      BY <3>1
  <2>4. q[i + 1].n # f + 1
    BY <1>2, <2>1, <2>2
  <2>5. PICK k \in 1..((i + 1) - 1) : q[k].op = "fill" /\ q[k].n = q[i + 1].n - 1
    BY <1>3, <2>1, <2>4 DEF Follow
  <2>6. CASE k = 1
    BY <1>2, <2>1, <2>2, <2>3, <2>5, <2>6
  <2>7. CASE k # 1
    <3>1. k - 1 \in 1..(i - 1) /\ t[k - 1] = q[k]
      BY <1>1, <2>1, <2>7, SMTT(30)
    <3>2. QED
      BY <1>2, <2>1, <2>2, <2>3, <2>5, <3>1
  <2>8. QED
    BY <2>6, <2>7
<1>4. f + 1 = a \/ \E i \in 1..Len(t) : t[i].op = "fill" /\ t[i].n = a
  <2>1. CASE f + 1 # a
    <3>1. PICK k \in 1..Len(q) : q[k].op = "fill" /\ q[k].n = a
      BY <1>2, <2>1 DEF Follow
    <3>2. k # 1
      BY <1>2, <2>1, <3>1
    <3>3. k - 1 \in 1..Len(t) /\ t[k - 1] = q[k]
      BY <1>1, <3>2
    <3>4. QED
      BY <3>1, <3>3
  <2>2. QED
    BY <2>1
<1>5. QED
  BY <1>2, <1>3, <1>4 DEF Follow, t

(* Requests that are no samples may be added behind.                       *)
LEMMA FollowOther ==
  ASSUME NEW q \in Seq(RequestType), NEW f \in Int, NEW a \in Int, Follow(q, f, a),
         NEW r \in RequestType, r.op # "fill"
  PROVE  Follow(q \o <<r>>, f, a)
<1> DEFINE t == q \o <<r>>
<1>1. /\ Len(t) = Len(q) + 1 /\ Len(q) \in Nat
      /\ \A i \in 1..Len(q) : t[i] = q[i]
      /\ t[Len(q) + 1] = r
  OBVIOUS
<1> HIDE DEF t
<1>2. ASSUME NEW i \in 1..Len(t), t[i].op = "fill"
      PROVE  /\ f < t[i].n /\ t[i].n <= a
             /\ \A j \in 1..(i - 1) : t[j].op = "fill" => t[j].n < t[i].n
             /\ \/ t[i].n = f + 1
                \/ \E j \in 1..(i - 1) : t[j].op = "fill" /\ t[j].n = t[i].n - 1
  <2>1. i \in 1..Len(q) /\ t[i] = q[i] /\ \A j \in 1..(i - 1) : t[j] = q[j]
    BY <1>1, <1>2
  <2>2. QED
    BY <1>2, <2>1 DEF Follow
<1>3. f = a \/ \E i \in 1..Len(t) : t[i].op = "fill" /\ t[i].n = a
  BY <1>1 DEF Follow
<1>4. f <= a
  BY DEF Follow
<1>5. QED
  BY <1>2, <1>3, <1>4 DEF Follow, t

(* And the samples after a.                                                *)
LEMMA FollowSamples ==
  ASSUME NEW q \in Seq(RequestType), NEW f \in Int, NEW a \in Nat, Follow(q, f, a),
         NEW n \in Nat
  PROVE  Follow(q \o Samples(a, n), f, a + n)
<1> DEFINE t == q \o Samples(a, n)
<1>1. /\ Len(t) = Len(q) + n /\ Len(q) \in Nat
      /\ \A i \in 1..Len(q) : t[i] = q[i]
      /\ \A i \in (Len(q) + 1)..(Len(q) + n) : t[i] = [op |-> "fill", n |-> a + (i - Len(q))]
  <2> DEFINE s == Samples(a, n)
  <2>1. /\ s \in Seq(RequestType) /\ Len(s) = n
        /\ \A i \in 1..n : s[i] = [op |-> "fill", n |-> a + i]
    BY SamplesFacts
  <2> HIDE DEF s
  <2>2. /\ q \o s \in Seq(RequestType) /\ Len(q \o s) = Len(q) + Len(s)
        /\ \A i \in 1..Len(q) : (q \o s)[i] = q[i]
        /\ \A i \in (Len(q) + 1)..(Len(q) + Len(s)) : (q \o s)[i] = s[i - Len(q)]
    BY <2>1, JoinFacts, Zenon
  <2>5. Len(q) \in Nat
    OBVIOUS
  <2>3. ASSUME NEW i \in (Len(q) + 1)..(Len(q) + n)
        PROVE  (q \o s)[i] = [op |-> "fill", n |-> a + (i - Len(q))]
    <3>1. i - Len(q) \in 1..n
      BY <2>5
    <3>2. QED
      BY <2>1, <2>2, <3>1
  <2>4. QED
    BY <2>1, <2>2, <2>3, <2>5 DEF s
<1> HIDE DEF t
<1>2. ASSUME NEW i \in 1..Len(t), t[i].op = "fill"
      PROVE  /\ f < t[i].n /\ t[i].n <= a + n
             /\ \A j \in 1..(i - 1) : t[j].op = "fill" => t[j].n < t[i].n
             /\ \/ t[i].n = f + 1
                \/ \E j \in 1..(i - 1) : t[j].op = "fill" /\ t[j].n = t[i].n - 1
  <2>1. CASE i <= Len(q)
    <3>1. i \in 1..Len(q) /\ t[i] = q[i] /\ \A j \in 1..(i - 1) : t[j] = q[j]
      BY <1>1, <2>1
    <3>2. q[i].n \in Nat
      BY <3>1, RequestTyped
    <3>3. /\ f < q[i].n /\ q[i].n <= a
          /\ \A j \in 1..(i - 1) : q[j].op = "fill" => q[j].n < q[i].n
          /\ \/ q[i].n = f + 1
             \/ \E j \in 1..(i - 1) : q[j].op = "fill" /\ q[j].n = q[i].n - 1
      BY <1>2, <3>1 DEF Follow
    <3>4. q[i].n <= a + n
      BY <3>2, <3>3
    <3>5. QED
      BY <3>1, <3>3, <3>4
  <2>2. CASE i > Len(q)
    <3> DEFINE k == i - Len(q)
    <3>1. k \in 1..n /\ t[i] = [op |-> "fill", n |-> a + k]
      <4>1. i \in (Len(q) + 1)..(Len(q) + n) /\ k \in 1..n
        BY <1>1, <2>2
      <4>2. QED
        BY <1>1, <4>1
    <3>2. t[i].n = a + k /\ f <= a
      BY <3>1 DEF Follow
    <3>3. ASSUME NEW j \in 1..(i - 1), t[j].op = "fill" PROVE t[j].n < t[i].n
      <4>1. CASE j <= Len(q)
        <5>1. j \in 1..Len(q) /\ t[j] = q[j]
          BY <1>1, <4>1
        <5>2. q[j].n <= a /\ q[j].n \in Nat
          BY <3>3, <5>1, RequestTyped DEF Follow
        <5>3. QED
          BY <3>1, <3>2, <5>1, <5>2, SMTT(30)
      <4>2. CASE j > Len(q)
        <5>1. j - Len(q) \in 1..n /\ j \in (Len(q) + 1)..(Len(q) + n)
          BY <1>1, <2>2, <4>2
        <5>3. t[j] = [op |-> "fill", n |-> a + (j - Len(q))]
          BY <1>1, <5>1
        <5>2. QED
          BY <1>1, <3>2, <5>1, <5>3
      <4>3. QED
        BY <1>1, <4>1, <4>2
    <3>4. \/ t[i].n = f + 1
          \/ \E j \in 1..(i - 1) : t[j].op = "fill" /\ t[j].n = t[i].n - 1
      <4>1. CASE k = 1
        <5>1. CASE f = a
          BY <3>2, <4>1, <5>1
        <5>2. CASE f # a
          <6>1. PICK j \in 1..Len(q) : q[j].op = "fill" /\ q[j].n = a
            BY <5>2 DEF Follow
          <6>2. j \in 1..(i - 1) /\ t[j] = q[j]
            BY <1>1, <2>2, <6>1
          <6>3. t[i].n - 1 = a
            BY <3>2, <4>1
          <6>4. QED
            BY <6>1, <6>2, <6>3
        <5>3. QED
          BY <5>1, <5>2
      <4>2. CASE k # 1
        <5>1. /\ k - 1 \in 1..n /\ i - 1 \in 1..(i - 1)
              /\ i - 1 \in (Len(q) + 1)..(Len(q) + n) /\ (i - 1) - Len(q) = k - 1
          BY <1>1, <3>1, <4>2
        <5>2. t[i - 1] = [op |-> "fill", n |-> a + (k - 1)]
          BY <1>1, <5>1
        <5>3. t[i - 1].op = "fill" /\ t[i - 1].n = t[i].n - 1
          BY <3>1, <3>2, <5>2
        <5>4. QED
          BY <5>1, <5>3
      <4>3. QED
        BY <4>1, <4>2
    <3>5. QED
      BY <3>1, <3>2, <3>3, <3>4, SMTT(30)
  <2>3. QED
    BY <1>1, <2>1, <2>2
<1>3. f = a + n \/ \E i \in 1..Len(t) : t[i].op = "fill" /\ t[i].n = a + n
  <2>1. CASE n = 0
    BY <1>1, <2>1 DEF Follow
  <2>2. CASE n # 0
    <3>1. /\ Len(q) + n \in 1..Len(t) /\ Len(q) + n \in (Len(q) + 1)..(Len(q) + n)
          /\ (Len(q) + n) - Len(q) = n
      BY <1>1, <2>2
    <3>2. t[Len(q) + n] = [op |-> "fill", n |-> a + n]
      BY <1>1, <3>1
    <3>3. QED
      BY <3>1, <3>2
  <2>3. QED
    BY <2>1, <2>2
<1>4. f <= a + n
  BY DEF Follow
<1>5. QED
  BY <1>2, <1>3, <1>4 DEF Follow, t

LEMMA FallTail ==
  ASSUME NEW q \in Seq(Answer), NEW l \in Nat, NEW h \in Nat, Fall(q, l, h), q # <<>>
  PROVE  Fall(Tail(q), l, h) /\ Fall(Tail(q), l, q[1].tag.count)
<1> DEFINE t == Tail(q)
<1>1. /\ Len(t) = Len(q) - 1 /\ Len(q) \in Nat \ {0} /\ 1 \in 1..Len(q)
      /\ \A i \in 1..(Len(q) - 1) : t[i] = q[i + 1] /\ i + 1 \in 1..Len(q)
  BY TailFacts
<1> HIDE DEF t
<1>2. ASSUME NEW i \in 1..Len(t)
      PROVE  /\ l <= t[i].tag.count /\ t[i].tag.count <= h
             /\ t[i].tag.count <= q[1].tag.count
             /\ \A j \in 1..(i - 1) : t[i].tag.count <= t[j].tag.count
  <2>1. i \in 1..(Len(q) - 1) /\ i + 1 \in 1..Len(q) /\ t[i] = q[i + 1]
    BY <1>1
  <2>2. \A j \in 1..((i + 1) - 1) : q[i + 1].tag.count <= q[j].tag.count
    BY <2>1 DEF Fall
  <2>3. 1 \in 1..((i + 1) - 1)
    BY <2>1
  <2>4. ASSUME NEW j \in 1..(i - 1) PROVE t[i].tag.count <= t[j].tag.count
    <3>1. j \in 1..(Len(q) - 1) /\ j + 1 \in 1..((i + 1) - 1)
      BY <1>1, <2>1
    <3>2. t[j] = q[j + 1]
      BY <1>1, <3>1
    <3>3. QED
      BY <2>1, <2>2, <3>1, <3>2
  <2>5. QED
    BY <2>1, <2>2, <2>3, <2>4 DEF Fall
<1>3. l <= h /\ l <= q[1].tag.count
  BY <1>1 DEF Fall
<1>4. QED
  BY <1>2, <1>3 DEF Fall, t

(* The tag answers with the value it has.                                  *)
LEMMA FallAnswer ==
  ASSUME NEW q \in Seq(Answer), NEW l \in Nat, NEW h \in Nat, Fall(q, l, h),
         NEW a \in Answer, a.tag.count = l
  PROVE  Fall(Append(q, a), l, h)
<1> DEFINE t == Append(q, a)
<1>1. /\ Len(t) = Len(q) + 1 /\ Len(q) \in Nat /\ t[Len(q) + 1] = a
      /\ \A i \in 1..Len(q) : t[i] = q[i]
  OBVIOUS
<1> HIDE DEF t
<1>2. ASSUME NEW i \in 1..Len(t)
      PROVE  /\ l <= t[i].tag.count /\ t[i].tag.count <= h
             /\ \A j \in 1..(i - 1) : t[i].tag.count <= t[j].tag.count
  <2>1. CASE i \in 1..Len(q)
    <3>1. t[i] = q[i] /\ \A j \in 1..(i - 1) : t[j] = q[j]
      BY <1>1, <2>1
    <3>2. QED
      BY <2>1, <3>1 DEF Fall
  <2>2. CASE i = Len(q) + 1
    <3>1. t[i] = a /\ \A j \in 1..(i - 1) : j \in 1..Len(q) /\ t[j] = q[j]
      BY <1>1, <2>2
    <3>2. l <= h /\ \A j \in 1..Len(q) : l <= q[j].tag.count
      BY DEF Fall
    <3>3. \A j \in 1..(i - 1) : l <= t[j].tag.count
      BY <3>1, <3>2
    <3>4. t[i].tag.count = l
      BY <3>1
    <3>5. QED
      BY <3>2, <3>3, <3>4
  <2>3. QED
    BY <1>1, <2>1, <2>2
<1>3. l <= h
  BY DEF Fall
<1>4. QED
  BY <1>2, <1>3 DEF Fall, t

LEMMA FallLower ==
  ASSUME NEW q \in Seq(Answer), NEW l \in Nat, NEW h \in Nat, Fall(q, l, h),
         NEW k \in Nat, k <= l
  PROVE  Fall(q, k, h)
<1>1. \A i \in 1..Len(q) : q[i].tag.count \in Nat
  <2>1. ASSUME NEW i \in 1..Len(q) PROVE q[i].tag.count \in Nat
    <3>1. q[i] \in Answer
      OBVIOUS
    <3>2. QED
      BY <3>1 DEF Answer, Tags
  <2>2. QED
    BY <2>1
<1>2. QED
  BY <1>1 DEF Fall

-----------------------------------------------------------------------------
(* What a sample that falls due changes. *)

LEMMA TickFacts ==
  ASSUME Tick
  PROVE  /\ Running
         /\ UNCHANGED <<todo, answers, mem, main, thread, running, sent, job>>
BY DEF Tick, Interrupt, BeginRepeat, Stream, Underflow, Sending, MessageSent, Pause,
       NextRound, link, driver

LEMMA StreamFacts ==
  ASSUME Typing, Stream
  PROVE  /\ tag.count > 0 /\ tag'.count = tag.count - 1 /\ tag'.underflow = tag.underflow
         /\ data # <<>> /\ data' = Tail(data) /\ shown' = Append(shown, Head(data))
         /\ fault' = fault
BY SMTT(30) DEF Stream, Streaming, Typing, Tags

LEMMA UnderflowFacts ==
  ASSUME Typing, Underflow
  PROVE  /\ tag.count > 0 /\ tag'.count = tag.count - 1
         /\ tag'.underflow = (tag.underflow + 1) % UnderflowRange
         /\ data = <<>> /\ data' = data /\ fault' = fault
BY DEF Underflow, Streaming, Typing, Tags

(* The other steps of the tag touch neither the samples nor their counts.  *)
LEMMA RotationFacts ==
  ASSUME Typing, BeginRepeat \/ Sending \/ MessageSent \/ Pause \/ NextRound
  PROVE  /\ tag'.count = tag.count /\ tag'.underflow = tag.underflow
         /\ data' = data /\ shown' = shown
         /\ fault' = fault \/ fault' = "repeat mode must start from 0"
<1>1. CASE BeginRepeat \/ Sending \/ Pause
  BY <1>1 DEF BeginRepeat, Sending, Pause, Typing, Tags, history
<1>2. CASE MessageSent \/ NextRound
  BY <1>2 DEF MessageSent, NextRound, Typing, Tags, history
<1>3. QED
  BY <1>1, <1>2

(* What the tag does with a request.                                       *)
LEMMA ServeFacts ==
  ASSUME Typing, Serve
  PROVE  /\ Running /\ todo # <<>> /\ todo' = Tail(todo) /\ Head(todo) = todo[1]
         /\ UNCHANGED <<mem, main, thread, running, sent, job, shown, rounds>>
BY Carried DEF Serve, Carry, Zero, Reset, Fill, SetCount, SetByte, Read, driver, history

-----------------------------------------------------------------------------
(* Accounting is kept, conjunct by conjunct. *)

LEMMA CallsKept ==
  ASSUME ShortStreams, Discipline, Calls, [Next]_vars
  PROVE  Calls'
<1>1. ASSUME NEW n \in Counts, Send(n) PROVE Calls'
  <2>1. main' = "cleared" /\ thread' = thread /\ job' = [call |-> "send", n |-> n, c |-> 0]
    BY <1>1 DEF Send, Main
  <2>2. QED
    BY <2>1 DEF ShortStreams, Calls, Streams
<1>2. ASSUME NEW n \in Messages, NEW c \in Rounds, Repeat(n, c) PROVE Calls'
  <2>1. main' = "halted" /\ job' = [call |-> "repeat", n |-> n, c |-> c]
    BY <1>2 DEF Repeat, Main
  <2>2. n <= Capacity
    BY SizeAssumption
  <2>3. QED
    BY <2>1, <2>2 DEF Calls, Streams
<1>3. CASE Caller \/ StopEarly
  BY <1>3 DEF Caller, StopEarly, FirstFill, Launch, SetRunning, Waited, Join, Poll, Polled,
              Load, Loaded, Main, Calls, Streams
<1>4. CASE Feeder
  BY <1>4 DEF Feeder, First, Handled, Top, Feed, Sleep, Check, Drain, Drained, Last, Thread,
              Calls, Streams
<1>5. CASE Receiving \/ Serve \/ Tick \/ UNCHANGED vars
  <2>1. main' = main /\ job' = job
    BY <1>5, TickFacts, ServeFacts DEF Discipline, Receiving, TakeAnswer, vars, driver
  <2>2. QED
    BY <2>1 DEF Calls, Streams
<1>6. QED
  BY <1>1, <1>2, <1>3, <1>4, <1>5 DEF Next

(* In counted, the requests are the first samples and then tx_count.       *)
LEMMA CountedBegins ==
  ASSUME Discipline, FirstFill
  PROVE  /\ main = "cleared" /\ main' = "counted" /\ thread.at = "none" /\ thread' = thread
         /\ tag.count = 0 /\ tag.underflow = 0 /\ tag' = tag /\ data = <<>> /\ data' = <<>>
         /\ mem'.count = job.n /\ job' = job /\ fault' = fault /\ Running
         /\ sent' = Smaller(Capacity, job.n) /\ sent' <= Capacity /\ sent' \in Nat
         /\ todo' = Samples(0, sent') \o <<[op |-> "count", n |-> job.n]>>
         /\ shown' = shown
<1>1. /\ main = "cleared" /\ main' = "counted" /\ Answered /\ thread' = thread /\ job' = job
      /\ UNCHANGED <<tag, data, fault, shown>> /\ Running
      /\ sent' = Smaller(Capacity, job.n)
      /\ mem' = [mem EXCEPT !.count = job.n]
      /\ todo' = todo \o (Samples(0, sent') \o <<[op |-> "count", n |-> job.n]>>)
  BY DEF FirstFill, Main, Ask, board, history, Set
<1>2. tag.count = 0 /\ tag.underflow = 0 /\ data = <<>> /\ thread.at = "none"
  BY <1>1 DEF Discipline, Emptying, Threads, Streams, Answered
<1>3. mem'.count = job.n
  BY <1>1 DEF Discipline, Typing
<1>4. sent' <= Capacity /\ sent' \in Nat
  BY <1>1, SizeAssumption, SMTT(30) DEF Smaller, Discipline, Typing
<1>5. todo' = Samples(0, sent') \o <<[op |-> "count", n |-> job.n]>>
  <2> DEFINE k == [op |-> "count", n |-> job.n]
             s == Samples(0, sent') \o <<k>>
  <2>1. k \in RequestType
    BY DEF Discipline, Typing, RequestType, Ops
  <2>2. Samples(0, sent') \in Seq(RequestType)
    BY <1>4, SamplesFacts
  <2> HIDE DEF k
  <2>3. s \in Seq(RequestType)
    BY <2>1, <2>2
  <2>4. todo = <<>> /\ todo' = todo \o s
    BY <1>1 DEF Answered, k
  <2> HIDE DEF s
  <2>5. todo' = s
    BY <2>3, <2>4
  <2>6. QED
    BY <2>5 DEF s, k
<1>6. QED
  BY <1>1, <1>2, <1>3, <1>4, <1>5

LEMMA CountStillPending ==
  ASSUME Discipline, FirstFill
  PROVE  CountPending' /\ Streamed' = 0
<1> DEFINE k == [op |-> "count", n |-> job.n]
<1>1. main' = "counted" /\ sent' \in Nat /\ todo' = Samples(0, sent') \o <<k>>
  BY CountedBegins
<1>2. k \in RequestType
  BY DEF Discipline, Typing, RequestType, Ops
<1>3. Samples(0, sent') \in Seq(RequestType)
  BY <1>1, SamplesFacts
<1> HIDE DEF k
<1>4. Len(Samples(0, sent') \o <<k>>) = Len(Samples(0, sent')) + 1
  BY <1>2, <1>3
<1>5. Len(todo') # 0
  BY <1>1, <1>3, <1>4
<1>6. todo' # <<>>
  BY <1>5
<1>7. QED
  BY <1>1, <1>6 DEF Streamed, CountPending

LEMMA BehindSamples ==
  ASSUME NEW m \in Nat, NEW n \in Nat
  PROVE  Behind(Samples(0, m) \o <<[op |-> "count", n |-> n]>>, n)
<1> DEFINE s == Samples(0, m)
           k == [op |-> "count", n |-> n]
<1>1. s \in Seq(RequestType) /\ Len(s) = m /\ \A i \in 1..m : s[i].op = "fill"
  <2>1. s \in Seq(RequestType) /\ Len(s) = m
        /\ \A i \in 1..m : s[i] = [op |-> "fill", n |-> 0 + i]
    BY SamplesFacts
  <2> HIDE DEF s
  <2>2. QED
    BY <2>1
<1>2. k \in RequestType
  BY DEF RequestType, Ops
<1> HIDE DEF s, k
<1>3. /\ Len(s \o <<k>>) = m + 1 /\ (s \o <<k>>)[m + 1] = k
      /\ \A i \in 1..m : (s \o <<k>>)[i] = s[i]
  BY <1>1, <1>2
<1>4. QED
  BY <1>1, <1>3 DEF Behind, s, k

LEMMA BehindTail ==
  ASSUME NEW q \in Seq(RequestType), q # <<>>, NEW n \in Nat, Behind(q, n)
  PROVE  /\ Behind(Tail(q), n)
         /\ q[1].op = "fill" <=> Tail(q) # <<>>
         /\ q[1].op = "fill" \/ q[1] = [op |-> "count", n |-> n]
<1>1. /\ Len(Tail(q)) = Len(q) - 1 /\ Len(q) \in Nat \ {0} /\ Tail(q) \in Seq(RequestType)
      /\ \A i \in 1..(Len(q) - 1) : Tail(q)[i] = q[i + 1]
  BY TailFacts
<1>2. Len(q) = 1 <=> Tail(q) = <<>>
  <2>1. \A t \in Seq(RequestType) : Len(t) = 0 <=> t = <<>>
    OBVIOUS
  <2>2. Len(Tail(q)) = 0 <=> Tail(q) = <<>>
    BY <1>1, <2>1
  <2>3. QED
    BY <1>1, <2>2
<1>3. CASE Len(q) = 1
  BY <1>2, <1>3 DEF Behind
<1>4. CASE Len(q) # 1
  <2>1. q[1].op = "fill" /\ Tail(q) # <<>>
    BY <1>1, <1>2, <1>4 DEF Behind
  <2>2. Tail(q)[Len(q) - 1] = q[Len(q)]
    BY <1>1, <1>4
  <2>3. \A i \in 1..(Len(q) - 2) : Tail(q)[i].op = "fill"
    <3>1. ASSUME NEW i \in 1..(Len(q) - 2) PROVE Tail(q)[i].op = "fill"
      <4>1. i \in 1..(Len(q) - 1) /\ i + 1 \in 1..(Len(q) - 1)
        BY <1>1
      <4>2. QED
        BY <1>1, <4>1 DEF Behind
    <3>2. QED
      BY <3>1
  <2>4. QED
    BY <1>1, <2>1, <2>2, <2>3 DEF Behind
<1>5. QED
  BY <1>3, <1>4

(* Which request the tag may be carrying out when.                         *)
LEMMA ServeWhere ==
  ASSUME Discipline, Serve
  PROVE  /\ Fits(main, todo[1]) /\ todo # <<>> /\ main # "idle"
         /\ Zero \/ Reset => main \in {"cleared", "emptied"}
         /\ SetCount => main = "counted" /\ todo[1].op = "count"
         /\ Fill => main \in {"counted", "loaded"} \/ thread.at # "none"
         /\ Fill => todo[1].op = "fill"
         /\ SetByte => main \in {"halted", "loaded"} /\ todo[1].op # "fill"
         /\ Read => /\ main = "polled" \/ (Streams /\ thread.at \notin {"none", "drained", "last"})
                    /\ todo[1].op \in ReadOps
<1>1. todo # <<>> /\ Head(todo) = todo[1]
  BY ServeFacts DEF Discipline
<1>2. Fits(main, todo[1])
  BY <1>1, Carried DEF Discipline, Requests, Serve, Carry, Zero, Reset, Fill, SetCount,
                       SetByte, Read
<1>3. main # "idle" /\ (Streams => thread.at \notin {"none", "drained", "last"})
  BY <1>1 DEF Discipline, Quiet, Answered
<1>4. /\ Zero => todo[1].op = "zero"
      /\ Reset => todo[1].op = "reset"
      /\ SetCount => todo[1].op = "count"
      /\ Fill => todo[1].op = "fill"
      /\ SetByte => todo[1].op \in {"low", "high"}
      /\ Read => todo[1].op \in ReadOps
  BY <1>1 DEF Carry, Zero, Reset, Fill, SetCount, SetByte, Read, Reads, ReadOps
<1>5. QED
  BY <1>1, <1>2, <1>3, <1>4 DEF Discipline, Threads, Fits, Streams, ReadOps

(* What carrying out a request changes.                                    *)
LEMMA ServeChanges ==
  ASSUME Typing, Serve
  PROVE  /\ Zero => /\ tag'.count = 0 /\ tag'.underflow = 0
                    /\ data' = data /\ answers' = answers /\ fault' = fault
         /\ Reset => tag' = tag /\ data' = <<>> /\ answers' = answers /\ fault' = fault
         /\ SetCount => /\ tag'.count = todo[1].n /\ tag'.underflow = tag.underflow
                        /\ data' = data /\ answers' = answers /\ fault' = fault
         /\ Fill => tag' = tag /\ answers' = answers
         /\ SetByte => /\ tag'.count = tag.count /\ tag'.underflow = tag.underflow
                       /\ data' = data /\ answers' = answers /\ fault' = fault
         /\ Read => /\ tag' = tag /\ data' = data /\ fault' = fault
                    /\ answers' = Append(answers, [op |-> todo[1].op, tag |-> tag])
<1>1. Head(todo) = todo[1]
  BY ServeFacts
<1>2. tag \in Tags
  BY DEF Typing
<1>3. CASE Zero
  BY <1>2, <1>3 DEF Zero, Reset, Fill, SetCount, SetByte, Read, Carry, Reads, Tags
<1>4. QED
  BY <1>1, <1>2 DEF Zero, Reset, Fill, SetCount, SetByte, Read, Tags, board

LEMMA Unstreamed ==
  ASSUME Typing, Tick, tag.count = 0
  PROVE  /\ tag'.count = 0 /\ tag'.underflow = tag.underflow
         /\ data' = data /\ shown' = shown
<1>1. ~Stream /\ ~Underflow
  BY StreamFacts, UnderflowFacts
<1>2. BeginRepeat \/ Sending \/ MessageSent \/ Pause \/ NextRound
  BY <1>1 DEF Tick
<1>3. QED
  BY <1>2, RotationFacts

(* No sample falls due while tx_count does not go up.                      *)
LEMMA CountsAddUpKept ==
  ASSUME Discipline, Discipline', Calls, CountsAddUp, Ending, [Next]_vars
  PROVE  CountsAddUp'
<1>1. /\ Typing /\ Typing' /\ tag.count \in Nat /\ tag.underflow \in Nat /\ job.n \in Nat
      /\ todo \in Seq(RequestType)
  <2>1. Typing /\ Typing'
    BY DEF Discipline
  <2>2. tag.count \in Nat /\ tag.underflow \in Nat /\ job.n \in Nat
    BY <2>1, SizeAssumption DEF Typing, Tags
  <2>3. todo \in Seq(RequestType)
    BY <2>1 DEF Typing, RequestType
  <2>4. QED
    BY <2>1, <2>2, <2>3
<1>2. CASE FirstFill
  <2>1. /\ main' = "counted" /\ tag'.count = 0 /\ tag'.underflow = 0
        /\ mem'.count = job'.n /\ job' = job /\ sent' <= Capacity /\ sent' \in Nat
        /\ todo' = Samples(0, sent') \o <<[op |-> "count", n |-> job.n]>>
    BY <1>2, CountedBegins
  <2>2. Behind(todo', job'.n)
    BY <1>1, <2>1, BehindSamples
  <2>3. tag'.count + tag'.underflow <= job'.n
    BY <1>1, <2>1
  <2>4. QED
    BY <2>1, <2>2, <2>3 DEF CountsAddUp, Streams
<1>3. CASE Launch
  <2>1. main = "counted" /\ todo = <<>> /\ UNCHANGED <<tag, job>> /\ main' = "launched"
    BY <1>3 DEF Launch, Main, Answered, board
  <2>2. QED
    BY <2>1 DEF CountsAddUp, Streams
<1>4. CASE Join
  <2>1. main = "join" /\ thread.at = "none" /\ UNCHANGED <<tag, job, fault>>
        /\ main' = "idle" /\ Running
    BY <1>4 DEF Join, Main, board
  <2>2. tag.count = 0
    BY <2>1 DEF Ending, Calls, Streams
  <2>3. QED
    BY <2>1, <2>2 DEF CountsAddUp, Streams
<1>5. CASE \/ SetRunning \/ Waited \/ StopEarly \/ Poll \/ Polled \/ Load \/ Loaded
           \/ (\E n \in Counts : Send(n))
           \/ (\E n \in Messages, c \in Rounds : Repeat(n, c))
  <2>1. /\ UNCHANGED <<tag, fault>> /\ main # "counted" /\ main' # "counted"
        /\ Streams' <=> Streams
        /\ Streams => job' = job
    BY <1>5 DEF SetRunning, Waited, StopEarly, Poll, Polled, Load, Loaded, Send, Repeat,
                Main, board, Streams
  <2>2. QED
    BY <2>1 DEF CountsAddUp, Running
<1>6. CASE Feeder
  <2>1. /\ UNCHANGED <<tag, main, job>> /\ Running /\ Streams
    BY <1>6 DEF Feeder, First, Handled, Top, Feed, Sleep, Check, Drain, Drained, Last, Thread,
                board, Discipline, Threads
  <2>2. QED
    BY <2>1 DEF CountsAddUp, Streams
<1>7. CASE Receiving
  <2>1. main # "counted" /\ UNCHANGED <<tag, main, job, fault>>
    BY <1>7 DEF Receiving, TakeAnswer, Discipline, Quiet, board, driver
  <2>2. QED
    BY <2>1 DEF CountsAddUp, Streams, Running
<1>8. CASE Serve
  <2>1. /\ todo # <<>> /\ todo' = Tail(todo) /\ Running
        /\ UNCHANGED <<mem, main, sent, job>>
    BY <1>1, <1>8, ServeFacts
  <2>2. CASE main = "counted"
    <3>1. /\ Behind(todo', job.n) /\ (todo[1].op = "fill" <=> todo' # <<>>)
          /\ todo[1].op = "fill" \/ todo[1] = [op |-> "count", n |-> job.n]
      BY <1>1, <2>1, <2>2, BehindTail DEF CountsAddUp
    <3>2. Fill \/ SetCount
      BY <1>8, <2>2, <3>1, ServeWhere DEF Serve, ReadOps
    <3>3. CASE Fill
      <4>1. tag' = tag /\ todo' # <<>>
        BY <1>1, <1>8, <3>1, <3>3, ServeChanges, ServeWhere
      <4>2. QED
        BY <2>1, <2>2, <3>1, <4>1 DEF CountsAddUp, Streams
    <3>4. CASE SetCount
      <4>1. tag'.count = job.n /\ tag'.underflow = tag.underflow /\ todo' = <<>>
        BY <1>1, <1>8, <3>1, <3>4, ServeChanges, ServeWhere
      <4>2. tag.underflow = 0
        BY <2>1, <2>2 DEF CountsAddUp
      <4>3. QED
        BY <1>1, <2>1, <2>2, <3>1, <4>1, <4>2 DEF CountsAddUp, Streams
    <3>5. QED
      BY <3>2, <3>3, <3>4
  <2>3. CASE main # "counted"
    <3>1. \/ tag'.count = tag.count /\ tag'.underflow = tag.underflow
          \/ tag'.count = 0 /\ ~Streams
      BY <1>1, <1>8, <2>3, ServeChanges, ServeWhere DEF Serve, Streams
    <3>2. QED
      BY <2>1, <2>3, <3>1 DEF CountsAddUp, Streams, Running
  <2>4. QED
    BY <2>2, <2>3
<1>9. CASE Tick
  <2>1. /\ Running /\ UNCHANGED <<todo, mem, main, sent, job>>
    BY <1>9, TickFacts
  <2>2. CASE tag.count = 0
    <3>1. tag'.count = 0 /\ tag'.underflow = tag.underflow
      BY <1>1, <1>9, <2>2, Unstreamed
    <3>2. QED
      BY <2>1, <2>2, <3>1 DEF CountsAddUp, Streams
  <2>3. CASE tag.count # 0
    <3>1. (main = "counted" /\ todo = <<>>) \/ Streams
      BY <2>1, <2>3 DEF CountsAddUp
    <3>2. tag'.count + tag'.underflow <= tag.count + tag.underflow
      <4>1. CASE Stream
        BY <1>1, <4>1, StreamFacts
      <4>2. CASE Underflow
        <5>1. (tag.underflow + 1) % UnderflowRange <= tag.underflow + 1
              /\ (tag.underflow + 1) % UnderflowRange \in Nat
          BY <1>1, SizeAssumption, SMTT(30)
        <5>2. QED
          BY <1>1, <4>2, <5>1, UnderflowFacts
      <4>3. CASE BeginRepeat \/ Sending \/ MessageSent \/ Pause \/ NextRound
        <5>1. tag'.count = tag.count /\ tag'.underflow = tag.underflow
          BY <1>1, <4>3, RotationFacts
        <5>2. QED
          BY <1>1, <5>1
      <4>4. QED
        BY <1>9, <4>1, <4>2, <4>3 DEF Tick
    <3>3. tag'.count + tag'.underflow <= job.n
      <4>1. tag'.count \in Nat /\ tag'.underflow \in Nat
        BY <1>1, SizeAssumption DEF Typing, Tags
      <4>2. QED
        BY <1>1, <3>1, <3>2, <4>1 DEF CountsAddUp
    <3>4. QED
      BY <2>1, <3>1, <3>3 DEF CountsAddUp, Streams
  <2>4. QED
    BY <2>2, <2>3
<1>10. CASE UNCHANGED vars
  BY <1>10 DEF vars, board, link, driver, CountsAddUp, Streams, Running
<1>11. QED
  BY <1>2, <1>3, <1>4, <1>5, <1>6, <1>7, <1>8, <1>9, <1>10 DEF Next, Caller

(* Joining lists of requests in one go or in two.                          *)
LEMMA JoinedTwice ==
  ASSUME NEW q \in Seq(RequestType), NEW s \in Seq(RequestType), NEW r \in Seq(RequestType)
  PROVE  q \o (s \o r) = (q \o s) \o r
OBVIOUS

LEMMA Pair ==
  ASSUME NEW S, NEW l \in S, NEW h \in S
  PROVE  <<l>> \in Seq(S) /\ <<h>> \in Seq(S) /\ <<l>> \o <<h>> = <<l, h>>
<1>1. <<l>> \in Seq(S) /\ <<h>> \in Seq(S) /\ <<l, h>> \in Seq(S)
  OBVIOUS
<1>2. /\ <<l>> \o <<h>> \in Seq(S) /\ Len(<<l>> \o <<h>>) = 2
      /\ (<<l>> \o <<h>>)[1] = l /\ (<<l>> \o <<h>>)[2] = h
  OBVIOUS
<1>3. Len(<<l, h>>) = 2 /\ <<l, h>>[1] = l /\ <<l, h>>[2] = h
  OBVIOUS
<1>4. \A p, q \in Seq(S) : Len(p) = 2 /\ Len(q) = 2 /\ p[1] = q[1] /\ p[2] = q[2] => p = q
  OBVIOUS
<1>5. QED
  BY <1>1, <1>2, <1>3, <1>4, Zenon

LEMMA FollowFirst ==
  ASSUME NEW m \in Nat, NEW r \in RequestType, r.op # "fill"
  PROVE  Follow(Samples(0, m) \o <<r>>, 0, m)
<1>1. 0 \in Int /\ 0 \in Nat /\ m \in Int /\ <<>> \in Seq(RequestType)
  OBVIOUS
<1>2. Follow(<<>>, 0, 0)
  BY <1>1, FollowNothing
<1>3. Follow(<<>> \o Samples(0, m), 0, 0 + m)
  BY <1>1, <1>2, FollowSamples, Zenon
<1>4. Samples(0, m) \in Seq(RequestType)
  BY SamplesFacts
<1>5. <<>> \o Samples(0, m) = Samples(0, m) /\ 0 + m = m
  BY <1>4
<1>6. Follow(Samples(0, m), 0, m)
  BY <1>3, <1>5
<1>7. QED
  BY <1>1, <1>4, <1>6, FollowOther

LEMMA FollowRounds ==
  ASSUME NEW m \in Nat, NEW c \in Nat
  PROVE  Follow(Samples(0, m) \o SetRounds(c), 0, m)
<1> DEFINE l == [op |-> "low", n |-> c % Digit]
           h == [op |-> "high", n |-> c \div Digit]
           s == Samples(0, m)
<1>1. c % Digit \in Nat /\ c \div Digit \in Nat
  BY SizeAssumption
<1>2. l \in RequestType /\ h \in RequestType /\ l.op # "fill" /\ h.op # "fill"
  BY <1>1 DEF RequestType, Ops
<1>3. SetRounds(c) = <<l, h>>
  BY DEF SetRounds, Set
<1>4. s \in Seq(RequestType)
  BY SamplesFacts
<1> HIDE DEF l, h
<1>5. Follow(s \o <<l>>, 0, m)
  BY <1>2, FollowFirst
<1> HIDE DEF s
<1>6. s \o <<l>> \in Seq(RequestType)
  BY <1>2, <1>4
<1>7. Follow((s \o <<l>>) \o <<h>>, 0, m)
  <2>1. 0 \in Int /\ m \in Int
    OBVIOUS
  <2>2. QED
    BY <1>2, <1>5, <1>6, <2>1, FollowOther, Zenon
<1>8. (s \o <<l>>) \o <<h>> = s \o <<l, h>>
  <2>1. <<l>> \in Seq(RequestType) /\ <<h>> \in Seq(RequestType) /\ <<l>> \o <<h>> = <<l, h>>
    BY <1>2, Pair
  <2>2. s \o (<<l>> \o <<h>>) = (s \o <<l>>) \o <<h>>
    BY <1>4, <2>1, JoinedTwice, Zenon
  <2>3. QED
    BY <2>1, <2>2
<1>9. QED
  BY <1>3, <1>7, <1>8 DEF s

(* A sample that falls due leaves the samples filled in as many as before. *)
LEMMA TickCounts ==
  ASSUME Discipline, Discipline', Calls, CountsAddUp, Feeding, Tick
  PROVE  /\ (CountPending' <=> CountPending) /\ Filled' = Filled /\ Asked' = Asked
         /\ Stream => /\ ~CountPending /\ Streamed' = Streamed + 1
         /\ ~Stream => Streamed' = Streamed /\ data' = data
         /\ Underflow => tag'.underflow = tag.underflow + 1
<1>1. /\ Typing /\ Running /\ UNCHANGED <<todo, main, thread, sent, job>>
  BY TickFacts DEF Discipline
<1>2. /\ tag.count \in Nat /\ tag.underflow \in Nat /\ job.n \in Nat /\ sent \in Nat
      /\ data \in Seq(Nat) /\ Len(data) \in Nat
  BY <1>1, SizeAssumption DEF Typing, Tags
<1>3. (CountPending' <=> CountPending) /\ Asked' = Asked
  BY <1>1 DEF CountPending, Asked
<1>4. CountPending => tag.count = 0
  BY <1>1 DEF CountPending, CountsAddUp, Streams
<1>5. CASE Stream
  <2>1. /\ tag.count > 0 /\ tag'.count = tag.count - 1 /\ tag'.underflow = tag.underflow
        /\ data # <<>> /\ data' = Tail(data)
    BY <1>1, <1>5, StreamFacts
  <2>2. ~CountPending /\ ~CountPending'
    BY <1>3, <1>4, <2>1
  <2>3. Streamed' = Streamed + 1 /\ Streamed \in Int
    BY <1>1, <1>2, <2>1, <2>2, SMTT(30) DEF Streamed
  <2>4. Len(data') = Len(data) - 1
    BY <1>2, <2>1
  <2>5. Filled' = Filled
    BY <1>2, <2>3, <2>4 DEF Filled
  <2>6. ~Underflow
    BY <1>1, <2>1, UnderflowFacts
  <2>7. QED
    BY <1>3, <1>5, <2>2, <2>3, <2>5, <2>6
<1>6. CASE Underflow
  <2>1. /\ tag.count > 0 /\ tag'.count = tag.count - 1
        /\ tag'.underflow = (tag.underflow + 1) % UnderflowRange
        /\ data' = data
    BY <1>1, <1>6, UnderflowFacts
  <2>2. (main = "counted" /\ todo = <<>>) \/ Streams
    BY <1>1, <1>2, <2>1 DEF CountsAddUp
  <2>3. tag.count + tag.underflow <= job.n /\ job.n < UnderflowRange
    BY <2>2 DEF CountsAddUp, Calls
  <2>4. tag'.underflow = tag.underflow + 1
    <3>1. tag.underflow + 1 \in 0..(UnderflowRange - 1)
      BY <1>2, <2>1, <2>3, SizeAssumption, SMTT(30)
    <3>2. \A u \in 0..(UnderflowRange - 1) : u % UnderflowRange = u
      BY SizeAssumption
    <3>3. QED
      BY <2>1, <3>1, <3>2
  <2>5. ~CountPending /\ ~CountPending'
    BY <1>2, <1>3, <1>4, <2>1
  <2>6. Streamed' = Streamed
    BY <1>1, <1>2, <2>1, <2>4, <2>5, SMTT(30) DEF Streamed
  <2>7. Filled' = Filled
    BY <2>1, <2>6 DEF Filled
  <2>8. ~Stream
    BY <1>1, <2>1, StreamFacts
  <2>9. QED
    BY <1>3, <2>1, <2>4, <2>6, <2>7, <2>8
<1>7. CASE ~Stream /\ ~Underflow
  <2>1. BeginRepeat \/ Sending \/ MessageSent \/ Pause \/ NextRound
    BY <1>7 DEF Tick
  <2>2. tag'.count = tag.count /\ tag'.underflow = tag.underflow /\ data' = data
    BY <1>1, <2>1, RotationFacts
  <2>3. Streamed' = Streamed
    BY <1>1, <1>3, <2>2 DEF Streamed
  <2>4. Filled' = Filled
    BY <2>2, <2>3 DEF Filled
  <2>5. QED
    BY <1>3, <1>7, <2>2, <2>3, <2>4
<1>8. QED
  BY <1>5, <1>6, <1>7

(* While samples are being filled in, the tag's carrying out of a request  *)
(* streams nothing, and writes no other data.                              *)
LEMMA ServeStreamed ==
  ASSUME Discipline, CountsAddUp, Feeding, Serve
  PROVE  /\ Streamed' = Streamed /\ tag'.underflow = tag.underflow
         /\ ~Fill => todo[1].op # "fill" /\ data' = data
<1>1. /\ Typing /\ tag.count \in Nat /\ tag.underflow \in Nat /\ job.n \in Nat
      /\ todo \in Seq(RequestType)
  <2>1. Typing
    BY DEF Discipline
  <2>2. tag.count \in Nat /\ tag.underflow \in Nat /\ job.n \in Nat
    BY <2>1, SizeAssumption DEF Typing, Tags
  <2>3. QED
    BY <2>1, <2>2 DEF Typing, RequestType
<1>2. /\ todo # <<>> /\ todo' = Tail(todo) /\ Running
      /\ UNCHANGED <<mem, main, thread, sent, job>>
  BY <1>1, ServeFacts
<1>3. CASE Fill
  <2>1. todo[1].op = "fill" /\ tag' = tag
    BY <1>1, <1>3, ServeWhere, ServeChanges
  <2>2. CountPending' <=> CountPending
    BY <1>1, <1>2, <2>1, BehindTail DEF CountPending, CountsAddUp
  <2>3. QED
    BY <1>2, <1>3, <2>1, <2>2 DEF Streamed
<1>4. CASE ~Fill
  <2>1. todo[1].op # "fill" /\ data' = data
    BY <1>1, <1>4, ServeWhere, ServeChanges
    DEF Serve, ReadOps, Feeding, Fits, Discipline, Threads, Streams
  <2>2. CASE SetCount
    <3>1. /\ main = "counted" /\ todo[1].op = "count" /\ tag'.count = todo[1].n
          /\ tag'.underflow = tag.underflow
      BY <1>1, <2>2, ServeWhere, ServeChanges
    <3>2. /\ todo[1] = [op |-> "count", n |-> job.n] /\ todo' = <<>>
          /\ tag.underflow = 0
      BY <1>1, <1>2, <3>1, BehindTail DEF CountsAddUp
    <3>3. CountPending /\ ~CountPending'
      BY <1>2, <3>1, <3>2 DEF CountPending
    <3>4. Streamed' = Streamed
      BY <1>1, <1>2, <3>1, <3>2, <3>3 DEF Streamed
    <3>5. QED
      BY <2>1, <3>1, <3>4
  <2>3. CASE ~SetCount
    <3>1. tag'.count = tag.count /\ tag'.underflow = tag.underflow
      BY <1>1, <1>4, <2>3, ServeWhere, ServeChanges
      DEF Serve, Feeding, Discipline, Threads, Streams
    <3>2. main # "counted"
      BY <1>1, <1>4, <2>3, ServeWhere DEF Serve, ReadOps, Fits
    <3>3. CountPending' <=> CountPending
      BY <1>2, <3>2 DEF CountPending
    <3>4. Streamed' = Streamed
      BY <1>2, <3>1, <3>3 DEF Streamed
    <3>5. QED
      BY <2>1, <3>1, <3>4
  <2>4. QED
    BY <2>2, <2>3
<1>5. QED
  BY <1>3, <1>4

LEMMA FillsFollowKept ==
  ASSUME Discipline, Discipline', Calls, CountsAddUp, FillsFollow, [Next]_vars
  PROVE  FillsFollow'
<1>1. /\ Typing /\ tag.count \in Nat /\ tag.underflow \in Nat /\ job.n \in Nat
      /\ job.c \in Nat /\ sent \in Nat /\ data \in Seq(Nat) /\ Len(data) \in Nat
      /\ todo \in Seq(RequestType)
  <2>1. Typing
    BY DEF Discipline
  <2>2. /\ tag.count \in Nat /\ tag.underflow \in Nat /\ job.n \in Nat /\ job.c \in Nat
        /\ sent \in Nat
    BY <2>1, SizeAssumption, ForeverIsPositive DEF Typing, Tags
  <2>3. data \in Seq(Nat) /\ Len(data) \in Nat /\ todo \in Seq(RequestType)
    BY <2>1 DEF Typing, RequestType
  <2>4. QED
    BY <2>1, <2>2, <2>3
<1>2. Filled \in Int /\ Asked \in Nat /\ Asked \in Int
  BY <1>1 DEF Filled, Streamed, Asked
<1>3. CASE FirstFill
  <2>1. /\ main' = "counted" /\ data' = <<>> /\ sent' \in Nat
        /\ todo' = Samples(0, sent') \o <<[op |-> "count", n |-> job.n]>>
    BY <1>3, CountedBegins
  <2>2. [op |-> "count", n |-> job.n] \in RequestType
    BY <1>1 DEF RequestType, Ops
  <2>3. Follow(todo', 0, sent')
    BY <2>1, <2>2, FollowFirst
  <2>4. Streamed' = 0
    BY <1>3, CountStillPending
  <2>5. Filled' = 0 /\ Asked' = sent'
    BY <2>1, <2>4 DEF Filled, Asked
  <2>6. QED
    BY <2>3, <2>5 DEF FillsFollow
<1>4. CASE Load
  <2>1. /\ main' = "loaded" /\ UNCHANGED <<data, job>> /\ data = <<>>
        /\ todo = <<>> /\ todo' = todo \o (Samples(0, job.n) \o SetRounds(job.c))
    BY <1>4 DEF Load, Main, Ask, Answered, board, Discipline, Emptying
  <2>2. Follow(Samples(0, job.n) \o SetRounds(job.c), 0, job.n)
    BY <1>1, FollowRounds
  <2>3. todo' = Samples(0, job.n) \o SetRounds(job.c)
    <3>1. Samples(0, job.n) \in Seq(RequestType) /\ SetRounds(job.c) \in Seq(RequestType)
      BY <1>1, SamplesFacts, RoundsFacts
    <3>2. Samples(0, job.n) \o SetRounds(job.c) \in Seq(RequestType)
      BY <3>1, JoinFacts
    <3>3. QED
      BY <2>1, <3>2
  <2>4. Filled' = 0 /\ Asked' = job.n
    BY <2>1 DEF Filled, Streamed, CountPending, Asked
  <2>5. QED
    BY <2>2, <2>3, <2>4 DEF FillsFollow
<1>5. ASSUME UNCHANGED <<tag, data, job>>, Feeding, Streams \/ todo = <<>>, Streams',
             Follow(todo', Filled, sent'), main # "loaded"
      PROVE  FillsFollow'
  <2>1. ~CountPending /\ ~CountPending'
    BY <1>5 DEF CountPending, Streams
  <2>2. Filled' = Filled /\ Asked' = sent'
    BY <1>5, <2>1 DEF Filled, Streamed, Asked, Streams
  <2>3. QED
    BY <1>5, <2>2 DEF FillsFollow
<1>6. CASE Launch
  <2>1. /\ main = "counted" /\ main' = "launched" /\ todo = <<>> /\ Running
        /\ UNCHANGED <<tag, data, job, todo, sent>>
    BY <1>6 DEF Launch, Main, Answered, board, link
  <2>2. Feeding /\ Streams' /\ Asked = sent
    BY <2>1 DEF Feeding, Streams, Asked
  <2>3. Follow(todo', Filled, sent')
    BY <2>1, <2>2 DEF FillsFollow
  <2>4. QED
    BY <1>5, <2>1, <2>2, <2>3
<1>7. CASE Feeder
  <2>1. /\ thread.at # "none" /\ Running /\ Streams /\ Feeding /\ Streams'
        /\ UNCHANGED <<tag, data, job, main>> /\ Asked = sent
    BY <1>7, ZenonT(40)
    DEF Feeder, First, Handled, Top, Feed, Sleep, Check, Drain, Drained, Last, Thread,
                board, Discipline, Threads, Streams, Feeding, Asked
  <2>2. Follow(todo, Filled, sent)
    BY <2>1 DEF FillsFollow
  <2>3. CASE UNCHANGED <<todo, sent>>
    BY <1>5, <2>1, <2>2, <2>3 DEF Streams
  <2>4. CASE Last
    BY <2>1, <2>4 DEF Last, Thread, FillsFollow, Feeding, Streams
  <2>5. ASSUME NEW op \in ReadOps, Ask(<<Do(op)>>), sent' = sent
        PROVE  FillsFollow'
    <3>1. Do(op) \in RequestType /\ Do(op).op # "fill"
      BY DoFacts DEF Ops, ReadOps
    <3>2. Follow(todo \o <<Do(op)>>, Filled, sent)
      BY <1>1, <1>2, <2>2, <3>1, FollowOther
    <3>3. QED
      BY <1>5, <2>1, <2>5, <3>2 DEF Ask, Streams
  <2>6. CASE First \/ Sleep \/ Drain
    BY <2>5, <2>6 DEF First, Sleep, Drain, ReadOps
  <2>7. CASE Drained
    BY <2>3, <2>5, <2>7 DEF Drained, ReadOps, link
  <2>8. CASE Feed
    <3>1. CASE GetLen <= Capacity
      <4> DEFINE r == Do("read_both")
                 s == Samples(sent, GetLen)
      <4>1. GetLen \in Nat
        BY <1>1, <2>8, <3>1, SizeAssumption, SMTT(30) DEF Feed, GetLen, Room, Smaller, Typing
      <4>2. sent' = sent + GetLen /\ todo' = todo \o (s \o <<r>>)
        BY <2>8, <3>1 DEF Feed, Ask
      <4>3. r \in RequestType /\ r.op # "fill" /\ s \in Seq(RequestType)
        BY <1>1, <4>1, DoFacts, SamplesFacts DEF Ops
      <4>4. Follow(todo \o s, Filled, sent + GetLen)
        BY <1>1, <1>2, <2>2, <4>1, FollowSamples
      <4> HIDE DEF r, s
      <4>5. todo \o s \in Seq(RequestType)
        BY <1>1, <4>3, JoinFacts
      <4>6. Follow((todo \o s) \o <<r>>, Filled, sent + GetLen)
        <5>1. sent + GetLen \in Int
          BY <1>1, <4>1
        <5>2. QED
          BY <1>2, <4>3, <4>4, <4>5, <5>1, FollowOther, Zenon
      <4>7. <<r>> \in Seq(RequestType)
        BY <4>3
      <4>8. todo' = (todo \o s) \o <<r>>
        BY <1>1, <4>2, <4>3, <4>7, JoinedTwice
      <4>9. QED
        BY <1>5, <2>1, <4>2, <4>6, <4>8 DEF Streams
    <3>2. CASE ~(GetLen <= Capacity)
      BY <2>3, <2>8, <3>2 DEF Feed, link
    <3>3. QED
      BY <3>1, <3>2
  <2>9. CASE Handled \/ Top \/ Check
    BY <2>3, <2>9 DEF Handled, Top, Check, Thread, link
  <2>10. QED
    BY <1>7, <2>4, <2>6, <2>7, <2>8, <2>9 DEF Feeder
<1>8. CASE SetRunning \/ Waited \/ StopEarly
  <2>1. /\ Streams /\ Streams' /\ Running /\ UNCHANGED <<tag, data, job, todo, sent, thread>>
    BY <1>8 DEF SetRunning, Waited, StopEarly, Main, board, link, Streams
  <2>2. CASE thread.at # "none"
    <3>1. Feeding /\ Asked = sent
      BY <2>1, <2>2 DEF Feeding, Streams, Asked
    <3>2. QED
      BY <1>5, <2>1, <3>1 DEF FillsFollow, Streams
  <2>3. CASE thread.at = "none"
    BY <2>1, <2>3 DEF FillsFollow, Feeding, Streams
  <2>4. QED
    BY <2>2, <2>3
<1>9. CASE \/ Join \/ Poll \/ Polled \/ Loaded \/ (\E n \in Counts : Send(n))
           \/ (\E n \in Messages, c \in Rounds : Repeat(n, c))
  <2>1. main' \notin {"counted", "loaded"} /\ thread'.at = "none"
    BY <1>9 DEF Join, Poll, Polled, Loaded, Send, Repeat, Main, Discipline, Threads, Streams
  <2>2. QED
    BY <2>1 DEF FillsFollow, Feeding
<1>10. CASE Receiving \/ UNCHANGED vars
  <2>1. UNCHANGED <<tag, data, job, todo, sent, thread, main, fault>>
    BY <1>10 DEF Receiving, TakeAnswer, vars, board, link, driver
  <2>2. Filled' = Filled /\ Asked' = Asked /\ (Feeding' <=> Feeding)
    BY <2>1 DEF Filled, Streamed, CountPending, Asked, Feeding, Running
  <2>3. QED
    BY <2>1, <2>2 DEF FillsFollow
<1>11. CASE Tick
  <2>1. todo' = todo /\ main' = main /\ thread' = thread /\ Running
    BY <1>11, TickFacts
  <2>2. CASE Feeding
    BY <1>11, <2>1, <2>2, TickCounts DEF FillsFollow
  <2>3. CASE ~Feeding
    BY <2>1, <2>3 DEF FillsFollow, Feeding
  <2>4. QED
    BY <2>2, <2>3
<1>12. CASE Serve
  <2>1. /\ todo # <<>> /\ todo' = Tail(todo) /\ Running
        /\ UNCHANGED <<mem, main, thread, sent, job>>
    BY <1>1, <1>12, ServeFacts
  <2>2. CASE ~Feeding
    BY <2>1, <2>2 DEF FillsFollow, Feeding
  <2>3. CASE Feeding
    <3>1. Follow(todo, Filled, Asked) /\ Asked' = Asked
      BY <2>1, <2>3 DEF FillsFollow, Asked
    <3>2. CASE Fill
      <4>1. todo[1].op = "fill" /\ tag' = tag
        BY <1>1, <1>12, <3>2, ServeWhere, ServeChanges
      <4>2. Follow(todo', Filled + 1, Asked)
        BY <1>1, <1>2, <2>1, <3>1, <4>1, FollowFill
      <4>3. CountPending' <=> CountPending
        BY <1>1, <2>1, <4>1, BehindTail DEF CountPending, CountsAddUp
      <4>4. CASE Len(data) < Capacity
        <5>1. data' = Append(data, Head(todo).n)
          BY <3>2, <4>4 DEF Fill
        <5>2. Len(data') = Len(data) + 1
          <6>1. Head(todo).n \in Nat
            BY <1>1, <2>1, Carried
          <6>2. QED
            BY <1>1, <5>1, <6>1
        <5>3. Filled' = Filled + 1
          <6>1. Streamed' = Streamed /\ Streamed \in Int
            BY <1>1, <2>1, <4>1, <4>3 DEF Streamed
          <6>2. QED
            BY <1>1, <5>2, <6>1 DEF Filled
        <5>4. QED
          BY <3>1, <4>2, <5>3 DEF FillsFollow
      <4>5. CASE ~(Len(data) < Capacity)
        BY <3>2, <4>5 DEF Fill, FillsFollow, Feeding, Running
      <4>6. QED
        BY <4>4, <4>5
    <3>3. CASE ~Fill
      <4>1. todo[1].op # "fill" /\ data' = data
        BY <1>12, <2>3, <3>3, ServeStreamed
      <4>2. Follow(todo', Filled, Asked)
        BY <1>1, <1>2, <2>1, <3>1, <4>1, FollowTail, Zenon
      <4>3. Streamed' = Streamed
        BY <1>12, <2>3, <3>3, ServeStreamed
      <4>4. Filled' = Filled
        BY <4>1, <4>3 DEF Filled
      <4>5. QED
        BY <3>1, <4>2, <4>4 DEF FillsFollow
    <3>4. QED
      BY <3>2, <3>3
  <2>4. QED
    BY <2>2, <2>3
<1>13. QED
  BY <1>3, <1>4, <1>6, <1>7, <1>8, <1>9, <1>10, <1>11, <1>12 DEF Next, Caller
(* What the PC writes at once fits into the room it reckons with.          *)
LEMMA GetLenFacts ==
  ASSUME Typing, sent + mem.count <= Capacity + job.n
  PROVE  /\ GetLen \in Nat /\ Room \in Nat /\ GetLen <= Room /\ Capacity \in Nat
         /\ GetLen <= job.n - sent
         /\ Room = Capacity + job.n - sent - mem.count
<1>1. /\ sent \in Nat /\ job.n \in Nat /\ sent <= job.n /\ mem.count \in Nat
      /\ Capacity \in Nat
  BY SizeAssumption DEF Typing
<1>2. Room = Capacity + job.n - sent - mem.count
  BY DEF Room
<1>3. Room \in Nat
  BY <1>1, <1>2
<1>4. /\ GetLen = (IF Room < 0 THEN job.n - sent
                  ELSE (IF Room <= job.n - sent THEN Room ELSE job.n - sent))
  BY DEF GetLen, Smaller
<1>5. job.n - sent \in Nat
  BY <1>1
<1>6. GetLen \in Nat /\ GetLen <= Room /\ GetLen <= job.n - sent
  BY <1>3, <1>4, <1>5
<1>7. QED
  BY <1>1, <1>2, <1>3, <1>6

LEMMA OldCountsKept ==
  ASSUME Discipline, Discipline', CountsAddUp, OldCounts, [Next]_vars
  PROVE  OldCounts'
<1>1. /\ Typing /\ tag.count \in Nat /\ tag.underflow \in Nat /\ job.n \in Nat
      /\ sent \in Nat /\ mem.count \in Nat /\ answers \in Seq(Answer) /\ tag'.count \in Nat
  <2>1. Typing /\ tag'.count \in Nat
    BY DEF Discipline, Typing, Tags
  <2>2. /\ tag.count \in Nat /\ tag.underflow \in Nat /\ job.n \in Nat
        /\ sent \in Nat /\ mem.count \in Nat
    BY <2>1, SizeAssumption DEF Typing, Tags
  <2>3. QED
    BY <2>1, <2>2 DEF Typing, Answer
<1>2. ASSUME Streams, UNCHANGED <<tag, mem, answers, job>>,
             sent' + mem.count <= Capacity + job.n
      PROVE  OldCounts'
  BY <1>2 DEF OldCounts
<1>3. CASE Launch
  <2>1. /\ main = "counted" /\ todo = <<>> /\ answers = <<>>
        /\ UNCHANGED <<tag, mem, answers, job, sent>>
    BY <1>3 DEF Launch, Main, Answered, board, link
  <2>2. Fall(answers', tag'.count, mem'.count)
    BY <1>1, <2>1 DEF CountsAddUp, Fall
  <2>3. sent' + mem'.count <= Capacity + job'.n
    BY <1>1, <2>1, SizeAssumption DEF CountsAddUp
  <2>4. QED
    BY <2>2, <2>3 DEF OldCounts
<1>4. CASE SetRunning \/ Waited \/ StopEarly
  <2>1. Streams /\ UNCHANGED <<tag, mem, answers, job, sent>>
    BY <1>4 DEF SetRunning, Waited, StopEarly, Main, Streams, board, link
  <2>2. QED
    BY <1>2, <2>1 DEF OldCounts
<1>5. CASE \/ FirstFill \/ Join \/ Poll \/ Polled \/ Load \/ Loaded
           \/ (\E n \in Counts : Send(n))
           \/ (\E n \in Messages, c \in Rounds : Repeat(n, c))
  <2>1. ~Streams'
    BY <1>5 DEF FirstFill, Join, Poll, Polled, Load, Loaded, Send, Repeat, Main, Streams
  <2>2. QED
    BY <2>1 DEF OldCounts
<1>6. CASE Feeder
  <2>1. Streams /\ UNCHANGED <<tag, mem, answers, job>>
    BY <1>6 DEF Feeder, First, Handled, Top, Feed, Sleep, Check, Drain, Drained, Last, Thread,
                Ask, link, board, Discipline, Threads, Streams
  <2>2. sent + mem.count <= Capacity + job.n
    BY <2>1 DEF OldCounts
  <2>3. CASE Feed
    <3>1. /\ GetLen \in Nat /\ Capacity \in Nat
          /\ GetLen <= Capacity + job.n - sent - mem.count
      BY <1>1, <2>2, GetLenFacts
    <3>2. sent' = sent \/ sent' = sent + GetLen
      BY <2>3 DEF Feed
    <3>3. sent' + mem.count <= Capacity + job.n
      BY <1>1, <2>2, <3>1, <3>2, SMTT(30)
    <3>4. QED
      BY <1>2, <2>1, <3>3
  <2>4. CASE ~Feed
    <3>1. sent' = sent \/ sent' = 0
      BY <1>6, <2>4 DEF Feeder, First, Handled, Top, Sleep, Check, Drain, Drained, Last
    <3>2. sent' + mem.count <= Capacity + job.n
      BY <1>1, <2>2, <3>1, SizeAssumption
    <3>3. QED
      BY <1>2, <2>1, <3>2
  <2>5. QED
    BY <2>3, <2>4
<1>7. CASE Receiving
  <2>1. /\ answers # <<>> /\ answers' = Tail(answers) /\ Receive(Head(answers))
        /\ UNCHANGED <<tag, main, sent, job>>
    BY <1>7 DEF Receiving, TakeAnswer, board, driver
  <2>2. Head(answers) = answers[1] /\ Head(answers) \in Answer
    BY <1>1, <2>1, TailFacts
  <2>3. mem'.count = mem.count \/ mem'.count = answers[1].tag.count
    BY <1>1, <2>1, <2>2, ReceiveFacts DEF Typing, Answer
  <2>4. CASE Streams
    <3>1. Fall(answers, tag.count, mem.count) /\ sent + mem.count <= Capacity + job.n
      BY <2>4 DEF OldCounts
    <3>2. Fall(Tail(answers), tag.count, mem.count)
            /\ Fall(Tail(answers), tag.count, answers[1].tag.count)
      BY <1>1, <2>1, <3>1, FallTail
    <3>3. answers[1].tag.count <= mem.count /\ answers[1].tag.count \in Nat
      <4>1. 1 \in 1..Len(answers)
        BY <1>1, <2>1
      <4>2. QED
        BY <2>2, <3>1, <4>1 DEF Fall, Answer, Tags
    <3>4. sent' + mem'.count <= Capacity + job'.n
      <4>1. Capacity \in Nat /\ sent' = sent /\ job' = job
        BY <2>1, SizeAssumption
      <4>2. mem'.count \in Nat /\ mem'.count <= mem.count
        BY <1>1, <2>3, <3>3
      <4>3. sent + mem'.count <= Capacity + job.n
        BY <1>1, <3>1, <4>1, <4>2, SMTT(30)
      <4>4. QED
        BY <4>1, <4>3
    <3>5. Fall(answers', tag'.count, mem'.count)
      BY <2>1, <2>3, <3>2
    <3>6. QED
      BY <3>4, <3>5 DEF OldCounts
  <2>5. CASE ~Streams
    BY <2>1, <2>5 DEF OldCounts, Streams
  <2>6. QED
    BY <2>4, <2>5
<1>8. CASE Serve
  <2>1. UNCHANGED <<mem, main, thread, sent, job>> /\ todo # <<>>
    BY <1>1, <1>8, ServeFacts
  <2>2. CASE Streams
    <3>1. Fill \/ Read
      BY <1>8, <2>2, ServeWhere DEF Serve, Streams
    <3>2. CASE Fill
      <4>1. tag' = tag /\ answers' = answers
        BY <1>1, <1>8, <3>2, ServeChanges
      <4>2. QED
        BY <1>2, <2>1, <2>2, <4>1 DEF OldCounts
    <3>3. CASE Read
      <4> DEFINE a == [op |-> todo[1].op, tag |-> tag]
      <4>1. /\ tag' = tag /\ answers' = Append(answers, a)
            /\ todo[1].op \in ReadOps
        BY <1>1, <1>8, <3>3, ServeChanges, ServeWhere
      <4>2. a \in Answer /\ a.tag.count = tag.count
        BY <1>1, <4>1 DEF Typing, Answer
      <4>3. Fall(answers, tag.count, mem.count) /\ sent + mem.count <= Capacity + job.n
        BY <2>2 DEF OldCounts
      <4> HIDE DEF a
      <4>4. Fall(Append(answers, a), tag.count, mem.count)
        BY <1>1, <4>2, <4>3, FallAnswer
      <4>5. QED
        BY <2>1, <4>1, <4>3, <4>4 DEF OldCounts
    <3>4. QED
      BY <3>1, <3>2, <3>3
  <2>3. CASE ~Streams
    BY <2>1, <2>3 DEF OldCounts, Streams
  <2>4. QED
    BY <2>2, <2>3
<1>9. CASE Tick
  <2>1. UNCHANGED <<mem, main, sent, job, answers>>
    BY <1>9, TickFacts
  <2>2. tag'.count <= tag.count
    <3>1. CASE Stream
      BY <1>1, <3>1, StreamFacts
    <3>2. CASE Underflow
      BY <1>1, <3>2, UnderflowFacts
    <3>3. CASE BeginRepeat \/ Sending \/ MessageSent \/ Pause \/ NextRound
      <4>1. tag'.count = tag.count
        BY <1>1, <3>3, RotationFacts
      <4>2. QED
        BY <1>1, <4>1
    <3>4. QED
      BY <1>9, <3>1, <3>2, <3>3 DEF Tick
  <2>3. CASE Streams
    <3>1. Fall(answers, tag'.count, mem.count)
      BY <1>1, <2>2, <2>3, FallLower DEF OldCounts
    <3>2. QED
      BY <2>1, <2>3, <3>1 DEF OldCounts
  <2>4. CASE ~Streams
    BY <2>1, <2>4 DEF OldCounts, Streams
  <2>5. QED
    BY <2>3, <2>4
<1>10. CASE UNCHANGED vars
  BY <1>10 DEF vars, board, link, driver, OldCounts, Streams
<1>11. QED
  BY <1>3, <1>4, <1>5, <1>6, <1>7, <1>8, <1>9, <1>10 DEF Next, Caller

(* Where the tag has no room, or the PC would write too much, a sample has *)
(* come late.                                                              *)
LEMMA NeverTooManyKept ==
  ASSUME Discipline, Discipline', Calls, CountsAddUp, FillsFollow, OldCounts, NeverTooMany,
         [Next]_vars
  PROVE  NeverTooMany'
<1>1. /\ Typing /\ tag.count \in Nat /\ tag.underflow \in Nat /\ job.n \in Nat
      /\ sent \in Nat /\ mem.count \in Nat /\ Len(data) \in Nat
      /\ todo \in Seq(RequestType)
  <2>1. Typing
    BY DEF Discipline
  <2>2. /\ tag.count \in Nat /\ tag.underflow \in Nat /\ job.n \in Nat
        /\ sent \in Nat /\ mem.count \in Nat
    BY <2>1, SizeAssumption DEF Typing, Tags
  <2>3. QED
    BY <2>1, <2>2 DEF Typing, RequestType
<1>2. CASE Fill
  <2>1. /\ todo # <<>> /\ Running /\ tag' = tag /\ todo[1].op = "fill" /\ Serve
        /\ main \in {"counted", "loaded"} \/ thread.at # "none"
    BY <1>1, <1>2, ServeFacts, ServeWhere, ServeChanges DEF Serve
  <2>2. Filled \in Int /\ Asked \in Int
    BY <1>1 DEF Filled, Streamed, Asked
  <2>3. Filled + 1 <= Asked
    BY <1>1, <2>1, <2>2, FollowFill DEF FillsFollow, Feeding
  <2>4. CASE tag.underflow = 0
    <3> Capacity \in Nat
      BY SizeAssumption
    <3>1. ASSUME main = "loaded"  PROVE Len(data) < Capacity
      <4>1. Filled = Len(data) /\ Asked = job.n
        BY <1>1, <3>1 DEF Filled, Streamed, CountPending, Asked
      <4>2. job.n <= Capacity
        BY <3>1 DEF Calls
      <4>3. QED
        BY <1>1, <2>3, <4>1, <4>2
    <3>2. ASSUME main = "counted"  PROVE Len(data) < Capacity
      <4>1. Filled = Len(data) /\ Asked = sent
        BY <1>1, <2>1, <3>2 DEF Filled, Streamed, CountPending, Asked
      <4>2. sent <= Capacity
        BY <3>2 DEF CountsAddUp
      <4>3. QED
        BY <1>1, <2>3, <4>1, <4>2
    <3>3. ASSUME thread.at # "none"  PROVE Len(data) < Capacity
      <4>1. Streams /\ Asked = sent /\ ~CountPending
        BY <3>3 DEF Discipline, Threads, Streams, Asked, CountPending
      <4>2. Filled = (job.n - tag.count - tag.underflow) + Len(data)
        BY <4>1 DEF Filled, Streamed
      <4>3. Len(data) + job.n - tag.count + 1 <= sent
        BY <1>1, <2>3, <2>4, <4>1, <4>2
      <4>4. tag.count <= mem.count /\ sent + mem.count <= Capacity + job.n
        BY <4>1 DEF OldCounts, Fall
      <4>5. QED
        BY <1>1, <4>3, <4>4
    <3>4. Len(data) < Capacity => fault' = fault
      BY <1>2 DEF Fill
    <3>5. Len(data) < Capacity
      BY <2>1, <3>1, <3>2, <3>3
    <3>6. QED
      BY <2>1, <3>4, <3>5 DEF NeverTooMany, Running
  <2>5. QED
    BY <2>1, <2>4 DEF NeverTooMany
<1>3. CASE Feed
  <2>1. /\ tag' = tag /\ Running /\ thread.at = "size" /\ GetLen > 0
        /\ GetLen <= Capacity => fault' = fault
    BY <1>3 DEF Feed, Thread, board
  <2>2. Streams /\ Asked = sent /\ ~CountPending /\ Feeding
    BY <2>1 DEF Discipline, Threads, Streams, Asked, CountPending, Feeding
  <2>3. CASE tag.underflow = 0
    <3>1. Len(data) + job.n - tag.count <= sent
      <4>1. Filled = (job.n - tag.count - tag.underflow) + Len(data) /\ Filled <= sent
        BY <2>2 DEF FillsFollow, Follow, Filled, Streamed
      <4>2. QED
        BY <1>1, <2>3, <4>1
    <3>2. tag.count <= mem.count /\ sent + mem.count <= Capacity + job.n
      BY <2>2 DEF OldCounts, Fall
    <3>3. GetLen <= Capacity
      <4>1. /\ GetLen \in Nat /\ Capacity \in Nat
            /\ GetLen <= Capacity + job.n - sent - mem.count
        BY <1>1, <3>2, GetLenFacts
      <4>2. QED
        BY <1>1, <3>1, <3>2, <4>1, SMTT(30)
    <3>4. QED
      BY <2>1, <3>3 DEF NeverTooMany, Running
  <2>4. QED
    BY <2>1, <2>3 DEF NeverTooMany
<1>4. ASSUME fault' = fault \/ fault' \in {"repeat mode must start from 0",
                                           "tx overflow occurs", "tx_underflow"},
             Running \/ (fault' = fault /\ tag' = tag)
      PROVE  NeverTooMany'
  BY <1>4 DEF NeverTooMany, Running
<1>5. CASE Serve /\ ~Fill
  BY <1>1, <1>4, <1>5, ServeFacts, ServeChanges DEF Serve
<1>6. CASE Tick
  <2>1. fault' = fault \/ fault' = "repeat mode must start from 0"
    BY <1>1, <1>6, StreamFacts, UnderflowFacts, RotationFacts DEF Tick
  <2>2. QED
    BY <1>4, <1>6, <2>1, TickFacts
<1>7. CASE Feeder /\ ~Feed
  BY <1>4, <1>7 DEF Feeder, First, Handled, Top, Sleep, Check, Drain, Drained, Last, Thread
<1>8. CASE \/ Caller \/ StopEarly \/ Receiving \/ UNCHANGED vars
           \/ (\E n \in Counts : Send(n))
           \/ (\E n \in Messages, c \in Rounds : Repeat(n, c))
  <2>1. fault' = fault /\ tag' = tag
    BY <1>8 DEF Caller, StopEarly, FirstFill, Launch, SetRunning, Waited, Join, Poll, Polled,
                Load, Loaded, Send, Repeat, Main, Receiving, TakeAnswer, vars, board
  <2>2. QED
    BY <1>4, <2>1
<1>9. QED
  BY <1>2, <1>3, <1>5, <1>6, <1>7, <1>8 DEF Next, Serve, Feeder

(* The samples 1..s shown, and then the next.                              *)
LEMMA OneMore ==
  ASSUME NEW s \in Nat
  PROVE  Append([i \in 1..s |-> i], s + 1) = [i \in 1..(s + 1) |-> i]
<1> DEFINE f == [i \in 1..s |-> i]
           g == [i \in 1..(s + 1) |-> i]
           h == Append(f, s + 1)
<1>1. f \in Seq(Nat) /\ Len(f) = s /\ \A i \in 1..s : f[i] = i
  OBVIOUS
<1>2. g \in Seq(Nat) /\ Len(g) = s + 1 /\ \A i \in 1..(s + 1) : g[i] = i
  OBVIOUS
<1>3. /\ h \in Seq(Nat) /\ Len(h) = s + 1 /\ \A i \in 1..s : h[i] = i
      /\ h[s + 1] = s + 1
  <2> HIDE DEF f
  <2>1. QED
    BY <1>1
<1> HIDE DEF f, g, h
<1>4. \A i \in 1..(s + 1) : h[i] = g[i]
  BY <1>2, <1>3
<1>5. h = g
  BY <1>2, <1>3, <1>4
<1>6. QED
  BY <1>5 DEF f, g, h

LEMMA SamplesInOrderKept ==
  ASSUME Discipline, Discipline', Calls, CountsAddUp, FillsFollow, SamplesInOrder, Ending,
         [Next]_vars
  PROVE  SamplesInOrder'
<1>1. /\ Typing /\ tag.count \in Nat /\ tag.underflow \in Nat /\ job.n \in Nat
      /\ data \in Seq(Nat) /\ Len(data) \in Nat /\ todo \in Seq(RequestType)
  <2>1. Typing
    BY DEF Discipline
  <2>2. tag.count \in Nat /\ tag.underflow \in Nat /\ job.n \in Nat
    BY <2>1, SizeAssumption DEF Typing, Tags
  <2>3. QED
    BY <2>1, <2>2 DEF Typing, RequestType
<1>2. Streamed \in Int
  BY <1>1 DEF Streamed
<1>3. CASE FirstFill
  <2>1. /\ data' = <<>> /\ shown' = shown /\ Running /\ main = "cleared" /\ Streamed' = 0
    BY <1>3, CountedBegins, CountStillPending
  <2>2. shown' = <<>>
    BY <2>1 DEF Ending
  <2>3. [i \in 1..Streamed' |-> i] = <<>>
    BY <2>1
  <2>4. QED
    BY <2>1, <2>2, <2>3 DEF SamplesInOrder
<1>4. ASSUME UNCHANGED <<tag, data, job, shown, fault>>, ~CountPending, ~CountPending',
             main = "counted" \/ thread.at # "none"
      PROVE  SamplesInOrder'
  <2>1. Streamed' = Streamed
    BY <1>4 DEF Streamed
  <2>2. QED
    BY <1>4, <2>1 DEF SamplesInOrder, Running
<1>5. CASE Launch
  <2>1. /\ main = "counted" /\ main' = "launched" /\ todo = <<>>
        /\ UNCHANGED <<tag, data, job, shown, fault>>
    BY <1>5 DEF Launch, Main, Answered, board, link, history
  <2>2. QED
    BY <1>4, <2>1 DEF CountPending
<1>6. CASE Feeder
  <2>1. /\ thread.at # "none" /\ Streams /\ Streams' /\ Running
        /\ UNCHANGED <<tag, data, job, shown>>
    BY <1>6, ZenonT(40)
    DEF Feeder, First, Handled, Top, Feed, Sleep, Check, Drain, Drained, Last, Thread,
                board, history, Discipline, Threads, Streams
  <2>2. ~CountPending /\ ~CountPending'
    BY <2>1 DEF CountPending, Streams
  <2>3. Streamed' = Streamed
    BY <2>1, <2>2 DEF Streamed
  <2>4. QED
    BY <2>1, <2>3 DEF SamplesInOrder
<1>7. CASE SetRunning \/ Waited \/ StopEarly
  <2>1. /\ Streams /\ Streams' /\ UNCHANGED <<tag, data, job, shown, fault, thread>>
    BY <1>7 DEF SetRunning, Waited, StopEarly, Main, board, history, Streams
  <2>2. ~CountPending /\ ~CountPending' /\ main' # "counted"
    BY <2>1 DEF CountPending, Streams
  <2>3. CASE thread.at # "none"
    BY <1>4, <2>1, <2>2, <2>3
  <2>4. CASE thread.at = "none"
    BY <2>1, <2>2, <2>4 DEF SamplesInOrder
  <2>5. QED
    BY <2>3, <2>4
<1>8. CASE \/ Join \/ Poll \/ Polled \/ Load \/ Loaded \/ (\E n \in Counts : Send(n))
           \/ (\E n \in Messages, c \in Rounds : Repeat(n, c))
  <2>1. main' # "counted" /\ thread'.at = "none"
    BY <1>8 DEF Join, Poll, Polled, Load, Loaded, Send, Repeat, Main, Discipline, Threads,
                Streams
  <2>2. QED
    BY <2>1 DEF SamplesInOrder
<1>9. CASE Receiving \/ UNCHANGED vars
  <2>1. UNCHANGED <<tag, data, job, shown, todo, thread, main, fault>>
    BY <1>9 DEF Receiving, TakeAnswer, vars, board, link, driver, history
  <2>2. Streamed' = Streamed
    BY <2>1 DEF Streamed, CountPending
  <2>3. QED
    BY <2>1, <2>2 DEF SamplesInOrder, Running
<1>10. CASE Tick
  <2>1. UNCHANGED <<main, thread>> /\ Running
    BY <1>10, TickFacts
  <2>2. CASE main = "counted" \/ thread.at # "none"
    <3>1. Feeding
      BY <2>1, <2>2 DEF Feeding
    <3>2. /\ \A k \in 1..Len(data) : data[k] = Streamed + k
          /\ tag.underflow = 0 => shown = [i \in 1..Streamed |-> i]
      BY <2>1, <2>2 DEF SamplesInOrder
    <3>3. CASE Stream
      <4>1. /\ ~CountPending /\ Streamed' = Streamed + 1
            /\ tag'.underflow = tag.underflow /\ data # <<>> /\ data' = Tail(data)
            /\ shown' = Append(shown, Head(data))
        BY <1>1, <1>10, <3>1, <3>3, TickCounts, StreamFacts
      <4>2. Streamed \in Nat
        <5>1. (main = "counted" /\ todo = <<>>) \/ Streams
          BY <2>2, <4>1 DEF CountPending, Discipline, Threads
        <5>2. tag.count + tag.underflow <= job.n
          BY <5>1 DEF CountsAddUp
        <5>3. QED
          BY <1>1, <4>1, <5>2, SMTT(30) DEF Streamed
      <4>3. /\ Len(data') = Len(data) - 1 /\ Head(data) = data[1] /\ 1 \in 1..Len(data)
            /\ \A k \in 1..(Len(data) - 1) : data'[k] = data[k + 1]
        BY <1>1, <4>1, TailFacts
      <4>4. \A k \in 1..Len(data') : data'[k] = Streamed' + k
        <5>1. ASSUME NEW k \in 1..(Len(data) - 1) PROVE data'[k] = Streamed' + k
          <6>1. data'[k] = data[k + 1] /\ k + 1 \in 1..Len(data)
            BY <1>1, <4>3
          <6>2. data[k + 1] = Streamed + (k + 1)
            BY <3>2, <6>1
          <6>3. QED
            BY <4>1, <4>2, <6>1, <6>2
        <5>2. QED
          BY <4>3, <5>1
      <4>5. Head(data) = Streamed + 1
        BY <3>2, <4>3
      <4>6. tag'.underflow = 0 => shown' = [i \in 1..Streamed' |-> i]
        <5>1. ASSUME tag'.underflow = 0 PROVE shown' = [i \in 1..Streamed' |-> i]
          <6>1. shown' = Append([i \in 1..Streamed |-> i], Streamed + 1)
            BY <3>2, <4>1, <4>5, <5>1
          <6>2. QED
            BY <4>1, <4>2, <6>1, OneMore
        <5>2. QED
          BY <5>1
      <4>7. QED
        BY <4>4, <4>6 DEF SamplesInOrder
    <3>4. CASE Underflow
      <4>1. /\ tag'.underflow = tag.underflow + 1 /\ Streamed' = Streamed /\ data' = data
        BY <1>1, <1>10, <3>1, <3>4, TickCounts, UnderflowFacts, StreamFacts
      <4>2. tag'.underflow # 0
        BY <1>1, <4>1
      <4>3. QED
        BY <3>2, <4>1, <4>2 DEF SamplesInOrder
    <3>5. CASE ~Stream /\ ~Underflow
      <4>1. BeginRepeat \/ Sending \/ MessageSent \/ Pause \/ NextRound
        BY <1>10, <3>5 DEF Tick
      <4>2. /\ tag'.underflow = tag.underflow /\ shown' = shown
            /\ Streamed' = Streamed /\ data' = data
        BY <1>1, <1>10, <3>1, <3>5, <4>1, TickCounts, RotationFacts
      <4>3. QED
        BY <3>2, <4>2 DEF SamplesInOrder
    <3>6. QED
      BY <3>3, <3>4, <3>5
  <2>3. CASE ~(main = "counted" \/ thread.at # "none")
    BY <2>1, <2>3 DEF SamplesInOrder
  <2>4. QED
    BY <2>2, <2>3
<1>11. CASE Serve
  <2>1. /\ todo # <<>> /\ Running
        /\ UNCHANGED <<main, thread, sent, job, shown>>
    BY <1>1, <1>11, ServeFacts
  <2>2. CASE main = "counted" \/ thread.at # "none"
    <3>1. Feeding
      BY <2>1, <2>2 DEF Feeding
    <3>2. /\ \A k \in 1..Len(data) : data[k] = Streamed + k
          /\ tag.underflow = 0 => shown = [i \in 1..Streamed |-> i]
      BY <2>1, <2>2 DEF SamplesInOrder
    <3>3. Streamed' = Streamed /\ tag'.underflow = tag.underflow
      BY <1>11, <3>1, ServeStreamed
    <3>4. CASE data' = data
      BY <2>1, <3>2, <3>3, <3>4 DEF SamplesInOrder
    <3>5. CASE Fill /\ data' # data
      <4>1. todo[1].op = "fill" /\ data' = Append(data, Head(todo).n)
        BY <1>1, <1>11, <3>5, ServeWhere DEF Fill
      <4>2. Head(todo) = todo[1] /\ todo[1].n \in Nat
        BY <1>1, <1>11, ServeFacts, RequestTyped
      <4>3. Filled \in Int /\ Asked \in Int /\ Filled = Streamed + Len(data)
        BY <1>1, <1>2 DEF Filled, Asked, Typing
      <4>4. todo[1].n = Filled + 1
        BY <1>1, <2>1, <3>1, <4>1, <4>3, FollowFill DEF FillsFollow
      <4>5. /\ Len(data') = Len(data) + 1 /\ data'[Len(data) + 1] = todo[1].n
            /\ \A k \in 1..Len(data) : data'[k] = data[k]
        BY <1>1, <4>1, <4>2
      <4>6. \A k \in 1..Len(data') : data'[k] = Streamed + k
        <5>1. ASSUME NEW k \in 1..(Len(data) + 1) PROVE data'[k] = Streamed + k
          <6>1. CASE k \in 1..Len(data)
            BY <3>2, <4>5, <6>1
          <6>2. CASE k = Len(data) + 1
            <7>1. data'[k] = Streamed + Len(data) + 1
              BY <4>3, <4>4, <4>5, <6>2
            <7>2. QED
              BY <1>1, <1>2, <6>2, <7>1
          <6>3. QED
            BY <1>1, <6>1, <6>2
        <5>2. QED
          BY <4>5, <5>1
      <4>7. QED
        BY <2>1, <3>2, <3>3, <4>6 DEF SamplesInOrder
    <3>6. QED
      BY <1>11, <3>1, <3>4, <3>5, ServeStreamed
  <2>3. CASE ~(main = "counted" \/ thread.at # "none")
    BY <2>1, <2>3 DEF SamplesInOrder
  <2>4. QED
    BY <2>2, <2>3
<1>12. QED
  BY <1>3, <1>5, <1>6, <1>7, <1>8, <1>9, <1>10, <1>11 DEF Next, Caller

(* Where a step takes the thread that feeds the stream.                    *)
LEMMA FeederMoves ==
  ASSUME Feeder
  PROVE  /\ ~Drained => thread'.next # "last"
         /\ ~Handled /\ ~Last => thread'.at \in {"handle", "blocked", "top", "drain"}
<1>1. CASE First
  BY <1>1 DEF First, Thread
<1>2. CASE Sleep
  BY <1>2 DEF Sleep, Thread
<1>3. CASE Check
  BY <1>3 DEF Check, Thread
<1>4. CASE Handled
  <2>1. thread' = [at |-> thread.next, next |-> "none"]
    BY <1>4 DEF Handled, Thread
  <2>2. QED
    BY <1>4, <2>1
<1>5. CASE Top
  BY <1>5 DEF Top, Thread
<1>6. CASE Feed
  <2>1. Thread("size", "handle", "check")
    BY <1>6 DEF Feed
  <2>2. QED
    BY <2>1 DEF Thread
<1>7. CASE Drain \/ Last
  BY <1>7 DEF Drain, Last, Thread
<1>8. CASE Drained
  BY <1>8 DEF Drained, Thread
<1>9. QED
  BY <1>1, <1>2, <1>3, <1>4, <1>5, <1>6, <1>7, <1>8 DEF Feeder

LEMMA EndingKept ==
  ASSUME Discipline, Discipline', Calls, Calls', CountsAddUp, FillsFollow, OldCounts,
         SamplesInOrder, Ending, [Next]_vars
  PROVE  Ending'
<1> DEFINE Shown == Running /\ main = "cleared" => shown = <<>>
           Seen ==
             thread.at = "blocked" /\ thread.next = "last" =>
               /\ tag.count = 0
               /\ \/ todo = <<[op |-> "read_underflow", n |-> 0]>> /\ answers = <<>>
                  \/ /\ todo = <<>> /\ Len(answers) = 1
                     /\ answers[1].op = "read_underflow"
                     /\ answers[1].tag.underflow = tag.underflow
                  \/ Answered /\ mem.underflow = tag.underflow
           AtLast == thread.at = "last" => tag.count = 0 /\ mem.underflow = tag.underflow
           Ended ==
             /\ Running /\ job.call = "send"
             /\ main = "idle" \/ (Streams /\ thread.at = "none")
             => tag.count = 0 /\ shown = [i \in 1..job.n |-> i]
<1>1. Shown /\ Seen /\ AtLast /\ Ended
  BY DEF Ending
<1>2. /\ Typing /\ tag.count \in Nat /\ tag.underflow \in Nat /\ job.n \in Nat
      /\ mem.count \in Nat /\ sent \in Nat /\ sent <= job.n
      /\ todo \in Seq(RequestType) /\ answers \in Seq(Answer) /\ Len(data) \in Nat
  <2>1. Typing
    BY DEF Discipline
  <2>2. tag.count \in Nat /\ tag.underflow \in Nat /\ job.n \in Nat /\ mem.count \in Nat
    BY <2>1, SizeAssumption DEF Typing, Tags
  <2>3. sent \in Nat /\ sent <= job.n
    BY <2>1, <2>2 DEF Typing
  <2>4. QED
    BY <2>1, <2>2, <2>3 DEF Typing, RequestType, Answer
<1>3. Shown'
  <2>1. CASE \E n \in Counts : Send(n)
    BY <2>1 DEF Send
  <2>2. CASE \/ Caller \/ Feeder \/ Receiving \/ StopEarly \/ UNCHANGED vars
             \/ (\E n \in Messages, c \in Rounds : Repeat(n, c))
    <3>1. shown' = shown /\ (main' = "cleared" => main = "cleared" /\ (Running' => Running))
      BY <2>2 DEF Caller, Feeder, FirstFill, Launch, SetRunning, Waited, Join, Poll, Polled, Load,
                  Loaded, First, Handled, Top, Feed, Sleep, Check, Drain, Drained, Last,
                  Thread, Main, Receiving, TakeAnswer, StopEarly, Repeat, vars, driver,
                  history, Running
    <3>2. QED
      BY <1>1, <3>1
  <2>3. CASE Serve
    BY <1>1, <1>2, <2>3, ServeFacts
  <2>4. CASE Tick
    <3>1. main' = main /\ Running
      BY <2>4, TickFacts
    <3>2. CASE main = "cleared"
      <4>1. tag.count = 0
        BY <3>1, <3>2 DEF CountsAddUp, Streams
      <4>2. shown' = shown
        BY <1>2, <2>4, <4>1, Unstreamed
      <4>3. QED
        BY <1>1, <3>1, <4>2
    <3>3. QED
      BY <3>1, <3>2
  <2>5. QED
    BY <2>1, <2>2, <2>3, <2>4 DEF Next
<1> HIDE DEF Shown
<1>4. Seen'
  <2>1. CASE thread' = thread /\ ~(thread.at = "blocked" /\ thread.next = "last")
    BY <2>1
  <2>2. CASE /\ \/ Caller \/ StopEarly \/ (\E n \in Counts : Send(n))
                \/ (\E n \in Messages, c \in Rounds : Repeat(n, c)) \/ UNCHANGED vars
             /\ thread.at = "blocked" /\ thread.next = "last"
    <3>1. Streams
      BY <2>2 DEF Discipline, Threads
    <3>2. UNCHANGED <<tag, todo, answers, mem, thread>>
      BY <2>2, <3>1 DEF Caller, FirstFill, Launch, SetRunning, Waited, Join, Poll, Polled, Load,
                        Loaded, Send, Repeat, StopEarly, Main, Streams, vars, board, link, driver
    <3>3. QED
      BY <1>1, <3>2 DEF Answered
  <2>3. CASE \/ Caller \/ StopEarly \/ (\E n \in Counts : Send(n))
             \/ (\E n \in Messages, c \in Rounds : Repeat(n, c)) \/ UNCHANGED vars
    <3>1. thread' = thread \/ thread'.at = "first"
      BY <2>3 DEF Caller, FirstFill, Launch, SetRunning, Waited, Join, Poll, Polled, Load,
                  Loaded, Send, Repeat, StopEarly, Main, vars, driver
    <3>2. CASE thread'.at = "first"
      BY <3>2
    <3>3. CASE thread' = thread
      BY <2>1, <2>2, <2>3, <3>3
    <3>4. QED
      BY <3>1, <3>2, <3>3
  <2>4. CASE Feeder
    <3>1. CASE Drained
      <4>1. CASE mem.count = 0
        <5>1. /\ thread.at = "drained" /\ tag' = tag /\ todo' = todo \o <<Do("read_underflow")>>
              /\ answers' = answers
          BY <3>1, <4>1 DEF Drained, Thread, Ask, board
        <5>2. Answered /\ Streams
          BY <5>1 DEF Discipline, Threads, Quiet
        <5>3. Do("read_underflow") \in RequestType
          BY DoFacts DEF Ops
        <5>4. todo' = <<[op |-> "read_underflow", n |-> 0]>>
          <6> DEFINE r == Do("read_underflow")
          <6>1. r = [op |-> "read_underflow", n |-> 0]
            BY DEF Do
          <6>2. r \in RequestType
            BY <5>3
          <6> HIDE DEF r
          <6>3. <<>> \o <<r>> = <<r>>
            BY <6>2
          <6>4. QED
            BY <5>1, <5>2, <6>1, <6>3 DEF Answered, r
        <5>5. tag.count <= mem.count
          BY <5>2 DEF OldCounts, Fall
        <5>6. tag'.count = 0
          BY <1>2, <4>1, <5>1, <5>5
        <5>7. QED
          BY <5>1, <5>2, <5>4, <5>6 DEF Answered
      <4>2. CASE mem.count # 0
        BY <3>1, <4>2 DEF Drained, Thread
      <4>3. QED
        BY <4>1, <4>2
    <3>2. CASE First \/ Handled \/ Top \/ Feed \/ Sleep \/ Check \/ Drain \/ Last
      <4>1. CASE ~Drained
        BY <2>4, <4>1, FeederMoves
      <4>2. QED
        BY <3>1, <4>1
    <3>3. QED
      BY <2>4, <3>1, <3>2 DEF Feeder
  <2>5. CASE (Receiving \/ Serve \/ Tick) /\ thread.at = "blocked" /\ thread.next = "last"
    <3>1. Streams /\ thread' = thread
      BY <1>2, <2>5, ServeFacts, TickFacts DEF Discipline, Threads, Receiving, TakeAnswer, driver
    <3>2. tag.count = 0
      BY <1>1, <2>5
    <3>3. CASE Tick
      <4>1. /\ tag'.count = 0 /\ tag'.underflow = tag.underflow
            /\ UNCHANGED <<todo, answers, mem>>
        BY <1>2, <3>2, <3>3, Unstreamed, TickFacts
      <4>2. QED
        BY <1>1, <2>5, <4>1 DEF Answered
    <3>4. CASE Receiving
      <4>1. /\ answers # <<>> /\ answers' = Tail(answers) /\ Receive(Head(answers))
            /\ UNCHANGED <<tag, todo>> /\ Head(answers) = answers[1] /\ answers[1] \in Answer
        <5>1. /\ answers # <<>> /\ answers' = Tail(answers) /\ Receive(Head(answers))
              /\ UNCHANGED <<tag, todo>>
          BY <3>4 DEF Receiving, TakeAnswer, board
        <5>2. QED
          BY <1>2, <5>1, TailFacts
      <4>2. /\ todo = <<>> /\ Len(answers) = 1 /\ answers[1].op = "read_underflow"
            /\ answers[1].tag.underflow = tag.underflow
        BY <1>1, <2>5, <4>1 DEF Answered
      <4>3. mem'.underflow = tag.underflow
        BY <1>2, <4>1, <4>2, ReceiveFacts DEF Typing, Answer
      <4>4. answers' = <<>>
        BY <1>2, <4>1, <4>2
      <4>5. QED
        BY <3>2, <4>1, <4>2, <4>3, <4>4 DEF Answered
    <3>5. CASE Serve
      <4>1. /\ todo # <<>> /\ todo' = Tail(todo) /\ mem' = mem
        BY <1>2, <3>5, ServeFacts
      <4>2. todo = <<[op |-> "read_underflow", n |-> 0]>> /\ answers = <<>>
        BY <1>1, <2>5, <4>1 DEF Answered
      <4>3. todo[1].op = "read_underflow" /\ todo' = <<>>
        <5> DEFINE r == [op |-> "read_underflow", n |-> 0]
        <5>1. r \in RequestType /\ r.op = "read_underflow"
          BY DEF RequestType, Ops
        <5> HIDE DEF r
        <5>2. <<r>>[1] = r /\ Tail(<<r>>) = <<>>
          BY <5>1
        <5>3. QED
          BY <4>1, <4>2, <5>1, <5>2 DEF r
      <4>4. Read
        BY <1>2, <3>1, <3>5, <4>3, ServeWhere DEF Serve, Streams
      <4>5. tag' = tag /\ answers' = Append(answers, [op |-> todo[1].op, tag |-> tag])
        BY <1>2, <3>5, <4>4, ServeChanges
      <4>6. /\ Len(answers') = 1 /\ answers'[1].op = "read_underflow"
            /\ answers'[1].tag.underflow = tag.underflow
        <5> DEFINE a == [op |-> todo[1].op, tag |-> tag]
        <5>1. a \in Answer /\ a.op = "read_underflow" /\ a.tag = tag
          BY <1>2, <4>3 DEF Answer, Typing, ReadOps
        <5> HIDE DEF a
        <5>2. Len(Append(<<>>, a)) = 1 /\ Append(<<>>, a)[1] = a
          BY <5>1
        <5>3. QED
          BY <4>2, <4>5, <5>1, <5>2 DEF a
      <4>7. QED
        BY <3>2, <4>3, <4>5, <4>6
    <3>6. QED
      BY <2>5, <3>3, <3>4, <3>5
  <2>6. CASE Receiving \/ Serve \/ Tick
    <3>1. thread' = thread
      BY <1>2, <2>6, ServeFacts, TickFacts DEF Receiving, TakeAnswer, driver
    <3>2. QED
      BY <2>1, <2>5, <2>6, <3>1
  <2>7. QED
    BY <2>3, <2>4, <2>6 DEF Next
<1>5. AtLast'
  <2>1. CASE thread' = thread /\ thread.at # "last"
    BY <2>1
  <2>2. CASE thread' = thread /\ thread.at = "last"
    <3>1. Streams /\ Answered /\ tag.count = 0 /\ mem.underflow = tag.underflow
      BY <1>1, <2>2 DEF Discipline, Threads, Quiet
    <3>2. CASE Tick
      BY <1>2, <3>1, <3>2, Unstreamed, TickFacts
    <3>3. CASE Serve \/ Receiving
      BY <1>2, <3>1, <3>3, ServeFacts DEF Answered, Receiving, TakeAnswer
    <3>4. CASE ~Tick /\ ~Serve /\ ~Receiving
      <4>1. ~Feeder
        BY <2>2 DEF Feeder, First, Handled, Top, Feed, Sleep, Check, Drain, Drained, Last, Thread
      <4>2. tag' = tag /\ mem' = mem
        BY <3>1, <3>4, <4>1
        DEF Next, Caller, FirstFill, Launch, SetRunning, Waited, Join, Poll, Polled, Load,
            Loaded, Send, Repeat, StopEarly, Main, Streams, vars, board
      <4>3. QED
        BY <3>1, <4>2
    <3>5. QED
      BY <3>2, <3>3, <3>4
  <2>3. CASE thread' # thread /\ thread'.at = "last"
    <3>1. Feeder
      BY <1>2, <2>3, ServeFacts, TickFacts
      DEF Next, Caller, FirstFill, Launch, SetRunning, Waited, Join, Poll, Polled, Load,
          Loaded, Send, Repeat, StopEarly, Main, Receiving, TakeAnswer, vars, driver
    <3>2. Handled
      BY <2>3, <3>1, FeederMoves DEF Last, Thread
    <3>3. /\ thread.at = "blocked" /\ thread.next = "last" /\ Answered
          /\ UNCHANGED <<tag, mem>>
      BY <2>3, <3>2 DEF Handled, Thread, board, Discipline, Threads
    <3>4. tag.count = 0 /\ mem.underflow = tag.underflow
      <4> DEFINE r == [op |-> "read_underflow", n |-> 0]
      <4>1. r \in RequestType
        BY DEF RequestType, Ops
      <4> HIDE DEF r
      <4>2. <<r>> # <<>>
        BY <4>1
      <4>3. QED
        BY <1>1, <3>3, <4>2 DEF Answered, r
    <3>5. QED
      BY <3>3, <3>4
  <2>4. CASE thread'.at # "last"
    BY <2>4
  <2>5. QED
    BY <2>1, <2>2, <2>3, <2>4
<1> HIDE DEF Seen
<1>6. Ended'
  <2>1. CASE Last
    <3>1. /\ thread.at = "last" /\ Running /\ Streams /\ Answered /\ ~CountPending
          /\ tag.count = 0 /\ mem.underflow = tag.underflow
          /\ UNCHANGED <<tag, shown, job, data>>
      BY <1>1, <2>1 DEF Last, Thread, Discipline, Threads, Quiet, CountPending, Streams,
                        board, history
    <3>2. fault' = IF mem.underflow = 0 THEN fault ELSE "tx_underflow"
      BY <2>1 DEF Last
    <3>3. CASE mem.underflow # 0
      BY <3>2, <3>3 DEF Running
    <3>4. CASE mem.underflow = 0
      <4>1. shown = [i \in 1..Streamed |-> i]
        BY <3>1, <3>4 DEF SamplesInOrder
      <4>2. Streamed = job.n
        BY <1>2, <3>1, <3>4 DEF Streamed
      <4>3. QED
        BY <3>1, <4>1, <4>2
    <3>5. QED
      BY <3>3, <3>4
  <2>2. ASSUME Running' => Running, UNCHANGED <<tag, job, shown>>,
               main' = "idle" => main = "idle" \/ (Streams /\ thread.at = "none"),
               Streams' /\ thread'.at = "none" => Streams /\ thread.at = "none"
        PROVE  Ended'
    BY <1>1, <2>2
  <2>3. CASE Feeder /\ ~Last
    <3>1. Running /\ UNCHANGED <<tag, job, shown, main>> /\ thread.at # "none"
      BY <2>3 DEF Feeder, First, Handled, Top, Feed, Sleep, Check, Drain, Drained, Thread,
                  board, history
    <3>2. thread'.at # "none"
      <4>1. CASE Handled
        BY <3>1, <4>1 DEF Handled, Thread, Discipline, Threads
      <4>2. CASE ~Handled
        BY <2>3, <4>2, FeederMoves
      <4>3. QED
        BY <4>1, <4>2
    <3>3. Streams
      BY <3>1 DEF Discipline, Threads
    <3>4. QED
      BY <2>2, <3>1, <3>2, <3>3 DEF Streams
  <2>4. CASE Receiving \/ UNCHANGED vars
    <3>1. UNCHANGED <<tag, job, shown, main, thread, fault>>
      BY <2>4 DEF Receiving, TakeAnswer, vars, board, driver, history
    <3>2. QED
      BY <2>2, <3>1 DEF Running, Streams
  <2>5. CASE FirstFill \/ Launch \/ SetRunning \/ Waited \/ StopEarly \/ Join
    <3>1. UNCHANGED <<tag, job, shown, fault>>
      BY <2>5 DEF FirstFill, Launch, SetRunning, Waited, StopEarly, Join, Main, board, history
    <3>2. main' = "idle" => Streams /\ thread.at = "none"
      BY <2>5 DEF FirstFill, Launch, SetRunning, Waited, StopEarly, Join, Main, Streams
    <3>3. Streams' /\ thread'.at = "none" => Streams /\ thread.at = "none"
      BY <2>5 DEF FirstFill, Launch, SetRunning, Waited, StopEarly, Join, Main, Streams
    <3>4. QED
      BY <2>2, <3>1, <3>2, <3>3 DEF Running
  <2>6. CASE Poll \/ Polled \/ Load \/ Loaded
    <3>1. job' = job /\ main \in {"halted", "polled", "emptied", "loaded"}
      BY <2>6 DEF Poll, Polled, Load, Loaded, Main
    <3>2. job.call = "repeat"
      BY <3>1 DEF Calls
    <3>3. QED
      BY <3>1, <3>2
  <2>7. CASE \/ (\E n \in Counts : Send(n))
             \/ (\E n \in Messages, c \in Rounds : Repeat(n, c))
    BY <2>7 DEF Send, Repeat, Main, Streams
  <2>8. CASE Serve
    <3>1. UNCHANGED <<main, thread, job>> /\ main # "idle" /\ todo # <<>>
      BY <1>2, <2>8, ServeFacts, ServeWhere
    <3>2. ~(Streams /\ thread.at = "none")
      BY <3>1 DEF Discipline, Quiet, Answered
    <3>3. QED
      BY <3>1, <3>2 DEF Streams
  <2>9. CASE Tick
    <3>1. UNCHANGED <<main, thread, job>> /\ Running
      BY <2>9, TickFacts
    <3>2. CASE job.call = "send" /\ (main = "idle" \/ (Streams /\ thread.at = "none"))
      <4>1. tag.count = 0 /\ shown = [i \in 1..job.n |-> i]
        BY <1>1, <3>1, <3>2
      <4>2. tag'.count = 0 /\ shown' = shown
        BY <1>2, <2>9, <4>1, Unstreamed
      <4>3. QED
        BY <3>1, <4>1, <4>2
    <3>3. CASE ~(job.call = "send" /\ (main = "idle" \/ (Streams /\ thread.at = "none")))
      BY <3>1, <3>3 DEF Streams
    <3>4. QED
      BY <3>2, <3>3
  <2>10. QED
    BY <2>1, <2>3, <2>4, <2>5, <2>6, <2>7, <2>8, <2>9 DEF Next, Caller
<1>7. QED
  BY <1>3, <1>4, <1>5, <1>6 DEF Ending, Shown, Seen

-----------------------------------------------------------------------------
LEMMA InitAccounting ==
  ASSUME Init
  PROVE  Accounting
<1>1. /\ main = "idle" /\ thread = [at |-> "none", next |-> "none"] /\ fault = "none"
      /\ tag.count = 0 /\ job = [call |-> "none", n |-> 0, c |-> 0]
  BY DEF Init
<1>2. 0 <= Capacity /\ 0 < UnderflowRange
  BY SizeAssumption
<1>3. Calls /\ CountsAddUp /\ FillsFollow /\ OldCounts /\ SamplesInOrder /\ Ending
  BY <1>1, <1>2 DEF Calls, CountsAddUp, FillsFollow, Feeding, OldCounts, SamplesInOrder,
                    Ending, Streams
<1>4. NeverTooMany
  BY <1>1 DEF NeverTooMany
<1>5. QED
  BY <1>3, <1>4 DEF Accounting

LEMMA AccountingKept ==
  ASSUME ShortStreams, Discipline, Discipline', Accounting, [Next]_vars
  PROVE  Accounting'
<1>1. /\ Calls /\ CountsAddUp /\ FillsFollow /\ OldCounts /\ SamplesInOrder /\ Ending
      /\ NeverTooMany
  BY DEF Accounting
<1>2. Calls'
  BY <1>1, CallsKept
<1>3. CountsAddUp'
  BY <1>1, CountsAddUpKept
<1>4. FillsFollow'
  BY <1>1, FillsFollowKept
<1>5. OldCounts'
  BY <1>1, OldCountsKept
<1>6. NeverTooMany'
  BY <1>1, NeverTooManyKept
<1>7. SamplesInOrder'
  BY <1>1, SamplesInOrderKept
<1>8. Ending'
  BY <1>1, <1>2, EndingKept
<1>9. QED
  BY <1>2, <1>3, <1>4, <1>5, <1>6, <1>7, <1>8 DEF Accounting

LEMMA SpecAccounting ==
  ASSUME ShortStreams
  PROVE  Spec => []Accounting
<1>1. Init => Accounting
  BY InitAccounting
<1>2. Discipline /\ Discipline' /\ Accounting /\ [Next]_vars => Accounting'
  BY AccountingKept
<1>3. QED
  BY <1>1, <1>2, SpecDiscipline, PTL DEF Spec

(* Neither the tag's fifo nor that of the PC is asked to take more than it *)
(* has room for, whatever the age of the tx_count the PC reckons with, as  *)
(* long as no sample came late (tag-L4xx-ex.h:298-305); for streams of     *)
(* fewer samples than tx_underflow can count, which wraps.                 *)
THEOREM Throttled ==
  ASSUME ShortStreams
  PROVE  Spec => []NeverTooMany
<1>1. Accounting => NeverTooMany
  BY DEF Accounting
<1>2. QED
  BY <1>1, SpecAccounting, PTL

(* When tx_send_samples has returned, every sample has been shown, in      *)
(* order and without a gap; for the same streams.                          *)
THEOREM SentInFull ==
  ASSUME ShortStreams
  PROVE  Spec => []SendIsComplete
<1>1. Accounting => SendIsComplete
  BY DEF Accounting, Ending, SendIsComplete
<1>2. QED
  BY <1>1, SpecAccounting, PTL

-----------------------------------------------------------------------------
(* What has been shown of a stream, underflows included: Showing, which is *)
(* inductive on top of Accounting.                                         *)

(* One sample more.                                                        *)
LEMMA GapsAppend ==
  ASSUME NEW s \in Seq(Nat), NEW x \in Nat
  PROVE  LET l == Len(s) IN
         /\ Len(Append(s, x)) = l + 1 /\ Append(s, x)[l + 1] = x
         /\ \A n \in 1..l : Append(s, x)[n] = s[n]
         /\ \A n \in 0..l : Gaps(Append(s, x), n) = Gaps(s, n) /\ Gaps(s, n) \in Nat
         /\ Gaps(Append(s, x), l + 1) = Gaps(s, l) + (IF x = 0 THEN 1 ELSE 0)
<1>1. PICK l \in Nat : l = Len(s)
  OBVIOUS
<1>2. PICK t \in Seq(Nat) : t = Append(s, x)
  <2>1. Append(s, x) \in Seq(Nat)
    OBVIOUS
  <2>2. QED
    BY <2>1, Zenon
<1>3. Len(t) = l + 1 /\ t[l + 1] = x /\ \A n \in 1..l : t[n] = s[n]
  BY <1>1, <1>2
<1> DEFINE zeros(q, n) == {i \in 1..n : q[i] = 0}
<1>4. ASSUME NEW n \in 0..l
      PROVE  /\ zeros(t, n) = zeros(s, n) /\ IsFiniteSet(zeros(s, n))
             /\ Cardinality(zeros(s, n)) \in Nat
  <2>1. \A i \in 1..n : t[i] = s[i]
    BY <1>3
  <2>2. zeros(t, n) = zeros(s, n)
    BY <2>1
  <2>3. n \in Int /\ 1 \in Int
    OBVIOUS
  <2>4. IsFiniteSet(1..n)
    BY <2>3, FS_Interval
  <2>5. zeros(s, n) \in SUBSET (1..n)
    OBVIOUS
  <2> HIDE DEF zeros
  <2>6. IsFiniteSet(zeros(s, n))
    BY <2>4, <2>5, FS_Subset
  <2>7. Cardinality(zeros(s, n)) \in Nat
    BY <2>6, FS_CardinalityType
  <2>8. QED
    BY <2>2, <2>6, <2>7
<1>5. zeros(t, l + 1) = IF x = 0 THEN zeros(s, l) \cup {l + 1} ELSE zeros(s, l)
  <2>1. zeros(t, l + 1) = IF x = 0 THEN zeros(t, l) \cup {l + 1} ELSE zeros(t, l)
    BY <1>3
  <2>2. zeros(t, l) = zeros(s, l)
    <3>1. l \in 0..l
      OBVIOUS
    <3> HIDE DEF zeros
    <3>2. QED
      BY <1>4, <3>1
  <2>3. QED
    BY <2>1, <2>2, Zenon
<1>6. l + 1 \notin zeros(s, l)
  OBVIOUS
<1> HIDE DEF zeros
<1>7. /\ x = 0 => Cardinality(zeros(t, l + 1)) = Cardinality(zeros(s, l)) + 1
      /\ x # 0 => Cardinality(zeros(t, l + 1)) = Cardinality(zeros(s, l))
  <2>1. IsFiniteSet(zeros(s, l))
    BY <1>4
  <2>2. Cardinality(zeros(s, l) \cup {l + 1}) = Cardinality(zeros(s, l)) + 1
    BY <1>6, <2>1, FS_AddElement
  <2>3. QED
    BY <1>5, <2>2
<1>8. Cardinality(zeros(s, l)) \in Nat
  BY <1>4
<1>9. /\ \A n \in 0..l : Gaps(t, n) = Gaps(s, n) /\ Gaps(s, n) \in Nat
      /\ Gaps(t, l + 1) = Gaps(s, l) + (IF x = 0 THEN 1 ELSE 0)
  <2>1. \A q, n : Gaps(q, n) = Cardinality(zeros(q, n))
    BY Zenon DEF Gaps, zeros
  <2>2. \A n \in 0..l : Gaps(t, n) = Gaps(s, n) /\ Gaps(s, n) \in Nat
    BY <1>4, <2>1
  <2>3. Gaps(t, l + 1) = Gaps(s, l) + (IF x = 0 THEN 1 ELSE 0)
    <3>1. PICK c \in Nat : c = Cardinality(zeros(s, l)) /\ Gaps(s, l) = c
      BY <1>8, <2>1
    <3>2. PICK d : d = Cardinality(zeros(t, l + 1)) /\ Gaps(t, l + 1) = d
      BY <2>1
    <3>3. (x = 0 => d = c + 1) /\ (x # 0 => d = c)
      BY <1>7, <3>1, <3>2
    <3>4. d = c + (IF x = 0 THEN 1 ELSE 0)
      BY <3>3
    <3>5. QED
      BY <3>1, <3>2, <3>4
  <2>4. QED
    BY <2>2, <2>3
<1>10. QED
  BY <1>1, <1>2, <1>3, <1>9

(* Every sample shown is, gaps aside, the next; the gaps are as many as    *)
(* the tag has counted, and the other samples those that have been         *)
(* streamed.                                                               *)
Showing ==
  /\ \A n \in 1..Len(shown) : shown[n] # 0 => shown[n] = n - Gaps(shown, n)
  /\ job.call = "send" /\ main # "cleared" => Gaps(shown, Len(shown)) = tag.underflow
  /\ Running /\ (main = "counted" \/ thread.at # "none") =>
       Streamed = Len(shown) - Gaps(shown, Len(shown))

(* Nothing shown, no gaps.                                                 *)
LEMMA NothingShown ==
  ASSUME NEW s, s = <<>>
  PROVE  Len(s) = 0 /\ Gaps(s, Len(s)) = 0
<1>1. {i \in 1..0 : s[i] = 0} = {}
  OBVIOUS
<1>2. Len(s) = 0
  OBVIOUS
<1>3. QED
  BY <1>1, <1>2, FS_EmptySet DEF Gaps

(* A sample is shown, or a gap.                                            *)
LEMMA ShowingTicks ==
  ASSUME Discipline, Discipline', Accounting, Showing, Tick
  PROVE  Showing'
<1>1. /\ Calls /\ CountsAddUp /\ FillsFollow /\ SamplesInOrder /\ Ending /\ Typing
      /\ Loading /\ Threads
  BY DEF Accounting, Discipline
<1>2. Running /\ UNCHANGED <<todo, main, thread, job>>
  BY TickFacts
<1>3. /\ tag.count \in Nat /\ tag.underflow \in Nat /\ job.n \in Nat
      /\ data \in Seq(Nat) /\ shown \in Seq(Nat)
  <2>1. tag.count \in Nat /\ tag.underflow \in Nat
    BY <1>1, SizeAssumption DEF Typing, Tags
  <2>2. QED
    BY <1>1, <2>1 DEF Typing
<1>4. ASSUME shown' = shown, tag'.underflow = tag.underflow, Streamed' = Streamed
      PROVE  Showing'
  BY <1>2, <1>4 DEF Showing, Running
<1>5. CASE ~(main = "counted" \/ thread.at # "none")
  <2>1. tag.count = 0
    BY <1>1, <1>2, <1>5 DEF CountsAddUp, Ending, Calls, Streams
  <2>2. tag'.underflow = tag.underflow /\ shown' = shown
    BY <1>1, <2>1, Unstreamed
  <2>3. QED
    BY <1>2, <1>5, <2>2 DEF Showing, Running
<1>6. CASE main = "counted" \/ thread.at # "none"
  <2>1. Feeding
    BY <1>2, <1>6 DEF Feeding
  <2>2. job.call = "send" /\ main # "cleared"
    BY <1>1, <1>6 DEF Calls, Threads, Streams
  <2>3. PICK l \in Nat, g \in Nat : l = Len(shown) /\ g = Gaps(shown, Len(shown))
    <3>1. Gaps(shown, Len(shown)) = tag.underflow
      BY <2>2 DEF Showing
    <3>2. Len(shown) \in Nat
      BY <1>3
    <3>3. QED
      BY <1>3, <3>1, <3>2
  <2>4. /\ \A n \in 1..l : shown[n] # 0 => shown[n] = n - Gaps(shown, n)
        /\ g = tag.underflow /\ Streamed = l - g
    BY <1>2, <1>6, <2>2, <2>3 DEF Showing
  <2>5. ASSUME NEW x \in Nat, shown' = Append(shown, x), x # 0 => x = Streamed + 1,
               tag'.underflow = tag.underflow + (IF x = 0 THEN 1 ELSE 0),
               Streamed' = Streamed + (IF x = 0 THEN 0 ELSE 1)
        PROVE  Showing'
    <3>1. /\ Len(shown') = l + 1 /\ shown'[l + 1] = x
          /\ \A n \in 1..l : shown'[n] = shown[n]
          /\ \A n \in 0..l : Gaps(shown', n) = Gaps(shown, n) /\ Gaps(shown, n) \in Nat
          /\ Gaps(shown', l + 1) = g + (IF x = 0 THEN 1 ELSE 0)
      BY <1>3, <2>3, <2>5, GapsAppend
    <3>2. CASE x = 0
      <4>1. Gaps(shown', l + 1) = g + 1 /\ tag'.underflow = g + 1 /\ Streamed' = l - g
        BY <1>3, <2>3, <2>4, <2>5, <3>1, <3>2
      <4>2. ASSUME NEW n \in 1..(l + 1), shown'[n] # 0
            PROVE  shown'[n] = n - Gaps(shown', n)
        <5>1. n \in 1..l /\ n \in 0..l
          BY <3>1, <3>2, <4>2
        <5>2. QED
          BY <2>4, <3>1, <4>2, <5>1
      <4>3. Streamed' = Len(shown') - Gaps(shown', Len(shown'))
        BY <2>3, <3>1, <4>1
      <4>4. QED
        BY <3>1, <4>1, <4>2, <4>3 DEF Showing
    <3>3. CASE x # 0
      <4>1. /\ Gaps(shown', l + 1) = g /\ tag'.underflow = g /\ Streamed' = (l + 1) - g
            /\ x = (l + 1) - g
        BY <1>3, <2>3, <2>4, <2>5, <3>1, <3>3, SMTT(30)
      <4>2. ASSUME NEW n \in 1..(l + 1), shown'[n] # 0
            PROVE  shown'[n] = n - Gaps(shown', n)
        <5>1. CASE n = l + 1
          BY <3>1, <4>1, <5>1
        <5>2. CASE n # l + 1
          <6>1. n \in 1..l /\ n \in 0..l
            BY <5>2
          <6>2. QED
            BY <2>4, <3>1, <4>2, <6>1
        <5>3. QED
          BY <5>1, <5>2
      <4>3. Streamed' = Len(shown') - Gaps(shown', Len(shown'))
        BY <2>3, <3>1, <4>1
      <4>4. QED
        BY <3>1, <4>1, <4>2, <4>3 DEF Showing
    <3>4. QED
      BY <3>2, <3>3
  <2>6. CASE Stream
    <3>1. /\ Streamed' = Streamed + 1 /\ tag'.underflow = tag.underflow
          /\ data # <<>> /\ shown' = Append(shown, Head(data))
      BY <1>1, <2>1, <2>6, TickCounts, StreamFacts
    <3>2. Head(data) = data[1] /\ 1 \in 1..Len(data) /\ Head(data) \in Nat
      BY <1>3, <3>1
    <3>3. data[1] = Streamed + 1
      BY <1>1, <1>2, <1>6, <3>2 DEF SamplesInOrder
    <3>4. Streamed \in Nat
      <4>1. ~CountPending
        BY <1>1, <2>1, <2>6, TickCounts
      <4>2. (main = "counted" /\ todo = <<>>) \/ Streams
        BY <1>1, <1>6, <4>1 DEF CountPending, Threads
      <4>3. tag.count + tag.underflow <= job.n
        BY <1>1, <4>2 DEF CountsAddUp
      <4>4. QED
        BY <1>3, <4>1, <4>3, SMTT(30) DEF Streamed
    <3>5. PICK x \in Nat : x = Head(data) /\ x = Streamed + 1 /\ x # 0
      BY <3>2, <3>3, <3>4
    <3>6. tag'.underflow = tag.underflow + 0
      BY <1>3, <3>1
    <3>7. QED
      BY <2>5, <3>1, <3>5, <3>6
  <2>7. CASE Underflow
    <3>1. tag'.underflow = tag.underflow + 1 /\ Streamed' = Streamed + 0
      <4>1. Streamed \in Int
        BY <2>3, <2>4
      <4>2. ~Stream
        BY <1>1, <2>7, StreamFacts, UnderflowFacts
      <4>3. tag'.underflow = tag.underflow + 1 /\ Streamed' = Streamed
        BY <1>1, <2>1, <2>7, <4>2, TickCounts
      <4>4. QED
        BY <4>1, <4>3
    <3>2. shown' = Append(shown, 0)
      BY <2>7 DEF Underflow
    <3>3. QED
      BY <2>5, <3>1, <3>2
  <2>8. CASE ~Stream /\ ~Underflow
    <3>1. BeginRepeat \/ Sending \/ MessageSent \/ Pause \/ NextRound
      BY <2>8 DEF Tick
    <3>2. tag'.underflow = tag.underflow /\ shown' = shown /\ Streamed' = Streamed
      BY <1>1, <2>1, <2>8, <3>1, TickCounts, RotationFacts
    <3>3. QED
      BY <1>4, <3>2
  <2>9. QED
    BY <2>6, <2>7, <2>8
<1>7. QED
  BY <1>5, <1>6

(* All steps keep it.                                                      *)
LEMMA ShowingKept ==
  ASSUME Discipline, Discipline', Accounting, Showing, [Next]_vars
  PROVE  Showing'
<1>1. /\ Calls /\ CountsAddUp /\ FillsFollow /\ SamplesInOrder /\ Ending /\ Typing
      /\ Threads
  BY DEF Accounting, Discipline
<1>2. ASSUME UNCHANGED <<tag, job, shown>>, Running, ~CountPending, ~CountPending',
             main = "counted" \/ thread.at # "none", main # "cleared"
      PROVE  Showing'
  <2>1. Streamed' = Streamed
    BY <1>2 DEF Streamed
  <2>2. job.call = "send"
    BY <1>1, <1>2 DEF Calls, Threads, Streams
  <2>3. QED
    BY <1>2, <2>1, <2>2 DEF Showing
<1>3. CASE FirstFill
  <2>1. /\ shown' = shown /\ Running /\ main = "cleared" /\ Streamed' = 0
        /\ tag'.underflow = 0
    BY <1>3, CountedBegins, CountStillPending
  <2>2. shown' = <<>>
    BY <1>1, <2>1 DEF Ending
  <2>3. Len(shown') = 0 /\ Gaps(shown', Len(shown')) = 0
    BY <2>2, NothingShown
  <2>4. QED
    BY <2>1, <2>3 DEF Showing
<1>4. CASE Launch
  <2>1. /\ main = "counted" /\ main' = "launched" /\ todo = <<>> /\ Running
        /\ UNCHANGED <<tag, job, shown>>
    BY <1>4 DEF Launch, Main, Answered, board, link, history
  <2>2. QED
    BY <1>2, <2>1 DEF CountPending
<1>5. CASE Feeder
  <2>1. /\ thread.at # "none" /\ Streams /\ Streams' /\ Running
        /\ UNCHANGED <<tag, job, shown>>
    BY <1>1, <1>5 DEF Feeder, First, Handled, Top, Feed, Sleep, Check, Drain, Drained, Last,
                      Thread, board, history, Threads, Streams
  <2>2. ~CountPending /\ ~CountPending' /\ main # "cleared"
    BY <2>1 DEF CountPending, Streams
  <2>3. QED
    BY <1>2, <2>1, <2>2
<1>6. CASE SetRunning \/ Waited \/ StopEarly
  <2>1. /\ Streams /\ Streams' /\ Running /\ UNCHANGED <<tag, job, shown, thread>>
    BY <1>6 DEF SetRunning, Waited, StopEarly, Main, board, history, Streams
  <2>2. /\ ~CountPending /\ ~CountPending' /\ main # "cleared" /\ main' # "cleared"
        /\ main' # "counted"
    BY <2>1 DEF CountPending, Streams
  <2>3. CASE thread.at # "none"
    BY <1>2, <2>1, <2>2, <2>3
  <2>4. CASE thread.at = "none"
    BY <2>1, <2>2, <2>4 DEF Showing
  <2>5. QED
    BY <2>3, <2>4
<1>7. CASE Join \/ Poll \/ Polled \/ Load \/ Loaded
  <2>1. /\ main' # "counted" /\ thread'.at = "none" /\ main # "cleared" /\ main' # "cleared"
        /\ UNCHANGED <<tag, job, shown>>
    BY <1>1, <1>7 DEF Join, Poll, Polled, Load, Loaded, Main, Threads, Streams, board, history
  <2>2. QED
    BY <2>1 DEF Showing
<1>8. CASE \/ \E n \in Counts : Send(n)
           \/ \E n \in Messages, c \in Rounds : Repeat(n, c)
  <2>1. /\ main' # "counted" /\ thread'.at = "none"
        /\ \/ main' = "cleared" /\ shown' = <<>>
           \/ job'.call = "repeat" /\ shown' = shown
    BY <1>1, <1>8 DEF Send, Repeat, Main, Threads, Streams, history
  <2>2. CASE main' = "cleared" /\ shown' = <<>>
    <3>1. Len(shown') = 0
      BY <2>2, NothingShown
    <3>2. QED
      BY <2>1, <2>2, <3>1 DEF Showing
  <2>3. CASE job'.call = "repeat" /\ shown' = shown
    BY <2>1, <2>3 DEF Showing
  <2>4. QED
    BY <2>1, <2>2, <2>3
<1>9. CASE Receiving \/ UNCHANGED vars
  <2>1. UNCHANGED <<tag, job, shown, todo, thread, main, fault>>
    BY <1>9 DEF Receiving, TakeAnswer, vars, board, link, driver, history
  <2>2. Streamed' = Streamed
    BY <2>1 DEF Streamed, CountPending
  <2>3. QED
    BY <2>1, <2>2 DEF Showing, Running
<1>10. CASE Serve
  <2>1. Running /\ UNCHANGED <<main, thread, job, shown>>
    BY <1>1, <1>10, ServeFacts
  <2>2. CASE main = "counted" \/ thread.at # "none"
    <3>1. Feeding
      BY <2>1, <2>2 DEF Feeding
    <3>2. Streamed' = Streamed /\ tag'.underflow = tag.underflow
      BY <1>1, <1>10, <3>1, ServeStreamed
    <3>3. QED
      BY <2>1, <3>2 DEF Showing, Running
  <2>3. CASE ~(main = "counted" \/ thread.at # "none")
    <3>1. tag'.underflow = tag.underflow \/ main \in {"cleared", "emptied"}
      BY <1>1, <1>10, ServeChanges, ServeWhere DEF Serve
    <3>2. main = "emptied" => job.call # "send"
      BY <1>1 DEF Calls
    <3>3. QED
      BY <2>1, <2>3, <3>1, <3>2 DEF Showing
  <2>4. QED
    BY <2>2, <2>3
<1>11. CASE Tick
  BY <1>11, ShowingTicks
<1>12. QED
  BY <1>3, <1>4, <1>5, <1>6, <1>7, <1>8, <1>9, <1>10, <1>11 DEF Next, Caller

(* A stream, an underflow included, never shows a sample twice, out of     *)
(* order or skips one, and every gap is counted (tag-L4xx.h:319-328), for  *)
(* the same streams.                                                       *)
THEOREM NeverOutOfOrder ==
  ASSUME ShortStreams
  PROVE  Spec => []ShownInOrder
<1>1. Init => Showing
  <2>1. ASSUME Init
        PROVE  /\ shown = <<>> /\ main = "idle" /\ thread.at = "none" /\ job.call = "none"
    BY <2>1 DEF Init
  <2>2. QED
    BY <2>1, NothingShown DEF Showing
<1>2. Discipline /\ Discipline' /\ Accounting /\ Showing /\ [Next]_vars => Showing'
  BY ShowingKept
<1>3. Discipline /\ Showing => ShownInOrder
  <2>1. ASSUME Discipline, Showing
        PROVE  ShownInOrder
    <3>1. tag.underflow \in 0..(UnderflowRange - 1)
      BY <2>1 DEF Discipline, Typing, Tags
    <3>2. tag.underflow % UnderflowRange = tag.underflow
      BY <3>1, SizeAssumption
    <3>3. QED
      BY <2>1, <3>2 DEF Showing, ShownInOrder
  <2>2. QED
    BY <2>1
<1>4. QED
  BY <1>1, <1>2, <1>3, SpecDiscipline, SpecAccounting, PTL DEF Spec
=============================================================================

--------------------------- MODULE ReaderTxProofs ---------------------------
(***************************************************************************)
(* The reader's transmitter, for any number of threads that send, any      *)
(* numbers of samples, any size of a part and any capacity of tx_data and  *)
(* of the ring of heads: its types, and that a send after whose wait no    *)
(* error was raised has shown its samples, all and in order; at the end,   *)
(* for one thread, that no send is cut short by the next.                  *)
(*                                                                         *)
(* The argument: one thread at a time is within the code that tx_lock      *)
(* protects (Turns, Stages) and has sent what is not in its local buffer   *)
(* (Rest).  The requests under way, of which the last "clear" separates    *)
(* those of the last send from what is left of others, and the board's     *)
(* fifo and counters are the ledger of this send: how it was prepared      *)
(* (Preparation), that its parts fit (Fits), that what was shown and what  *)
(* is to be shown are the count (Accounts), and that parts and samples     *)
(* follow one another without a gap unless an underflow was counted        *)
(* (Seamless).  While the thread polls, one read or its answer is under    *)
(* way, and the answer holds when it is used (Waiting): a tx.count of 0    *)
(* stays 0, since only the thread itself could start another send.         *)
(***************************************************************************)
EXTENDS ReaderTx, FiniteSetTheorems, FunctionTheorems, TLAPS

-----------------------------------------------------------------------------
(* Types. *)

Samples == 1..Capacity

(* Samples are numbered from 1 in every send; a part is a piece of them.   *)
Piece == {t \in Seq(Samples) : t # <<>> /\ \A i \in 1..Len(t) : t[i] = t[1] + i - 1}

Request ==
  [op : {"part"}, n : Piece] \cup [op : {"set_count"}, n : 0..Capacity]
    \cup [op : {"set_underflow", "clear", "other"}, n : {0}]
    \cup [op : {"read"}, n : {"count", "underflow"}]

Values == {"count", "underflow"}

Message == [op : {"ack", "other", "push"}, n : {0}] \cup [op : Values, n : Nat]

Sends == {"prepared", "send", "sent", "counted", "throttle"}
Polls == {"asked", "test", "lock", "blocked"}
Holds == Sends \cup Polls \cup {"ask", "prepare"}
Places == Holds \cup {"idle", "wait", "waited", "enter"}
Stand == [pc : Places, of : Values, n : Counts \cup {0}]

Typing ==
  /\ tx \in [count : 0..Capacity, underflow : Nat]
  /\ data \in Seq(Samples) /\ Len(data) <= Capacity
  /\ local \in Seq(Samples) /\ shown \in Seq(0..Capacity)
  /\ todo \in Seq(Request) /\ coming \in Seq(Message) /\ Buffered < Heads
  /\ mem \in [count : Nat, underflow : Nat]
  /\ seen \in [count : Nat \cup {-1}, underflow : Nat \cup {-1}]
  /\ started \in BOOLEAN
  /\ lock \in Senders \cup {Nobody, "rx"} /\ txLock \in Senders \cup {Nobody}
  /\ at \in [Senders -> Stand]
  /\ job \in [n : Counts \cup {0}, awaited : BOOLEAN]
  /\ fault \in {"none", "tx.underflow"}

-----------------------------------------------------------------------------
(* Who holds txLock, and what it stands for. *)

Place == IF txLock = Nobody THEN "free" ELSE at[txLock].pc
Of == at[txLock].of
Wanted == at[txLock].n

Turns ==
  /\ \A s \in Senders : at[s].pc \in Holds <=> txLock = s
  /\ \A s \in Senders : at[s].pc \in Sends \cup {"enter", "prepare"} => at[s].n # 0
  /\ \A s \in Senders : at[s].pc = "wait" => at[s].of = "count"

Stages ==
  /\ Place \in Polls \cup {"ask"} => started
  /\ Place \in Sends => job.n = Wanted /\ ~job.awaited
  /\ started => job.n # 0 /\ ~job.awaited

(* What the sender has left.                                               *)
Left == IF Place = "prepared" THEN job.n ELSE Len(local)
Following == job.n - Left + 1

Rest ==
  /\ Place \in Sends \ {"prepared"} =>
       /\ Len(local) <= job.n
       /\ \A i \in 1..Len(local) : local[i] = job.n - Len(local) + i
  /\ Place = "send" => local # <<>>
  /\ Place \in {"sent", "counted", "throttle"} => Len(local) < job.n
  /\ Place \in Sends => mem.count = job.n

-----------------------------------------------------------------------------
(* The requests under way, q.  The last "clear" separates what belongs to  *)
(* the last send, what is Recent, from what is left of others.             *)

Clearing(q) == \E i \in 1..Len(q) : q[i].op = "clear"
Recent(q, i) == \A k \in (i + 1)..Len(q) : q[k].op # "clear"
Cleared(q, i) == \E k \in 1..(i - 1) : q[k].op = "clear"
Apart(q, i, j) == \E k \in (i + 1)..(j - 1) : q[k].op = "clear"
Start(r) == r.n[1]
End(r) == r.n[1] + Len(r.n)
Zero == [op |-> "set_count", n |-> 0]

(* A send is prepared by three requests in this order.                     *)
Ordered(q) ==
  \A i \in 1..Len(q) :
    /\ q[i].op = "clear" /\ i > 1 => q[i - 1].op = "set_underflow"
    /\ q[i].op = "clear" /\ i > 2 => q[i - 2] = Zero
    /\ q[i].op = "set_underflow" \/ q[i] = Zero => ~Recent(q, i)

IsClear(q, i) == i \in 1..Len(q) /\ q[i].op = "clear"

Preparation ==
  /\ Ordered(todo)
  /\ IsClear(todo, 1) \/ IsClear(todo, 2) => tx.count = 0 /\ shown = <<>>
  /\ IsClear(todo, 1) => tx.underflow = 0

(* tx_data has room for the parts, since their numbers rise and begin      *)
(* above what is there.                                                    *)
RoomFor(q, d) == \A i \in 1..Len(q) : q[i].op = "part" => d < Start(q[i]) \/ Cleared(q, i)
Rising(q) ==
  \A i \in 1..Len(q) : \A j \in (i + 1)..Len(q) :
    q[i].op = "part" /\ q[j].op = "part" => End(q[i]) <= Start(q[j]) \/ Apart(q, i, j)
Below(q, n) == \A i \in 1..Len(q) : q[i].op = "part" /\ Recent(q, i) => End(q[i]) <= n

Fits ==
  /\ RoomFor(todo, Len(data)) /\ Rising(todo)
  /\ Place \in Sends =>
       Below(todo, Following) /\ (Clearing(todo) \/ Len(data) < Following)

(* tx.count is still to be set for the last send, or counts what it has    *)
(* not shown.                                                              *)
Unset == Place \in {"prepared", "sent"} \/ (Place = "send" /\ Len(local) = job.n)
Sets(q, i) == q[i].op = "set_count" /\ Recent(q, i)
Setting(q) == \E i \in 1..Len(q) : Sets(q, i)
SetsTo(q, n) == \A i \in 1..Len(q) : Sets(q, i) => q[i].n = n
SetsOnce(q) == \A i, j \in 1..Len(q) : Sets(q, i) /\ Sets(q, j) => i = j

Accounts ==
  /\ Setting(todo) => ~Unset
  /\ SetsTo(todo, job.n) /\ SetsOnce(todo)
  /\ Clearing(todo) => Unset \/ Setting(todo)
  /\ ~Clearing(todo) =>
       IF Unset \/ Setting(todo) THEN tx.count = 0 /\ shown = <<>> /\ tx.underflow = 0
                                 ELSE Len(shown) + tx.count = job.n

(* Each part begins where one before it ends, or at the mark.              *)
Reached(q, m, n) ==
  n = m \/ \E i \in 1..Len(q) : q[i].op = "part" /\ Recent(q, i) /\ End(q[i]) = n
Linked(q, m) ==
  \A i \in 1..Len(q) : q[i].op = "part" /\ Recent(q, i) =>
    \/ Start(q[i]) = m
    \/ \E j \in 1..(i - 1) : q[j].op = "part" /\ Recent(q, j) /\ End(q[j]) = Start(q[i])

Mark == IF Clearing(todo) THEN 1 ELSE Len(shown) + Len(data) + 1

Seamless ==
  /\ Clearing(todo) \/ tx.underflow = 0 =>
       /\ Linked(todo, Mark)
       /\ Place \in Sends => Reached(todo, Mark, Following)
  /\ ~Clearing(todo) /\ tx.underflow = 0 =>
       /\ \A i \in 1..Len(shown) : shown[i] = i
       /\ \A i \in 1..Len(data) : data[i] = Len(shown) + i

-----------------------------------------------------------------------------
(* Waiting.  One read is under way, or its answer, or the answer has been  *)
(* taken in, by whichever thread.                                          *)

Calm == \A i \in 1..Len(todo) : todo[i].op = "other"
Unread == \A i \in 1..Len(todo) : todo[i].op # "read"
Unanswered == \A i \in 1..Len(coming) : coming[i].op \notin Values
True(n) == IF Of = "count" THEN n = 0 => tx.count = 0 ELSE n = tx.underflow

ReadIsUnderWay ==
  /\ seen[Of] = -1 /\ Unanswered
  /\ \E i \in 1..Len(todo) :
       /\ todo[i] = [op |-> "read", n |-> Of]
       /\ \A k \in 1..(i - 1) : todo[k].op # "read"
       /\ \A k \in (i + 1)..Len(todo) : todo[k].op = "other"

AnswerIsUnderWay ==
  /\ seen[Of] = -1 /\ Calm
  /\ \E i \in 1..Len(coming) :
       /\ coming[i].op = Of /\ True(coming[i].n)
       /\ \A k \in 1..Len(coming) : k # i => coming[k].op \notin Values

AnswerIsHere ==
  /\ seen[Of] # -1 /\ Calm /\ Unanswered
  /\ mem[Of] = seen[Of] /\ True(seen[Of])

Waiting ==
  /\ IF Place \in Polls THEN ReadIsUnderWay \/ AnswerIsUnderWay \/ AnswerIsHere
                        ELSE Unread /\ Unanswered
  /\ Place \in Polls \cup {"ask"} /\ Of = "underflow" =>
       tx.count = 0 /\ \A i \in 1..Len(todo) : todo[i].op \in {"read", "other"}
  /\ job.awaited => tx.count = 0 /\ Calm
  /\ job.awaited /\ Running => shown = [i \in 1..job.n |-> i]

Ledger == Preparation /\ Fits /\ Accounts /\ Seamless

IInv == Typing /\ Turns /\ Stages /\ Rest /\ Ledger /\ Waiting

-----------------------------------------------------------------------------
(* Sequences. *)

(* What is left of a sequence when its first element goes.                 *)
LEMMA TailOf ==
  ASSUME NEW S, NEW q \in Seq(S), q # <<>>
  PROVE  /\ Head(q) = q[1] /\ q[1] \in S /\ Len(q) \in Nat \ {0}
         /\ Tail(q) \in Seq(S) /\ Len(Tail(q)) = Len(q) - 1 /\ Len(Tail(q)) \in Nat
         /\ \A i \in 1..Len(Tail(q)) : Tail(q)[i] = q[i + 1]
OBVIOUS

(* The elements of two sequences, one behind the other.                    *)
LEMMA Joined ==
  ASSUME NEW S, NEW p \in Seq(S), NEW q \in Seq(S)
  PROVE  /\ p \o q \in Seq(S) /\ Len(p \o q) = Len(p) + Len(q)
         /\ Len(p) \in Nat /\ Len(q) \in Nat
         /\ \A i \in 1..Len(p) : (p \o q)[i] = p[i]
         /\ \A i \in 1..Len(q) : (p \o q)[Len(p) + i] = q[i]
OBVIOUS

(* A sequence and one more element at its end.                             *)
LEMMA Appended ==
  ASSUME NEW S, NEW q \in Seq(S), NEW m \in S
  PROVE  /\ Append(q, m) \in Seq(S) /\ Len(Append(q, m)) = Len(q) + 1
         /\ Len(q) \in Nat
         /\ \A i \in 1..Len(q) : Append(q, m)[i] = q[i]
         /\ Append(q, m)[Len(q) + 1] = m
OBVIOUS

(* A sequence cut into its first n elements and the others.                *)
LEMMA Cut ==
  ASSUME NEW S, NEW q \in Seq(S), NEW n \in Nat, n <= Len(q)
  PROVE  /\ SubSeq(q, 1, n) \in Seq(S) /\ Len(SubSeq(q, 1, n)) = n
         /\ \A i \in 1..n : SubSeq(q, 1, n)[i] = q[i]
         /\ SubSeq(q, n + 1, Len(q)) \in Seq(S)
         /\ Len(SubSeq(q, n + 1, Len(q))) = Len(q) - n
         /\ \A i \in 1..(Len(q) - n) : SubSeq(q, n + 1, Len(q))[i] = q[n + i]
OBVIOUS

(* Only the empty sequence has no elements.                                *)
LEMMA Bare ==
  ASSUME NEW S, NEW q \in Seq(S)
  PROVE  /\ Len(q) \in Nat
         /\ Len(q) = 0 <=> q = <<>>
         /\ \A i \in 1..Len(q) : q[i] \in S
OBVIOUS

(* The samples of a send are numbered from 1.                              *)
LEMMA NumbersTo ==
  ASSUME NEW n \in Nat, n <= Capacity, Capacity \in Nat
  PROVE  LET t == [i \in 1..n |-> i]
         IN  t \in Seq(Samples) /\ Len(t) = n /\ \A i \in 1..n : t[i] = i
BY DEF Samples

(* A sequence that holds its own indices is the one of the numbers.        *)
LEMMA Counting ==
  ASSUME NEW S, NEW q \in Seq(S), NEW n \in Nat, Len(q) = n, \A i \in 1..n : q[i] = i
  PROVE  q = [i \in 1..n |-> i]
<1>1. q \in [1..n -> S] /\ DOMAIN q = 1..n
  OBVIOUS
<1>2. QED
  BY <1>1

(* The part sent is no longer than what is left of the samples.            *)
LEMMA SmallerOf ==
  ASSUME NEW a \in Nat, NEW b \in Nat
  PROVE  Min({a, b}) \in {a, b} /\ Min({a, b}) <= a /\ Min({a, b}) <= b
<1>1. \E x \in {a, b} : \A y \in {a, b} : x <= y
  <2>1. CASE a <= b
    BY <2>1
  <2>2. CASE b <= a
    BY <2>2
  <2>3. QED
    BY <2>1, <2>2
<1>2. QED
  BY <1>1 DEF Min

-----------------------------------------------------------------------------
(* The ring of heads. *)

Waits(q) == {i \in 1..Len(q) : q[i].op # "push"}

(* The answers in the ring can be counted.                                 *)
LEMMA WaitsFinite ==
  ASSUME NEW S, NEW q \in Seq(S)
  PROVE  IsFiniteSet(Waits(q)) /\ Cardinality(Waits(q)) \in Nat
<1>1. 1 \in Int /\ Len(q) \in Int
  OBVIOUS
<1>2. IsFiniteSet(1..Len(q))
  BY <1>1, FS_Interval
<1>3. Waits(q) \in SUBSET (1..Len(q))
  BY DEF Waits
<1>4. IsFiniteSet(Waits(q))
  BY <1>2, <1>3, FS_Subset
<1>5. QED
  BY <1>4, FS_CardinalityType

(* Taking a message out of the ring adds no answer.                        *)
LEMMA WaitsTail ==
  ASSUME NEW S, NEW q \in Seq(S), q # <<>>
  PROVE  Cardinality(Waits(Tail(q))) <= Cardinality(Waits(q))
<1> DEFINE f == [j \in Waits(Tail(q)) |-> j + 1]
<1>1. IsFiniteSet(Waits(q))
  BY WaitsFinite
<1>2. f \in [Waits(Tail(q)) -> Waits(q)]
  BY TailOf DEF Waits
<1>3. \A a, b \in Waits(Tail(q)) : f[a] = f[b] => a = b
  BY DEF Waits
<1>4. f \in Injection(Waits(Tail(q)), Waits(q))
  <2> HIDE DEF f
  <2>1. QED
    BY <1>2, <1>3, Fun_IsInj
<1>5. QED
  BY <1>1, <1>4, FS_Injection

(* A message adds one answer, and a push, which has no head of its own,    *)
(* none.                                                                   *)
LEMMA WaitsAppend ==
  ASSUME NEW S, NEW q \in Seq(S), NEW m \in S
  PROVE  /\ Cardinality(Waits(Append(q, m))) <= Cardinality(Waits(q)) + 1
         /\ m.op = "push" => Cardinality(Waits(Append(q, m))) = Cardinality(Waits(q))
<1> DEFINE n == Len(q) + 1
<1>1. IsFiniteSet(Waits(q)) /\ Cardinality(Waits(q)) \in Nat
  BY WaitsFinite
<1>2. CASE m.op = "push"
  <2>1. Waits(Append(q, m)) = Waits(q)
    BY <1>2, Appended DEF Waits
  <2>2. QED
    BY <1>1, <2>1
<1>3. CASE m.op # "push"
  <2>1. Waits(Append(q, m)) = Waits(q) \cup {n}
    BY <1>3, Appended DEF Waits
  <2>2. n \notin Waits(q)
    BY DEF Waits
  <2> HIDE DEF n
  <2>3. Cardinality(Waits(q) \cup {n}) = Cardinality(Waits(q)) + 1
    BY <1>1, <2>2, FS_AddElement
  <2>4. QED
    BY <1>1, <1>3, <2>1, <2>3
<1>4. QED
  BY <1>2, <1>3

-----------------------------------------------------------------------------
(* Requests carried out and requests made. *)

(* What "clear" separates, after the first request has gone.               *)
LEMMA Shifted ==
  ASSUME NEW S, NEW q \in Seq(S), q # <<>>
  PROVE  LET t == Tail(q)
         IN  /\ \A i \in 1..Len(t) : Recent(t, i) <=> Recent(q, i + 1)
             /\ q[1].op # "clear" => (Clearing(t) <=> Clearing(q))
             /\ \A i \in 1..Len(t) : Cleared(q, i + 1) <=> q[1].op = "clear" \/ Cleared(t, i)
             /\ \A i, j \in 1..Len(t) : Apart(t, i, j) <=> Apart(q, i + 1, j + 1)
             /\ Recent(q, 1) <=> ~Clearing(t)
<1> DEFINE t == Tail(q)
<1>1. Len(t) = Len(q) - 1 /\ Len(q) \in Nat \ {0} /\ \A i \in 1..Len(t) : t[i] = q[i + 1]
  BY TailOf
<1> HIDE DEF t
<1>2. \A k \in 1..Len(q) : k = 1 \/ (k - 1 \in 1..Len(t) /\ t[k - 1] = q[k])
  BY <1>1
<1>3. ASSUME NEW i \in 1..Len(t) PROVE Recent(t, i) <=> Recent(q, i + 1)
  <2>1. ASSUME Recent(t, i), NEW k \in (i + 2)..Len(q) PROVE q[k].op # "clear"
    <3>1. k - 1 \in (i + 1)..Len(t) /\ t[k - 1] = q[k]
      BY <1>1, <1>2
    <3>2. QED
      BY <2>1, <3>1 DEF Recent
  <2>2. ASSUME Recent(q, i + 1), NEW k \in (i + 1)..Len(t) PROVE t[k].op # "clear"
    <3>1. k + 1 \in ((i + 1) + 1)..Len(q) /\ k \in 1..Len(t)
      BY <1>1
    <3>2. QED
      BY <1>1, <2>2, <3>1 DEF Recent
  <2>3. (i + 1) + 1 = i + 2
    OBVIOUS
  <2>4. QED
    BY <2>1, <2>2, <2>3 DEF Recent
<1>4. Clearing(q) <=> q[1].op = "clear" \/ Clearing(t)
  <2>1. 1 \in 1..Len(q) /\ \A i \in 1..Len(t) : i + 1 \in 1..Len(q)
    BY <1>1
  <2>2. QED
    BY <1>1, <1>2, <2>1 DEF Clearing
<1>5. ASSUME NEW i \in 1..Len(t) PROVE Cleared(q, i + 1) <=> q[1].op = "clear" \/ Cleared(t, i)
  <2>1. ASSUME NEW k \in 1..((i + 1) - 1), q[k].op = "clear"
        PROVE  q[1].op = "clear" \/ Cleared(t, i)
    <3>1. k = 1 \/ (k - 1 \in 1..(i - 1) /\ t[k - 1] = q[k])
      BY <1>1, <1>2
    <3>2. QED
      BY <2>1, <3>1 DEF Cleared
  <2>2. ASSUME NEW k \in 1..(i - 1), t[k].op = "clear" PROVE Cleared(q, i + 1)
    <3>1. k + 1 \in 1..((i + 1) - 1) /\ t[k] = q[k + 1]
      BY <1>1
    <3>2. QED
      BY <2>2, <3>1 DEF Cleared
  <2>3. 1 \in 1..((i + 1) - 1)
    OBVIOUS
  <2>4. QED
    BY <2>1, <2>2, <2>3 DEF Cleared
<1>6. ASSUME NEW i \in 1..Len(t), NEW j \in 1..Len(t)
      PROVE  Apart(t, i, j) <=> Apart(q, i + 1, j + 1)
  <2>1. ASSUME NEW k \in (i + 1)..(j - 1) PROVE k + 1 \in ((i + 1) + 1)..((j + 1) - 1) /\ t[k] = q[k + 1]
    BY <1>1
  <2>2. ASSUME NEW k \in ((i + 1) + 1)..((j + 1) - 1)
        PROVE  k - 1 \in (i + 1)..(j - 1) /\ t[k - 1] = q[k]
    BY <1>1, <1>2
  <2>3. QED
    BY <2>1, <2>2, ZenonT(40) DEF Apart
<1>7. Recent(q, 1) <=> ~Clearing(t)
  <2>1. \A k \in (1 + 1)..Len(q) : k - 1 \in 1..Len(t) /\ t[k - 1] = q[k]
    BY <1>1, <1>2
  <2>2. \A k \in 1..Len(t) : k + 1 \in (1 + 1)..Len(q) /\ t[k] = q[k + 1]
    BY <1>1
  <2>3. QED
    BY <2>1, <2>2, ZenonT(40) DEF Recent, Clearing
<1>8. QED
  BY <1>3, <1>4, <1>5, <1>6, <1>7 DEF t

(* What "clear" separates, after more requests have been made.             *)
LEMMA Extended ==
  ASSUME NEW S, NEW q \in Seq(S), NEW r \in Seq(S)
  PROVE  LET u == q \o r
         IN  /\ \A i \in 1..Len(q) : Cleared(u, i) <=> Cleared(q, i)
             /\ \A i, j \in 1..Len(q) : Apart(u, i, j) <=> Apart(q, i, j)
             /\ Clearing(q) => Clearing(u)
             /\ \A i \in 1..Len(q) : Recent(u, i) => Recent(q, i)
<1> DEFINE u == q \o r
<1>1. /\ Len(u) = Len(q) + Len(r) /\ Len(q) \in Nat /\ Len(r) \in Nat
      /\ \A i \in 1..Len(q) : u[i] = q[i]
  BY Joined
<1> HIDE DEF u
<1>2. ASSUME NEW i \in 1..Len(q) PROVE Cleared(u, i) <=> Cleared(q, i)
  <2>1. \A k \in 1..(i - 1) : u[k] = q[k]
    BY <1>1
  <2>2. QED
    BY <2>1 DEF Cleared
<1>3. ASSUME NEW i \in 1..Len(q), NEW j \in 1..Len(q) PROVE Apart(u, i, j) <=> Apart(q, i, j)
  <2>1. \A k \in (i + 1)..(j - 1) : u[k] = q[k]
    BY <1>1
  <2>2. QED
    BY <2>1 DEF Apart
<1>4. Clearing(q) => Clearing(u)
  BY <1>1 DEF Clearing
<1>5. ASSUME NEW i \in 1..Len(q), Recent(u, i) PROVE Recent(q, i)
  <2>1. \A k \in (i + 1)..Len(q) : u[k] = q[k] /\ k \in (i + 1)..Len(u)
    BY <1>1
  <2>2. QED
    BY <1>5, <2>1 DEF Recent
<1>6. QED
  BY <1>2, <1>3, <1>4, <1>5 DEF u

(* Requests that clear nothing.                                            *)
LEMMA Lengthened ==
  ASSUME NEW S, NEW q \in Seq(S), NEW r \in Seq(S),
         \A i \in 1..Len(r) : r[i].op # "clear"
  PROVE  LET u == q \o r
         IN  /\ Clearing(u) <=> Clearing(q)
             /\ \A i \in 1..Len(q) : Recent(u, i) <=> Recent(q, i)
             /\ \A i \in (Len(q) + 1)..Len(u) : Recent(u, i)
             /\ \A i \in (Len(q) + 1)..Len(u) : Cleared(u, i) <=> Clearing(q)
             /\ \A i \in 1..Len(q) : Apart(u, i, Len(q) + 1) <=> ~Recent(q, i)
<1> DEFINE u == q \o r
<1>1. /\ Len(u) = Len(q) + Len(r) /\ Len(q) \in Nat /\ Len(r) \in Nat
      /\ \A i \in 1..Len(q) : u[i] = q[i]
      /\ \A i \in 1..Len(r) : u[Len(q) + i] = r[i]
  BY Joined
<1> HIDE DEF u
<1>2. ASSUME NEW i \in (Len(q) + 1)..Len(u) PROVE u[i].op # "clear"
  <2>1. i - Len(q) \in 1..Len(r) /\ Len(q) + (i - Len(q)) = i
    BY <1>1
  <2>2. QED
    BY <1>1, <2>1
<1>3. \A i \in 1..Len(u) : i \in 1..Len(q) \/ i \in (Len(q) + 1)..Len(u)
  BY <1>1
<1>4. \A i \in 1..Len(q) : i \in 1..Len(u)
  BY <1>1
<1>5. Clearing(u) <=> Clearing(q)
  BY <1>1, <1>2, <1>3, <1>4 DEF Clearing
<1>6. ASSUME NEW i \in 1..Len(q) PROVE Recent(u, i) <=> Recent(q, i)
  <2>1. \A k \in (i + 1)..Len(q) : u[k] = q[k] /\ k \in (i + 1)..Len(u)
    BY <1>1
  <2>2. \A k \in (i + 1)..Len(u) : k \in (i + 1)..Len(q) \/ k \in (Len(q) + 1)..Len(u)
    BY <1>1
  <2>3. QED
    BY <1>2, <2>1, <2>2 DEF Recent
<1>7. ASSUME NEW i \in (Len(q) + 1)..Len(u) PROVE Recent(u, i)
  <2>1. \A k \in (i + 1)..Len(u) : k \in (Len(q) + 1)..Len(u)
    BY <1>1
  <2>2. QED
    BY <1>2, <2>1 DEF Recent
<1>8. ASSUME NEW i \in (Len(q) + 1)..Len(u) PROVE Cleared(u, i) <=> Clearing(q)
  <2>1. \A k \in 1..(i - 1) : k \in 1..Len(q) \/ k \in (Len(q) + 1)..Len(u)
    BY <1>1
  <2>2. \A k \in 1..Len(q) : k \in 1..(i - 1)
    BY <1>1
  <2>3. QED
    BY <1>1, <1>2, <2>1, <2>2 DEF Cleared, Clearing
<1>9. ASSUME NEW i \in 1..Len(q) PROVE Apart(u, i, Len(q) + 1) <=> ~Recent(q, i)
  <2>1. (Len(q) + 1) - 1 = Len(q) /\ \A k \in (i + 1)..Len(q) : u[k] = q[k]
    BY <1>1
  <2>2. QED
    BY <2>1 DEF Apart, Recent
<1>10. QED
  BY <1>5, <1>6, <1>7, <1>8, <1>9 DEF u

(* The elements of a sequence of three.                                    *)
LEMMA Three ==
  ASSUME NEW S, NEW a \in S, NEW b \in S, NEW c \in S
  PROVE  /\ <<a, b, c>> \in Seq(S) /\ Len(<<a, b, c>>) = 3
         /\ <<a, b, c>>[1] = a /\ <<a, b, c>>[2] = b /\ <<a, b, c>>[3] = c
OBVIOUS

(* The three requests that prepare a send.                                 *)
Prepares == <<Zero, [op |-> "set_underflow", n |-> 0], [op |-> "clear", n |-> 0]>>

(* A preparation makes every other request one of an old send.             *)
LEMMA Renewed ==
  ASSUME NEW q \in Seq(Request)
  PROVE  LET u == q \o Prepares
         IN  /\ Prepares \in Seq(Request) /\ u \in Seq(Request)
             /\ Len(u) = Len(q) + 3 /\ Len(q) \in Nat
             /\ \A i \in 1..Len(q) : u[i] = q[i]
             /\ u[Len(q) + 1] = Zero
             /\ u[Len(q) + 2] = [op |-> "set_underflow", n |-> 0]
             /\ u[Len(q) + 3] = [op |-> "clear", n |-> 0]
             /\ Clearing(u)
             /\ \A i \in 1..(Len(q) + 2) : ~Recent(u, i)
<1> DEFINE u == q \o Prepares
<1>1. 0 \in 0..Capacity
  BY SizeAssumption
<1>2. /\ Zero \in Request
      /\ [op |-> "set_underflow", n |-> 0] \in Request
      /\ [op |-> "clear", n |-> 0] \in Request
  BY <1>1 DEF Request, Zero
<1>3. Prepares \in Seq(Request) /\ Len(Prepares) = 3
  BY <1>2, Three DEF Prepares
<1>4. /\ Prepares[1] = Zero /\ Prepares[2] = [op |-> "set_underflow", n |-> 0]
      /\ Prepares[3] = [op |-> "clear", n |-> 0]
  BY <1>2, Three DEF Prepares
<1>5. /\ u \in Seq(Request) /\ Len(u) = Len(q) + 3 /\ Len(q) \in Nat
      /\ \A i \in 1..Len(q) : u[i] = q[i]
      /\ \A i \in 1..3 : u[Len(q) + i] = Prepares[i]
  BY <1>3, Joined, SMTT(30)
<1> HIDE DEF u
<1>6. /\ u[Len(q) + 1] = Zero /\ u[Len(q) + 2] = [op |-> "set_underflow", n |-> 0]
      /\ u[Len(q) + 3] = [op |-> "clear", n |-> 0]
  <2>1. 1 \in 1..3 /\ 2 \in 1..3 /\ 3 \in 1..3
    OBVIOUS
  <2>2. QED
    BY <1>4, <1>5, <2>1
<1>7. Len(q) + 3 \in 1..Len(u) /\ u[Len(q) + 3].op = "clear"
  <2>1. Len(q) + 3 \in 1..Len(u)
    BY <1>5
  <2>2. [op |-> "clear", n |-> 0].op = "clear"
    OBVIOUS
  <2>3. u[Len(q) + 3].op = "clear"
    BY <1>6, <2>2, Zenon
  <2>4. QED
    BY <2>1, <2>3
<1>8. ASSUME NEW i \in 1..(Len(q) + 2) PROVE ~Recent(u, i)
  <2>1. Len(q) + 3 \in (i + 1)..Len(u)
    BY <1>5
  <2>2. QED
    BY <1>7, <2>1 DEF Recent
<1>9. Clearing(u)
  BY <1>7 DEF Clearing
<1>10. QED
  BY <1>3, <1>5, <1>6, <1>8, <1>9 DEF u

-----------------------------------------------------------------------------
(* What the requests carry. *)

(* Every request is of one kind and carries what this kind carries.        *)
LEMMA RequestIs ==
  ASSUME NEW r \in Request
  PROVE  /\ r.op \in {"part", "set_count", "set_underflow", "clear", "other", "read"}
         /\ r.op = "part" => r.n \in Piece
         /\ r.op = "set_count" => r.n \in 0..Capacity
         /\ r.op \in {"set_underflow", "clear", "other"} => r.n = 0
         /\ r.op = "read" => r.n \in Values /\ r = [op |-> "read", n |-> r.n]
         /\ r.op = "set_count" /\ r.n = 0 => r = Zero
BY DEF Request, Values, Zero

(* A part is not empty, and its samples end within the capacity.           *)
LEMMA PartIs ==
  ASSUME NEW r \in Request, r.op = "part"
  PROVE  /\ Start(r) \in Nat \ {0} /\ Len(r.n) \in Nat \ {0} /\ r.n \in Seq(Samples)
         /\ End(r) = Start(r) + Len(r.n) /\ End(r) \in Nat /\ End(r) <= Capacity + 1
         /\ \A k \in 1..Len(r.n) : r.n[k] = Start(r) + k - 1
<1> DEFINE t == r.n
<1>1. r.n \in Piece
  BY RequestIs
<1>2. /\ t \in Seq(Samples) /\ t # <<>>
      /\ \A i \in 1..Len(t) : t[i] = t[1] + i - 1
  BY <1>1 DEF Piece
<1> HIDE DEF t
<1>3. Len(t) \in Nat /\ Len(t) # 0 /\ \A i \in 1..Len(t) : t[i] \in Samples
  BY <1>2, Bare
<1>4. 1 \in 1..Len(t) /\ Len(t) \in 1..Len(t)
  BY <1>3
<1>5. t[1] \in 1..Capacity /\ t[Len(t)] \in 1..Capacity /\ t[Len(t)] = t[1] + Len(t) - 1
  BY <1>2, <1>3, <1>4 DEF Samples
<1>6. t[1] \in Nat \ {0} /\ t[1] + Len(t) \in Nat /\ t[1] + Len(t) <= Capacity + 1
  BY <1>3, <1>5, SizeAssumption
<1>7. QED
  BY <1>2, <1>3, <1>6 DEF Start, End, t

-----------------------------------------------------------------------------
(* A request has been carried out: room and order of the parts. *)

(* An empty tx_data has room for the next part.                            *)
LEMMA RoomEmpty ==
  ASSUME NEW q \in Seq(Request)
  PROVE  RoomFor(q, 0)
<1> SUFFICES ASSUME NEW i \in 1..Len(q), q[i].op = "part" PROVE 0 < Start(q[i])
  BY DEF RoomFor
<1>1. q[i] \in Request
  BY Bare
<1>2. QED
  BY <1>1, PartIs

(* The room is the same when a request goes that adds no samples.          *)
LEMMA RoomTail ==
  ASSUME NEW q \in Seq(Request), q # <<>>, q[1].op # "clear", NEW d, RoomFor(q, d)
  PROVE  RoomFor(Tail(q), d)
<1> SUFFICES ASSUME NEW i \in 1..Len(Tail(q)), Tail(q)[i].op = "part"
             PROVE  d < Start(Tail(q)[i]) \/ Cleared(Tail(q), i)
  BY DEF RoomFor
<1>1. i + 1 \in 1..Len(q) /\ Tail(q)[i] = q[i + 1]
  BY TailOf
<1>2. d < Start(q[i + 1]) \/ Cleared(q, i + 1)
  BY <1>1 DEF RoomFor
<1>3. Cleared(q, i + 1) => Cleared(Tail(q), i)
  BY Shifted
<1>4. QED
  BY <1>1, <1>2, <1>3

(* The parts that are left still rise.                                     *)
LEMMA RisingTail ==
  ASSUME NEW q \in Seq(Request), q # <<>>, Rising(q)
  PROVE  Rising(Tail(q))
<1> SUFFICES ASSUME NEW i \in 1..Len(Tail(q)), NEW j \in (i + 1)..Len(Tail(q)),
                    Tail(q)[i].op = "part", Tail(q)[j].op = "part"
             PROVE  End(Tail(q)[i]) <= Start(Tail(q)[j]) \/ Apart(Tail(q), i, j)
  BY DEF Rising
<1>1. Len(Tail(q)) = Len(q) - 1 /\ Len(q) \in Nat
  BY TailOf
<1>2. i + 1 \in 1..Len(q) /\ j + 1 \in ((i + 1) + 1)..Len(q) /\ j \in 1..Len(Tail(q))
  BY <1>1
<1>3. Tail(q)[i] = q[i + 1] /\ Tail(q)[j] = q[j + 1]
  BY <1>2, TailOf
<1>4. End(q[i + 1]) <= Start(q[j + 1]) \/ Apart(q, i + 1, j + 1)
  BY <1>2, <1>3 DEF Rising
<1>5. Apart(q, i + 1, j + 1) <=> Apart(Tail(q), i, j)
  BY <1>2, Shifted
<1>6. QED
  BY <1>3, <1>4, <1>5

(* The parts that are left are still below n.                              *)
LEMMA BelowTail ==
  ASSUME NEW q \in Seq(Request), q # <<>>, NEW n, Below(q, n)
  PROVE  Below(Tail(q), n)
<1> SUFFICES ASSUME NEW i \in 1..Len(Tail(q)), Tail(q)[i].op = "part", Recent(Tail(q), i)
             PROVE  End(Tail(q)[i]) <= n
  BY DEF Below
<1>1. i + 1 \in 1..Len(q) /\ Tail(q)[i] = q[i + 1]
  BY TailOf
<1>2. Recent(q, i + 1)
  BY Shifted
<1>3. QED
  BY <1>1, <1>2 DEF Below

(* The first part fits, and there is room for the next ones behind it.     *)
LEMMA RoomPart ==
  ASSUME NEW q \in Seq(Request), q # <<>>, q[1].op = "part",
         NEW d \in Nat, RoomFor(q, d), Rising(q)
  PROVE  /\ d < Start(q[1]) /\ d + Len(q[1].n) <= Capacity
         /\ RoomFor(Tail(q), d + Len(q[1].n))
<1> DEFINE l == Len(q[1].n)
<1>1. q[1] \in Request /\ 1 \in 1..Len(q) /\ Len(q) \in Nat
  BY TailOf
<1>2. /\ Start(q[1]) \in Nat /\ l \in Nat /\ End(q[1]) = Start(q[1]) + l
      /\ End(q[1]) <= Capacity + 1
  BY <1>1, PartIs
<1>3. ~Cleared(q, 1)
  BY DEF Cleared
<1>4. d < Start(q[1])
  BY <1>1, <1>3 DEF RoomFor
<1>5. d + l <= Capacity /\ d + l < End(q[1])
  BY <1>2, <1>4, SizeAssumption
<1>6. RoomFor(Tail(q), d + l)
  <2> SUFFICES ASSUME NEW i \in 1..Len(Tail(q)), Tail(q)[i].op = "part"
               PROVE  d + l < Start(Tail(q)[i]) \/ Cleared(Tail(q), i)
    BY DEF RoomFor
  <2>1. i + 1 \in (1 + 1)..Len(q) /\ i + 1 \in 1..Len(q) /\ Tail(q)[i] = q[i + 1]
    BY TailOf
  <2>2. q[i + 1] \in Request
    BY <2>1, Bare
  <2>3. End(q[1]) <= Start(q[i + 1]) \/ Apart(q, 1, i + 1)
    BY <1>1, <2>1 DEF Rising
  <2>4. Apart(q, 1, i + 1) => Cleared(Tail(q), i)
    <3>1. ASSUME NEW k \in (1 + 1)..((i + 1) - 1), q[k].op = "clear"
          PROVE  k - 1 \in 1..(i - 1) /\ Tail(q)[k - 1].op = "clear"
      <4>1. k - 1 \in 1..(i - 1) /\ k - 1 \in 1..Len(Tail(q)) /\ (k - 1) + 1 = k
        <5>1. Len(Tail(q)) \in Nat
          BY TailOf
        <5>2. i \in Int /\ i <= Len(Tail(q)) /\ k \in Int /\ 2 <= k /\ k <= i
          BY <5>1
        <5>3. QED
          BY <5>1, <5>2
      <4>2. Tail(q)[k - 1] = q[k]
        BY <4>1, TailOf
      <4>3. QED
        BY <3>1, <4>1, <4>2
    <3>2. QED
      BY <3>1 DEF Apart, Cleared
  <2>5. Start(q[i + 1]) \in Nat
    BY <2>1, <2>2, PartIs
  <2>6. QED
    BY <1>2, <1>5, <2>1, <2>3, <2>4, <2>5
<1>7. QED
  BY <1>4, <1>5, <1>6

-----------------------------------------------------------------------------
(* Requests have been made: room and order of the parts. *)

(* Requests without samples need no room.                                  *)
LEMMA RoomAdded ==
  ASSUME NEW q \in Seq(Request), NEW r \in Seq(Request), NEW d, RoomFor(q, d),
         \A i \in 1..Len(r) : r[i].op # "part"
  PROVE  RoomFor(q \o r, d)
<1> DEFINE u == q \o r
<1>1. /\ Len(u) = Len(q) + Len(r) /\ Len(q) \in Nat /\ Len(r) \in Nat
      /\ \A i \in 1..Len(q) : u[i] = q[i]
      /\ \A i \in 1..Len(r) : u[Len(q) + i] = r[i]
  BY Joined
<1>2. \A i \in 1..Len(q) : Cleared(q, i) => Cleared(u, i)
  BY Extended
<1> HIDE DEF u
<1> SUFFICES ASSUME NEW i \in 1..Len(u), u[i].op = "part"
             PROVE  d < Start(u[i]) \/ Cleared(u, i)
  BY DEF RoomFor, u
<1>3. i \in 1..Len(q)
  <2>1. i \in 1..Len(q) \/ (i - Len(q) \in 1..Len(r) /\ Len(q) + (i - Len(q)) = i)
    BY <1>1
  <2>2. QED
    BY <1>1, <2>1
<1>4. QED
  BY <1>1, <1>2, <1>3 DEF RoomFor

(* Requests without samples change nothing in how the parts rise.          *)
LEMMA RisingAdded ==
  ASSUME NEW q \in Seq(Request), NEW r \in Seq(Request), Rising(q),
         \A i \in 1..Len(r) : r[i].op # "part"
  PROVE  Rising(q \o r)
<1> DEFINE u == q \o r
<1>1. /\ Len(u) = Len(q) + Len(r) /\ Len(q) \in Nat /\ Len(r) \in Nat
      /\ \A i \in 1..Len(q) : u[i] = q[i]
      /\ \A i \in 1..Len(r) : u[Len(q) + i] = r[i]
  BY Joined
<1>2. \A i, j \in 1..Len(q) : Apart(q, i, j) => Apart(u, i, j)
  BY Extended
<1> HIDE DEF u
<1> SUFFICES ASSUME NEW i \in 1..Len(u), NEW j \in (i + 1)..Len(u),
                    u[i].op = "part", u[j].op = "part"
             PROVE  End(u[i]) <= Start(u[j]) \/ Apart(u, i, j)
  BY DEF Rising, u
<1>3. j \in (i + 1)..Len(q) /\ i \in 1..Len(q) /\ j \in 1..Len(q)
  <2>1. j \in (i + 1)..Len(q) \/ (j - Len(q) \in 1..Len(r) /\ Len(q) + (j - Len(q)) = j)
    BY <1>1
  <2>2. j \in (i + 1)..Len(q)
    BY <1>1, <2>1
  <2>3. QED
    BY <1>1, <2>2
<1>4. QED
  BY <1>1, <1>2, <1>3 DEF Rising

(* Requests without samples stay below n.                                  *)
LEMMA BelowAdded ==
  ASSUME NEW q \in Seq(Request), NEW r \in Seq(Request), NEW n, Below(q, n),
         \A i \in 1..Len(r) : r[i].op # "part"
  PROVE  Below(q \o r, n)
<1> DEFINE u == q \o r
<1>1. /\ Len(u) = Len(q) + Len(r) /\ Len(q) \in Nat /\ Len(r) \in Nat
      /\ \A i \in 1..Len(q) : u[i] = q[i]
      /\ \A i \in 1..Len(r) : u[Len(q) + i] = r[i]
  BY Joined
<1>2. \A i \in 1..Len(q) : Recent(u, i) => Recent(q, i)
  BY Extended
<1> HIDE DEF u
<1> SUFFICES ASSUME NEW i \in 1..Len(u), u[i].op = "part", Recent(u, i)
             PROVE  End(u[i]) <= n
  BY DEF Below, u
<1>3. i \in 1..Len(q)
  <2>1. i \in 1..Len(q) \/ (i - Len(q) \in 1..Len(r) /\ Len(q) + (i - Len(q)) = i)
    BY <1>1
  <2>2. QED
    BY <1>1, <2>1
<1>4. QED
  BY <1>1, <1>2, <1>3 DEF Below

(* The three requests of a preparation leave nothing recent but themselves. *)
LEMMA BelowRenewed ==
  ASSUME NEW q \in Seq(Request), NEW n
  PROVE  Below(q \o Prepares, n)
<1> DEFINE u == q \o Prepares
<1>1. /\ Len(u) = Len(q) + 3 /\ Len(q) \in Nat
      /\ u[Len(q) + 3] = [op |-> "clear", n |-> 0]
      /\ \A i \in 1..(Len(q) + 2) : ~Recent(u, i)
  BY Renewed
<1> HIDE DEF u
<1>2. \A i \in 1..Len(u) : i \in 1..(Len(q) + 2) \/ i = Len(q) + 3
  BY <1>1
<1>3. [op |-> "clear", n |-> 0].op # "part"
  OBVIOUS
<1>4. u[Len(q) + 3].op # "part"
  BY <1>1, <1>3, Zenon
<1>5. Below(u, n)
  BY <1>1, <1>2, <1>4 DEF Below
<1>6. QED
  BY <1>5 DEF u

(* The next part of a send.                                                *)
LEMMA PartAdded ==
  ASSUME NEW q \in Seq(Request), NEW p \in Request, p.op = "part",
         NEW d \in Nat, RoomFor(q, d), Rising(q), Below(q, Start(p)),
         Clearing(q) \/ d < Start(p)
  PROVE  /\ RoomFor(q \o <<p>>, d) /\ Rising(q \o <<p>>) /\ Below(q \o <<p>>, End(p))
<1> DEFINE u == q \o <<p>>
           l == Len(q)
<1>1. <<p>> \in Seq(Request) /\ Len(<<p>>) = 1 /\ <<p>>[1] = p
  OBVIOUS
<1>2. /\ Len(u) = l + 1 /\ l \in Nat
      /\ \A i \in 1..l : u[i] = q[i]
      /\ u[l + 1] = p
  <2>1. 1 \in 1..Len(<<p>>)
    OBVIOUS
  <2>2. QED
    BY <1>1, <2>1, Joined
<1>3. \A i \in 1..Len(<<p>>) : <<p>>[i].op # "clear"
  BY <1>1
<1>4. /\ \A i \in 1..l : Cleared(u, i) <=> Cleared(q, i)
      /\ \A i, j \in 1..l : Apart(u, i, j) <=> Apart(q, i, j)
  BY <1>1, Extended
<1>5. /\ \A i \in 1..l : Recent(u, i) <=> Recent(q, i)
      /\ \A i \in (l + 1)..Len(u) : Cleared(u, i) <=> Clearing(q)
      /\ \A i \in 1..l : Apart(u, i, l + 1) <=> ~Recent(q, i)
  BY <1>1, <1>3, Lengthened
<1>6. /\ Start(p) \in Nat /\ End(p) \in Nat /\ Start(p) <= End(p)
      /\ \A i \in 1..l : q[i] \in Request
  BY Bare, PartIs
<1> HIDE DEF u
<1>7. \A i \in 1..Len(u) : i \in 1..l \/ i = l + 1
  BY <1>2
<1>8. RoomFor(u, d)
  <2>1. l + 1 \in (l + 1)..Len(u)
    BY <1>2
  <2>2. d < Start(p) \/ Cleared(u, l + 1)
    BY <1>5, <2>1
  <2>3. QED
    BY <1>2, <1>4, <1>7, <2>2 DEF RoomFor
<1>9. Rising(u)
  <2> SUFFICES ASSUME NEW i \in 1..Len(u), NEW j \in (i + 1)..Len(u),
                      u[i].op = "part", u[j].op = "part"
               PROVE  End(u[i]) <= Start(u[j]) \/ Apart(u, i, j)
    BY DEF Rising
  <2>1. i \in 1..l /\ (j \in (i + 1)..l \/ j = l + 1) /\ (j \in 1..l \/ j = l + 1)
    BY <1>2
  <2>2. CASE j \in (i + 1)..l /\ j \in 1..l
    <3>1. End(q[i]) <= Start(q[j]) \/ Apart(q, i, j)
      BY <1>2, <2>1, <2>2 DEF Rising
    <3>2. QED
      BY <1>2, <1>4, <2>1, <2>2, <3>1
  <2>3. CASE j = l + 1
    <3>1. ~Recent(q, i) => Apart(u, i, j)
      BY <1>5, <2>1, <2>3
    <3>2. Recent(q, i) => End(q[i]) <= Start(p)
      BY <1>2, <2>1 DEF Below
    <3>3. QED
      BY <1>2, <2>1, <2>3, <3>1, <3>2
  <2>4. QED
    BY <1>2, <2>1, <2>2, <2>3
<1>10. Below(u, End(p))
  <2> SUFFICES ASSUME NEW i \in 1..Len(u), u[i].op = "part", Recent(u, i)
               PROVE  End(u[i]) <= End(p)
    BY DEF Below
  <2>1. CASE i = l + 1
    BY <1>2, <1>6, <2>1
  <2>2. CASE i \in 1..l
    <3>1. End(q[i]) <= Start(p) /\ End(q[i]) \in Nat
      BY <1>2, <1>5, <1>6, <2>2, PartIs DEF Below
    <3>2. QED
      BY <1>2, <1>6, <2>2, <3>1
  <2>3. QED
    BY <1>7, <2>1, <2>2
<1>11. QED
  BY <1>8, <1>9, <1>10 DEF u

-----------------------------------------------------------------------------
(* How the parts follow one another. *)

(* A request that goes and is no recent part leaves the parts linked.      *)
LEMMA LinkedTail ==
  ASSUME NEW q \in Seq(Request), q # <<>>, NEW m, NEW n,
         q[1].op # "part" \/ ~Recent(q, 1)
  PROVE  /\ Linked(q, m) => Linked(Tail(q), m)
         /\ Reached(q, m, n) => Reached(Tail(q), m, n)
<1> DEFINE t == Tail(q)
<1>1. /\ Len(t) = Len(q) - 1 /\ Len(q) \in Nat \ {0} /\ Len(t) \in Nat
      /\ \A i \in 1..Len(t) : t[i] = q[i + 1]
  BY TailOf
<1>2. \A i \in 1..Len(t) : Recent(t, i) <=> Recent(q, i + 1)
  BY Shifted
<1> HIDE DEF t
<1>3. ASSUME Linked(q, m) PROVE Linked(t, m)
  <2> SUFFICES ASSUME NEW i \in 1..Len(t), t[i].op = "part", Recent(t, i)
               PROVE  \/ Start(t[i]) = m
                      \/ \E j \in 1..(i - 1) :
                           t[j].op = "part" /\ Recent(t, j) /\ End(t[j]) = Start(t[i])
    BY DEF Linked
  <2>1. i + 1 \in 1..Len(q) /\ (i + 1) - 1 = i /\ i <= Len(t)
    BY <1>1
  <2>2. \/ Start(q[i + 1]) = m
        \/ \E j \in 1..i : q[j].op = "part" /\ Recent(q, j) /\ End(q[j]) = Start(q[i + 1])
    <3>1. q[i + 1].op = "part" /\ Recent(q, i + 1)
      BY <1>1, <1>2
    <3>2. \/ Start(q[i + 1]) = m
          \/ \E j \in 1..((i + 1) - 1) :
               q[j].op = "part" /\ Recent(q, j) /\ End(q[j]) = Start(q[i + 1])
      BY <1>3, <2>1, <3>1 DEF Linked
    <3>3. QED
      BY <2>1, <3>2
  <2>3. ASSUME NEW j \in 1..i, q[j].op = "part", Recent(q, j), End(q[j]) = Start(q[i + 1])
        PROVE  \E k \in 1..(i - 1) :
                 t[k].op = "part" /\ Recent(t, k) /\ End(t[k]) = Start(t[i])
    <3>1. j # 1
      BY <2>3
    <3>2. j - 1 \in 1..(i - 1) /\ j - 1 \in 1..Len(t) /\ (j - 1) + 1 = j
      BY <1>1, <2>1, <3>1
    <3>3. t[j - 1] = q[j] /\ Recent(t, j - 1)
      BY <1>1, <1>2, <2>3, <3>2
    <3>4. t[j - 1].op = "part" /\ End(t[j - 1]) = Start(t[i])
      BY <1>1, <2>3, <3>3
    <3>5. QED
      BY <3>2, <3>3, <3>4
  <2>4. QED
    BY <1>1, <2>2, <2>3
<1>4. ASSUME Reached(q, m, n) PROVE Reached(t, m, n)
  <2>1. CASE n = m
    BY <2>1 DEF Reached
  <2>2. ASSUME NEW i \in 1..Len(q), q[i].op = "part", Recent(q, i), End(q[i]) = n
        PROVE  Reached(t, m, n)
    <3>1. i # 1
      BY <2>2
    <3>2. i - 1 \in 1..Len(t) /\ (i - 1) + 1 = i
      BY <1>1, <3>1
    <3>3. t[i - 1] = q[i] /\ Recent(t, i - 1)
      BY <1>1, <1>2, <2>2, <3>2
    <3>4. t[i - 1].op = "part" /\ End(t[i - 1]) = n
      BY <2>2, <3>3
    <3>5. QED
      BY <3>2, <3>3, <3>4 DEF Reached
  <2>3. QED
    BY <1>4, <2>1, <2>2 DEF Reached
<1>5. QED
  BY <1>3, <1>4 DEF t

(* The first part moves the mark to its end.                               *)
LEMMA LinkedPart ==
  ASSUME NEW q \in Seq(Request), q # <<>>, q[1].op = "part", ~Clearing(q),
         Rising(q), NEW m, Linked(q, m)
  PROVE  /\ Start(q[1]) = m /\ Linked(Tail(q), End(q[1]))
         /\ \A n \in Nat : Below(q, n) /\ Reached(q, m, n) => Reached(Tail(q), End(q[1]), n)
<1> DEFINE t == Tail(q)
           e == End(q[1])
<1>1. /\ Len(t) = Len(q) - 1 /\ Len(q) \in Nat \ {0} /\ Len(t) \in Nat
      /\ \A i \in 1..Len(t) : t[i] = q[i + 1]
  BY TailOf
<1>2. \A i \in 1..Len(t) : Recent(t, i) <=> Recent(q, i + 1)
  BY Shifted
<1> HIDE DEF t
<1>3. \A i \in 1..Len(q) : Recent(q, i)
  <2>1. \A i \in 1..Len(q) : \A k \in (i + 1)..Len(q) : k \in 1..Len(q)
    BY <1>1
  <2>2. QED
    BY <2>1 DEF Recent, Clearing
<1>4. \A i, j \in 1..Len(q) : ~Apart(q, i, j)
  <2>1. \A i, j \in 1..Len(q) : \A k \in (i + 1)..(j - 1) : k \in 1..Len(q)
    BY <1>1
  <2>2. QED
    BY <2>1 DEF Apart, Clearing
<1>5. \A i \in 1..Len(q) : q[i] \in Request
  BY Bare
<1>6. 1 \in 1..Len(q) /\ q[1] \in Request
  BY <1>1, <1>5
<1>7. Start(q[1]) \in Nat /\ e \in Nat /\ Start(q[1]) < e
  <2>1. /\ Start(q[1]) \in Nat \ {0} /\ Len(q[1].n) \in Nat \ {0}
        /\ End(q[1]) = Start(q[1]) + Len(q[1].n)
    BY <1>6, PartIs
  <2>2. QED
    BY <2>1
<1>8. Start(q[1]) = m
  <2>1. \A j \in 1..(1 - 1) : FALSE
    OBVIOUS
  <2>2. \/ Start(q[1]) = m
        \/ \E j \in 1..(1 - 1) : q[j].op = "part" /\ Recent(q, j) /\ End(q[j]) = Start(q[1])
    BY <1>3, <1>6 DEF Linked
  <2>3. QED
    BY <2>1, <2>2
<1>9. ASSUME NEW i \in 1..Len(t), t[i].op = "part" PROVE e <= Start(t[i])
  <2>1. i + 1 \in (1 + 1)..Len(q) /\ i + 1 \in 1..Len(q) /\ t[i] = q[i + 1]
    BY <1>1
  <2>2. e <= Start(q[i + 1]) \/ Apart(q, 1, i + 1)
    BY <1>6, <1>9, <2>1 DEF Rising
  <2>3. QED
    BY <1>4, <1>6, <2>1, <2>2
<1> HIDE DEF e
<1>10. Linked(t, e)
  <2> SUFFICES ASSUME NEW i \in 1..Len(t), t[i].op = "part", Recent(t, i)
               PROVE  \/ Start(t[i]) = e
                      \/ \E j \in 1..(i - 1) :
                           t[j].op = "part" /\ Recent(t, j) /\ End(t[j]) = Start(t[i])
    BY DEF Linked
  <2>1. i + 1 \in 1..Len(q) /\ (i + 1) - 1 = i /\ i <= Len(t) /\ t[i] = q[i + 1]
    BY <1>1
  <2>2. \/ Start(q[i + 1]) = m
        \/ \E j \in 1..i : q[j].op = "part" /\ Recent(q, j) /\ End(q[j]) = Start(q[i + 1])
    <3>1. \/ Start(q[i + 1]) = m
          \/ \E j \in 1..((i + 1) - 1) :
               q[j].op = "part" /\ Recent(q, j) /\ End(q[j]) = Start(q[i + 1])
      BY <1>3, <2>1 DEF Linked
    <3>2. QED
      BY <2>1, <3>1
  <2>3. Start(q[i + 1]) # m
    <3>1. e <= Start(t[i])
      BY <1>9
    <3>2. q[i + 1] \in Request /\ q[i + 1].op = "part"
      BY <1>5, <2>1
    <3>3. Start(q[i + 1]) \in Nat
      BY <3>2, PartIs
    <3>4. QED
      BY <1>7, <1>8, <2>1, <3>1, <3>3
  <2>4. ASSUME NEW j \in 1..i, q[j].op = "part", Recent(q, j), End(q[j]) = Start(q[i + 1])
        PROVE  \/ Start(t[i]) = e
               \/ \E k \in 1..(i - 1) :
                    t[k].op = "part" /\ Recent(t, k) /\ End(t[k]) = Start(t[i])
    <3>1. CASE j = 1
      BY <2>1, <2>4, <3>1 DEF e
    <3>2. CASE j # 1
      <4>1. j - 1 \in 1..(i - 1) /\ j - 1 \in 1..Len(t) /\ (j - 1) + 1 = j
        BY <1>1, <2>1, <3>2
      <4>2. t[j - 1] = q[j] /\ Recent(t, j - 1)
        BY <1>1, <1>2, <2>4, <4>1
      <4>3. t[j - 1].op = "part" /\ End(t[j - 1]) = Start(t[i])
        BY <2>1, <2>4, <4>2
      <4>4. QED
        BY <4>1, <4>2, <4>3
    <3>3. QED
      BY <3>1, <3>2
  <2>5. QED
    BY <2>2, <2>3, <2>4
<1>11. ASSUME NEW n \in Nat, Below(q, n), Reached(q, m, n) PROVE Reached(t, e, n)
  <2>1. n # m
    <3>1. e <= n
      BY <1>3, <1>6, <1>11 DEF Below, e
    <3>2. QED
      BY <1>7, <1>8, <3>1
  <2>2. PICK i \in 1..Len(q) : q[i].op = "part" /\ Recent(q, i) /\ End(q[i]) = n
    BY <1>11, <2>1 DEF Reached
  <2>3. CASE i = 1
    BY <2>2, <2>3 DEF Reached, e
  <2>4. CASE i # 1
    <3>1. i - 1 \in 1..Len(t) /\ (i - 1) + 1 = i
      BY <1>1, <2>4
    <3>2. t[i - 1] = q[i] /\ Recent(t, i - 1)
      BY <1>1, <1>2, <2>2, <3>1
    <3>3. t[i - 1].op = "part" /\ End(t[i - 1]) = n
      BY <2>2, <3>2
    <3>4. QED
      BY <3>1, <3>2, <3>3 DEF Reached
  <2>5. QED
    BY <2>3, <2>4
<1>12. QED
  BY <1>8, <1>10, <1>11 DEF t, e

(* Requests without samples that clear nothing leave the parts linked.     *)
LEMMA LinkedAdded ==
  ASSUME NEW q \in Seq(Request), NEW r \in Seq(Request), NEW m, NEW n,
         \A i \in 1..Len(r) : r[i].op \notin {"part", "clear"}
  PROVE  /\ Linked(q, m) => Linked(q \o r, m)
         /\ Reached(q, m, n) => Reached(q \o r, m, n)
<1> DEFINE u == q \o r
<1>1. /\ Len(u) = Len(q) + Len(r) /\ Len(q) \in Nat /\ Len(r) \in Nat
      /\ \A i \in 1..Len(q) : u[i] = q[i]
      /\ \A i \in 1..Len(r) : u[Len(q) + i] = r[i]
  BY Joined
<1>2. \A i \in 1..Len(q) : Recent(u, i) <=> Recent(q, i)
  BY Lengthened
<1> HIDE DEF u
<1>3. \A i \in 1..Len(u) : u[i].op = "part" => i \in 1..Len(q)
  <2>1. \A i \in 1..Len(u) :
          i \in 1..Len(q) \/ (i - Len(q) \in 1..Len(r) /\ Len(q) + (i - Len(q)) = i)
    BY <1>1
  <2>2. QED
    BY <1>1, <2>1, ZenonT(60)
<1>4. ASSUME Linked(q, m) PROVE Linked(u, m)
  <2> SUFFICES ASSUME NEW i \in 1..Len(u), u[i].op = "part", Recent(u, i)
               PROVE  \/ Start(u[i]) = m
                      \/ \E j \in 1..(i - 1) :
                           u[j].op = "part" /\ Recent(u, j) /\ End(u[j]) = Start(u[i])
    BY DEF Linked
  <2>1. i \in 1..Len(q) /\ \A j \in 1..(i - 1) : j \in 1..Len(q)
    BY <1>1, <1>3
  <2>2. QED
    BY <1>1, <1>2, <1>4, <2>1 DEF Linked
<1>5. ASSUME Reached(q, m, n) PROVE Reached(u, m, n)
  <2>1. \A i \in 1..Len(q) : i \in 1..Len(u)
    BY <1>1
  <2>2. QED
    BY <1>1, <1>2, <1>5, <2>1 DEF Reached
<1>6. QED
  BY <1>4, <1>5 DEF u

(* After a preparation no part is recent: all are linked.                  *)
LEMMA LinkedRenewed ==
  ASSUME NEW q \in Seq(Request), NEW m
  PROVE  Linked(q \o Prepares, m)
<1> DEFINE u == q \o Prepares
<1>1. /\ Len(u) = Len(q) + 3 /\ Len(q) \in Nat
      /\ u[Len(q) + 3] = [op |-> "clear", n |-> 0]
      /\ \A i \in 1..(Len(q) + 2) : ~Recent(u, i)
  BY Renewed
<1> HIDE DEF u
<1>2. \A i \in 1..Len(u) : i \in 1..(Len(q) + 2) \/ i = Len(q) + 3
  BY <1>1
<1>3. [op |-> "clear", n |-> 0].op # "part"
  OBVIOUS
<1>4. u[Len(q) + 3].op # "part"
  BY <1>1, <1>3, Zenon
<1>5. Linked(u, m)
  BY <1>1, <1>2, <1>4 DEF Linked
<1>6. QED
  BY <1>5 DEF u

(* A part that begins where the others have reached is linked to them.     *)
LEMMA LinkedNext ==
  ASSUME NEW q \in Seq(Request), NEW p \in Request, p.op = "part",
         NEW m, Linked(q, m), Reached(q, m, Start(p))
  PROVE  Linked(q \o <<p>>, m) /\ Reached(q \o <<p>>, m, End(p))
<1> DEFINE u == q \o <<p>>
           l == Len(q)
<1>1. <<p>> \in Seq(Request) /\ Len(<<p>>) = 1 /\ <<p>>[1] = p
  OBVIOUS
<1>2. /\ Len(u) = l + 1 /\ l \in Nat
      /\ \A i \in 1..l : u[i] = q[i]
      /\ u[l + 1] = p
  <2>1. 1 \in 1..Len(<<p>>)
    OBVIOUS
  <2>2. QED
    BY <1>1, <2>1, Joined
<1>3. \A i \in 1..Len(<<p>>) : <<p>>[i].op # "clear"
  BY <1>1
<1>4. /\ \A i \in 1..l : Recent(u, i) <=> Recent(q, i)
      /\ \A i \in (l + 1)..Len(u) : Recent(u, i)
  BY <1>1, <1>3, Lengthened
<1> HIDE DEF u
<1>5. Recent(u, l + 1) /\ l + 1 \in 1..Len(u)
  BY <1>2, <1>4
<1>6. Reached(u, m, End(p))
  BY <1>2, <1>5 DEF Reached
<1>7. Linked(u, m)
  <2> SUFFICES ASSUME NEW i \in 1..Len(u), u[i].op = "part", Recent(u, i)
               PROVE  \/ Start(u[i]) = m
                      \/ \E j \in 1..(i - 1) :
                           u[j].op = "part" /\ Recent(u, j) /\ End(u[j]) = Start(u[i])
    BY DEF Linked
  <2>1. CASE i \in 1..l
    <3>1. \A j \in 1..(i - 1) : j \in 1..l
      BY <1>2, <2>1
    <3>2. QED
      BY <1>2, <1>4, <2>1, <3>1 DEF Linked
  <2>2. CASE i = l + 1
    <3>1. \A j \in 1..l : j \in 1..(i - 1)
      BY <1>2, <2>2
    <3>2. QED
      BY <1>2, <1>4, <2>2, <3>1 DEF Reached
  <2>3. QED
    BY <1>2, <2>1, <2>2
<1>8. QED
  BY <1>6, <1>7 DEF u

-----------------------------------------------------------------------------
(* Requests that set tx.count. *)

(* The request that sets tx.count goes: no other one follows.              *)
LEMMA SetsTail ==
  ASSUME NEW q \in Seq(Request), q # <<>>, NEW n
  PROVE  /\ Setting(q) <=> Sets(q, 1) \/ Setting(Tail(q))
         /\ SetsTo(q, n) => SetsTo(Tail(q), n)
         /\ SetsOnce(q) => SetsOnce(Tail(q))
         /\ SetsOnce(q) /\ Sets(q, 1) => ~Setting(Tail(q))
<1> DEFINE t == Tail(q)
<1>1. /\ Len(t) = Len(q) - 1 /\ Len(q) \in Nat \ {0} /\ Len(t) \in Nat
      /\ \A i \in 1..Len(t) : t[i] = q[i + 1]
  BY TailOf
<1>2. \A i \in 1..Len(t) : Recent(t, i) <=> Recent(q, i + 1)
  BY Shifted
<1> HIDE DEF t
<1>3. \A i \in 1..Len(t) : i + 1 \in 1..Len(q) /\ i + 1 # 1
  BY <1>1
<1>4. \A i \in 1..Len(q) : i = 1 \/ (i - 1 \in 1..Len(t) /\ (i - 1) + 1 = i)
  BY <1>1
<1>5. \A i \in 1..Len(t) : Sets(t, i) <=> Sets(q, i + 1)
  BY <1>1, <1>2 DEF Sets
<1>6. 1 \in 1..Len(q)
  BY <1>1
<1>7. Setting(q) <=> Sets(q, 1) \/ Setting(t)
  <2>1. ASSUME NEW i \in 1..Len(q), Sets(q, i) PROVE Sets(q, 1) \/ Setting(t)
    <3>1. CASE i = 1
      BY <2>1, <3>1
    <3>2. CASE i # 1
      <4>1. i - 1 \in 1..Len(t) /\ (i - 1) + 1 = i
        BY <1>4, <3>2
      <4>2. Sets(t, i - 1)
        BY <1>5, <2>1, <4>1
      <4>3. QED
        BY <4>1, <4>2 DEF Setting
    <3>3. QED
      BY <3>1, <3>2
  <2>2. Setting(t) => Setting(q)
    BY <1>3, <1>5 DEF Setting
  <2>3. Sets(q, 1) => Setting(q)
    BY <1>6 DEF Setting
  <2>4. QED
    BY <2>1, <2>2, <2>3 DEF Setting
<1>8. SetsTo(q, n) => SetsTo(t, n)
  BY <1>1, <1>3, <1>5 DEF SetsTo
<1>9. SetsOnce(q) => SetsOnce(t)
  <2> SUFFICES ASSUME SetsOnce(q), NEW i \in 1..Len(t), NEW j \in 1..Len(t),
                      Sets(t, i), Sets(t, j)
               PROVE  i = j
    BY DEF SetsOnce
  <2>1. i + 1 = j + 1
    BY <1>3, <1>5 DEF SetsOnce
  <2>2. QED
    BY <2>1
<1>10. SetsOnce(q) /\ Sets(q, 1) => ~Setting(t)
  BY <1>3, <1>5, <1>6 DEF SetsOnce, Setting
<1>11. QED
  BY <1>7, <1>8, <1>9, <1>10 DEF t

(* Requests that neither set tx.count nor clear change nothing.            *)
LEMMA SetsAdded ==
  ASSUME NEW q \in Seq(Request), NEW r \in Seq(Request), NEW n,
         \A i \in 1..Len(r) : r[i].op \notin {"set_count", "clear"}
  PROVE  /\ Setting(q \o r) <=> Setting(q)
         /\ SetsTo(q, n) => SetsTo(q \o r, n)
         /\ SetsOnce(q) => SetsOnce(q \o r)
<1> DEFINE u == q \o r
<1>1. /\ Len(u) = Len(q) + Len(r) /\ Len(q) \in Nat /\ Len(r) \in Nat
      /\ \A i \in 1..Len(q) : u[i] = q[i]
      /\ \A i \in 1..Len(r) : u[Len(q) + i] = r[i]
  BY Joined
<1>2. \A i \in 1..Len(q) : Recent(u, i) <=> Recent(q, i)
  BY Lengthened
<1> HIDE DEF u
<1>3. \A i \in 1..Len(u) : u[i].op = "set_count" => i \in 1..Len(q)
  <2>1. \A i \in 1..Len(u) :
          i \in 1..Len(q) \/ (i - Len(q) \in 1..Len(r) /\ Len(q) + (i - Len(q)) = i)
    BY <1>1
  <2>2. QED
    BY <1>1, <2>1, ZenonT(60)
<1>4. \A i \in 1..Len(q) : i \in 1..Len(u) /\ (Sets(u, i) <=> Sets(q, i))
  BY <1>1, <1>2 DEF Sets
<1>5. \A i \in 1..Len(u) : Sets(u, i) => i \in 1..Len(q) /\ Sets(q, i)
  BY <1>3, <1>4 DEF Sets
<1>6. QED
  BY <1>1, <1>4, <1>5 DEF Setting, SetsTo, SetsOnce, u

(* A preparation leaves no recent request that sets tx.count.              *)
LEMMA SetsRenewed ==
  ASSUME NEW q \in Seq(Request), NEW n
  PROVE  /\ ~Setting(q \o Prepares) /\ SetsTo(q \o Prepares, n) /\ SetsOnce(q \o Prepares)
<1> DEFINE u == q \o Prepares
<1>1. /\ Len(u) = Len(q) + 3 /\ Len(q) \in Nat
      /\ u[Len(q) + 3] = [op |-> "clear", n |-> 0]
      /\ \A i \in 1..(Len(q) + 2) : ~Recent(u, i)
  BY Renewed
<1> HIDE DEF u
<1>2. \A i \in 1..Len(u) : i \in 1..(Len(q) + 2) \/ i = Len(q) + 3
  BY <1>1
<1>3. [op |-> "clear", n |-> 0].op # "set_count"
  OBVIOUS
<1>4. u[Len(q) + 3].op # "set_count"
  BY <1>1, <1>3, Zenon
<1>5. \A i \in 1..Len(u) : ~Sets(u, i)
  BY <1>1, <1>2, <1>4 DEF Sets
<1>6. QED
  BY <1>5 DEF Setting, SetsTo, SetsOnce, u

(* The count is written: this is the one request that sets it.             *)
LEMMA SetsNext ==
  ASSUME NEW q \in Seq(Request), NEW p \in Request, p.op = "set_count", ~Setting(q)
  PROVE  /\ Setting(q \o <<p>>) /\ SetsTo(q \o <<p>>, p.n) /\ SetsOnce(q \o <<p>>)
<1> DEFINE u == q \o <<p>>
           l == Len(q)
<1>1. <<p>> \in Seq(Request) /\ Len(<<p>>) = 1 /\ <<p>>[1] = p
  OBVIOUS
<1>2. /\ Len(u) = l + 1 /\ l \in Nat
      /\ \A i \in 1..l : u[i] = q[i]
      /\ u[l + 1] = p
  <2>1. 1 \in 1..Len(<<p>>)
    OBVIOUS
  <2>2. QED
    BY <1>1, <2>1, Joined
<1>3. \A i \in 1..Len(<<p>>) : <<p>>[i].op # "clear"
  BY <1>1
<1>4. /\ \A i \in 1..l : Recent(u, i) <=> Recent(q, i)
      /\ \A i \in (l + 1)..Len(u) : Recent(u, i)
  BY <1>1, <1>3, Lengthened
<1> HIDE DEF u
<1>5. Recent(u, l + 1) /\ l + 1 \in 1..Len(u)
  BY <1>2, <1>4
<1>6. \A i \in 1..l : ~Sets(u, i)
  BY <1>2, <1>4 DEF Sets, Setting
<1>7. \A i \in 1..Len(u) : i \in 1..l \/ i = l + 1
  BY <1>2
<1>8. Sets(u, l + 1)
  BY <1>2, <1>5 DEF Sets
<1>9. QED
  BY <1>2, <1>5, <1>6, <1>7, <1>8 DEF Setting, SetsTo, SetsOnce, u

-----------------------------------------------------------------------------
(* A sender goes from one place to another. *)

(* A step of a thread changes its place and none of its arguments.         *)
LEMMA PcChanges ==
  ASSUME Typing, NEW s \in Senders, NEW to, at' = [at EXCEPT ![s].pc = to]
  PROVE  at' = [at EXCEPT ![s] = [pc |-> to, of |-> at[s].of, n |-> at[s].n]]
<1>1. at \in [Senders -> Stand] /\ at[s] \in Stand
  BY DEF Typing
<1>2. [at[s] EXCEPT !.pc = to] = [pc |-> to, of |-> at[s].of, n |-> at[s].n]
  BY <1>1 DEF Stand
<1>3. [at EXCEPT ![s].pc = to] = [at EXCEPT ![s] = [at[s] EXCEPT !.pc = to]]
  BY <1>1
<1>4. QED
  BY <1>2, <1>3

(* Only the thread that holds txLock stands within the protected code.     *)
LEMMA Placed ==
  ASSUME Typing, Turns, NEW s \in Senders
  PROVE  /\ s # Nobody /\ at[s] \in Stand
         /\ at[s].pc \in Holds => txLock = s /\ Place = at[s].pc /\ Of = at[s].of /\ Wanted = at[s].n
         /\ at[s].pc \notin Holds => txLock # s
         /\ txLock # Nobody => txLock \in Senders /\ Place \in Holds
         /\ txLock = Nobody => Place = "free"
<1>1. s # Nobody
  BY SendersAssumption
<1>2. at[s] \in Stand /\ txLock \in Senders \cup {Nobody}
  BY DEF Typing
<1>3. QED
  BY <1>1, <1>2 DEF Turns, Place, Of, Wanted

(* One thread moves, the others stay where they are.                       *)
LEMMA AtAfter ==
  ASSUME Typing, NEW s \in Senders, NEW a \in Stand, at' = [at EXCEPT ![s] = a]
  PROVE  /\ at' \in [Senders -> Stand] /\ at'[s] = a
         /\ \A r \in Senders : r # s => at'[r] = at[r]
BY DEF Typing

(* The holder of txLock goes on within the protected code.                 *)
LEMMA Inside ==
  ASSUME Typing, Turns, NEW s \in Senders, NEW a \in Stand, at' = [at EXCEPT ![s] = a],
         at[s].pc \in Holds, a.pc \in Holds, txLock' = txLock, a.n = at[s].n,
         a.pc \in Sends \cup {"prepare"} => a.n # 0
  PROVE  /\ at' \in [Senders -> Stand] /\ Turns'
         /\ txLock = s /\ Place = at[s].pc /\ Of = at[s].of /\ Wanted = at[s].n
         /\ Place' = a.pc /\ Of' = a.of /\ Wanted' = Wanted
<1>1. /\ at' \in [Senders -> Stand] /\ at'[s] = a
      /\ \A r \in Senders : r # s => at'[r] = at[r]
  BY AtAfter
<1>2. /\ txLock = s /\ s # Nobody /\ Place = at[s].pc /\ Of = at[s].of /\ Wanted = at[s].n
  BY Placed
<1>3. "enter" \notin Holds /\ "wait" \notin Holds
  BY DEF Holds, Sends, Polls
<1>4. Turns'
  BY <1>1, <1>2, <1>3 DEF Turns
<1>5. Place' = a.pc /\ Of' = a.of /\ Wanted' = a.n
  BY <1>1, <1>2 DEF Place, Of, Wanted
<1>6. QED
  BY <1>1, <1>2, <1>4, <1>5

(* A thread takes the free txLock.                                         *)
LEMMA Takes ==
  ASSUME Typing, Turns, NEW s \in Senders, NEW a \in Stand, at' = [at EXCEPT ![s] = a],
         at[s].pc \notin Holds, a.pc \in Holds, txLock = Nobody, txLock' = s,
         a.pc \in Sends \cup {"prepare"} => a.n # 0
  PROVE  /\ at' \in [Senders -> Stand] /\ Turns'
         /\ Place = "free" /\ Place' = a.pc /\ Of' = a.of /\ Wanted' = a.n
<1>1. /\ at' \in [Senders -> Stand] /\ at'[s] = a
      /\ \A r \in Senders : r # s => at'[r] = at[r]
  BY AtAfter
<1>2. s # Nobody /\ \A r \in Senders : r # Nobody
  BY SendersAssumption
<1>3. "enter" \notin Holds /\ "wait" \notin Holds
  BY DEF Holds, Sends, Polls
<1>4. Turns'
  BY <1>1, <1>2, <1>3 DEF Turns
<1>5. Place = "free" /\ Place' = a.pc /\ Of' = a.of /\ Wanted' = a.n
  BY <1>1, <1>2 DEF Place, Of, Wanted
<1>6. QED
  BY <1>1, <1>4, <1>5

(* The holder gives txLock back and leaves the protected code.             *)
LEMMA Gives ==
  ASSUME Typing, Turns, NEW s \in Senders, NEW a \in Stand, at' = [at EXCEPT ![s] = a],
         at[s].pc \in Holds, a.pc \notin Holds, txLock' = Nobody, a.pc \notin {"enter", "wait"}
  PROVE  /\ at' \in [Senders -> Stand] /\ Turns'
         /\ txLock = s /\ Place = at[s].pc /\ Of = at[s].of /\ Wanted = at[s].n
         /\ Place' = "free"
<1>1. /\ at' \in [Senders -> Stand] /\ at'[s] = a
      /\ \A r \in Senders : r # s => at'[r] = at[r]
  BY AtAfter
<1>2. /\ txLock = s /\ s # Nobody /\ Place = at[s].pc /\ Of = at[s].of /\ Wanted = at[s].n
  BY Placed
<1>3. \A r \in Senders : r # Nobody
  BY SendersAssumption
<1>4. Sends \cup {"prepare"} \subseteq Holds
  BY DEF Holds
<1>5. Turns'
  BY <1>1, <1>2, <1>3, <1>4 DEF Turns
<1>6. QED
  BY <1>1, <1>2, <1>5 DEF Place

(* A thread moves outside of the protected code.                           *)
LEMMA Outside ==
  ASSUME Typing, Turns, NEW s \in Senders, NEW a \in Stand, at' = [at EXCEPT ![s] = a],
         at[s].pc \notin Holds, a.pc \notin Holds, txLock' = txLock,
         a.pc = "enter" => a.n # 0, a.pc = "wait" => a.of = "count"
  PROVE  /\ at' \in [Senders -> Stand] /\ Turns' /\ Place' = Place
         /\ Place # "free" => Of' = Of /\ Wanted' = Wanted
<1>1. /\ at' \in [Senders -> Stand] /\ at'[s] = a
      /\ \A r \in Senders : r # s => at'[r] = at[r]
  BY AtAfter
<1>2. s # Nobody /\ txLock # s /\ txLock \in Senders \cup {Nobody}
  BY Placed DEF Typing
<1>3. \A r \in Senders : r # Nobody
  BY SendersAssumption
<1>4. Sends \cup {"prepare"} \subseteq Holds
  BY DEF Holds
<1>5. Turns'
  BY <1>1, <1>2, <1>3, <1>4 DEF Turns
<1>6. Place' = Place /\ (Place # "free" => Of' = Of /\ Wanted' = Wanted)
  BY <1>1, <1>2 DEF Place, Of, Wanted
<1>7. QED
  BY <1>1, <1>5, <1>6

-----------------------------------------------------------------------------
(* What the steps do, without the operators they are written with. *)

(* Requests and answers share the ring of heads.                           *)
LEMMA Room ==
  Buffered = Len(todo) + Cardinality(Waits(coming))
BY DEF Buffered, Answers, Waits

(* What the constants are.                                                 *)
LEMMA Sizes ==
  Capacity \in Nat /\ Part \in Nat \ {0} /\ Heads \in Nat /\ \A n \in Counts : n \in 1..Capacity
BY SizeAssumption

(* Requests are made while the ring of heads has room.                     *)
LEMMA Requested ==
  ASSUME Typing, NEW r \in Seq(Request), Ask(r)
  PROVE  /\ todo' = todo \o r /\ coming' = coming /\ todo' \in Seq(Request)
         /\ Buffered' < Heads
<1>1. todo' = todo \o r /\ coming' = coming /\ Buffered + Len(r) < Heads
  BY DEF Ask
<1>2. todo' \in Seq(Request) /\ Len(todo') = Len(todo) + Len(r) /\ Len(todo) \in Nat /\ Len(r) \in Nat
  BY <1>1, Joined DEF Typing
<1>3. Cardinality(Waits(coming)) \in Nat
  BY WaitsFinite DEF Typing
<1>4. Buffered' = Len(todo') + Cardinality(Waits(coming))
  BY <1>1 DEF Buffered, Answers, Waits
<1>5. QED
  BY <1>1, <1>2, <1>3, <1>4, Room

(* The board carries out a request and answers it.                         *)
LEMMA Replied ==
  ASSUME Typing, todo # <<>>, NEW m \in Message, todo' = Tail(todo), coming' = Append(coming, m)
  PROVE  /\ todo' \in Seq(Request) /\ coming' \in Seq(Message) /\ Buffered' < Heads
<1>1. /\ todo' \in Seq(Request) /\ Len(todo') = Len(todo) - 1 /\ Len(todo) \in Nat
  BY TailOf DEF Typing
<1>2. coming' \in Seq(Message)
  BY Appended DEF Typing
<1>3. /\ Cardinality(Waits(coming)) \in Nat /\ Cardinality(Waits(coming')) \in Nat
      /\ Cardinality(Waits(coming')) <= Cardinality(Waits(coming)) + 1
  BY <1>2, WaitsFinite, WaitsAppend DEF Typing
<1>4. Buffered' = Len(todo') + Cardinality(Waits(coming'))
  BY DEF Buffered, Answers, Waits
<1>5. Buffered < Heads
  BY DEF Typing
<1>6. QED
  BY <1>1, <1>2, <1>3, <1>4, <1>5, Room, Sizes

(* A thread takes in a message.                                            *)
LEMMA Taken ==
  ASSUME Typing, TakeOne
  PROVE  /\ coming # <<>> /\ coming' = Tail(coming) /\ todo' = todo /\ coming[1] \in Message
         /\ coming' \in Seq(Message) /\ Buffered' < Heads
         /\ mem' \in [count : Nat, underflow : Nat]
         /\ seen' \in [count : Nat \cup {-1}, underflow : Nat \cup {-1}]
         /\ coming[1].op \in Values =>
              /\ mem' = [mem EXCEPT ![coming[1].op] = coming[1].n]
              /\ seen' = [seen EXCEPT ![coming[1].op] = coming[1].n]
         /\ coming[1].op \notin Values => mem' = mem /\ seen' = seen
<1>1. coming # <<>> /\ coming' = Tail(coming) /\ todo' = todo /\ Receive(Head(coming))
  BY DEF TakeOne
<1>2. /\ Head(coming) = coming[1] /\ coming[1] \in Message /\ coming' \in Seq(Message)
  BY <1>1, TailOf DEF Typing
<1>3. DOMAIN mem = Values
  BY DEF Typing, Values
<1>4. /\ coming[1].op \in Values =>
           /\ mem' = [mem EXCEPT ![coming[1].op] = coming[1].n]
           /\ seen' = [seen EXCEPT ![coming[1].op] = coming[1].n]
      /\ coming[1].op \notin Values => mem' = mem /\ seen' = seen
  BY <1>1, <1>2, <1>3 DEF Receive, copies
<1>5. coming[1].op \in Values => coming[1].n \in Nat
  BY <1>2 DEF Message, Values
<1>6. mem' \in [count : Nat, underflow : Nat]
  BY <1>4, <1>5 DEF Typing, Values
<1>7. seen' \in [count : Nat \cup {-1}, underflow : Nat \cup {-1}]
  BY <1>4, <1>5 DEF Typing, Values
<1>8. Buffered' < Heads
  <2>1. /\ Cardinality(Waits(coming)) \in Nat /\ Cardinality(Waits(coming')) \in Nat
        /\ Cardinality(Waits(coming')) <= Cardinality(Waits(coming))
    BY <1>1, <1>2, WaitsFinite, WaitsTail DEF Typing
  <2>2. Buffered' = Len(todo) + Cardinality(Waits(coming'))
    BY <1>1 DEF Buffered, Answers, Waits
  <2>3. Buffered < Heads /\ Len(todo) \in Nat
    BY Bare DEF Typing
  <2>4. QED
    BY <2>1, <2>2, <2>3, Room, Sizes
<1>9. QED
  BY <1>1, <1>2, <1>4, <1>6, <1>7, <1>8

Still == UNCHANGED <<mem, seen, local, started, lock, txLock, at, job>>

(* A step of the board leaves alone all that is the driver's.              *)
LEMMA StillKeeps ==
  ASSUME Still
  PROVE  /\ Place' = Place /\ Of' = Of /\ Wanted' = Wanted /\ Left' = Left
         /\ Following' = Following /\ (Unset' <=> Unset)
         /\ (Turns <=> Turns') /\ (Stages <=> Stages') /\ (Rest <=> Rest')
BY DEF Still, Place, Of, Wanted, Left, Following, Unset, Turns, Stages, Rest

(* A step of the board is type-correct if what it changes is.              *)
LEMMA StillTyped ==
  ASSUME Typing, Still, tx' \in [count : 0..Capacity, underflow : Nat],
         data' \in Seq(Samples), Len(data') <= Capacity, shown' \in Seq(0..Capacity),
         todo' \in Seq(Request), coming' \in Seq(Message), Buffered' < Heads, fault' = fault
  PROVE  Typing'
BY DEF Typing, Still

(* The board changes none of the driver's variables.                       *)
LEMMA BoardStill ==
  ASSUME Board
  PROVE  Still /\ Running
BY DEF Board, Still, copies, driver

(* The board carries out the first request.                                *)
LEMMA CarriesStep ==
  ASSUME Typing, NEW op, Carry(op)
  PROVE  /\ Still /\ Running /\ todo # <<>> /\ Head(todo) = todo[1] /\ todo[1] \in Request
         /\ todo[1].op = op
BY BoardStill, TailOf DEF Carry, Typing

(* The board sets tx.count; setting it to 0 begins a new send.             *)
LEMMA SetCountStep ==
  ASSUME Typing, SetCount
  PROVE  /\ Still /\ Running /\ todo # <<>> /\ todo[1] \in Request /\ todo[1].op = "set_count"
         /\ todo' = Tail(todo) /\ coming' = Append(coming, [op |-> "ack", n |-> 0])
         /\ tx'.count = todo[1].n /\ tx'.underflow = tx.underflow
         /\ todo[1].n = 0 => shown' = <<>>
         /\ todo[1].n # 0 => shown' = shown
         /\ data' = data /\ fault' = fault /\ Typing'
<1>1. /\ Still /\ Running /\ todo # <<>> /\ Head(todo) = todo[1] /\ todo[1] \in Request
      /\ todo[1].op = "set_count"
  BY CarriesStep DEF SetCount
<1>2. todo' = Tail(todo) /\ coming' = Append(coming, [op |-> "ack", n |-> 0])
  BY DEF SetCount, Reply
<1>3. todo[1].n \in 0..Capacity
  BY <1>1, RequestIs
<1>4. tx' = [tx EXCEPT !.count = todo[1].n] /\ data' = data /\ fault' = fault
  BY <1>1 DEF SetCount
<1>5. /\ tx' \in [count : 0..Capacity, underflow : Nat]
      /\ tx'.count = todo[1].n /\ tx'.underflow = tx.underflow
  BY <1>3, <1>4 DEF Typing
<1>6. shown' = IF todo[1].n = 0 THEN <<>> ELSE shown
  BY <1>5 DEF SetCount
<1>7. [op |-> "ack", n |-> 0] \in Message
  BY DEF Message
<1>8. todo' \in Seq(Request) /\ coming' \in Seq(Message) /\ Buffered' < Heads
  BY <1>1, <1>2, <1>7, Replied
<1>9. /\ data' \in Seq(Samples) /\ Len(data') <= Capacity /\ shown' \in Seq(0..Capacity)
  <2>1. <<>> \in Seq(0..Capacity)
    OBVIOUS
  <2>2. shown' = <<>> \/ shown' = shown
    BY <1>6
  <2>3. shown \in Seq(0..Capacity) /\ data \in Seq(Samples) /\ Len(data) <= Capacity
    BY DEF Typing
  <2>4. QED
    BY <1>4, <2>1, <2>2, <2>3
<1>10. Typing'
  BY <1>1, <1>4, <1>5, <1>8, <1>9, StillTyped
<1>11. QED
  BY <1>1, <1>2, <1>4, <1>5, <1>6, <1>10

(* The board sets tx.underflow to 0.                                       *)
LEMMA SetUnderflowStep ==
  ASSUME Typing, SetUnderflow
  PROVE  /\ Still /\ Running /\ todo # <<>> /\ todo[1] \in Request /\ todo[1].op = "set_underflow"
         /\ todo' = Tail(todo) /\ coming' = Append(coming, [op |-> "ack", n |-> 0])
         /\ tx'.count = tx.count /\ tx'.underflow = 0
         /\ shown' = shown /\ data' = data /\ fault' = fault /\ Typing'
<1>1. /\ Still /\ Running /\ todo # <<>> /\ Head(todo) = todo[1] /\ todo[1] \in Request
      /\ todo[1].op = "set_underflow"
  BY CarriesStep DEF SetUnderflow
<1>2. todo' = Tail(todo) /\ coming' = Append(coming, [op |-> "ack", n |-> 0])
  BY DEF SetUnderflow, Reply
<1>3. todo[1].n = 0
  BY <1>1, RequestIs
<1>4. /\ tx' = [tx EXCEPT !.underflow = 0] /\ data' = data /\ fault' = fault /\ shown' = shown
  BY <1>1, <1>3 DEF SetUnderflow
<1>5. /\ tx' \in [count : 0..Capacity, underflow : Nat]
      /\ tx'.count = tx.count /\ tx'.underflow = 0
  BY <1>4 DEF Typing
<1>7. [op |-> "ack", n |-> 0] \in Message
  BY DEF Message
<1>8. todo' \in Seq(Request) /\ coming' \in Seq(Message) /\ Buffered' < Heads
  BY <1>1, <1>2, <1>7, Replied
<1>9. /\ data' \in Seq(Samples) /\ Len(data') <= Capacity /\ shown' \in Seq(0..Capacity)
  BY <1>4 DEF Typing
<1>10. Typing'
  BY <1>1, <1>4, <1>5, <1>8, <1>9, StillTyped
<1>11. QED
  BY <1>1, <1>2, <1>4, <1>5, <1>10

(* The board empties tx_data.                                              *)
LEMMA ClearFifoStep ==
  ASSUME Typing, ClearFifo
  PROVE  /\ Still /\ Running /\ todo # <<>> /\ todo[1] \in Request /\ todo[1].op = "clear"
         /\ todo' = Tail(todo) /\ coming' = Append(coming, [op |-> "ack", n |-> 0])
         /\ tx' = tx /\ shown' = shown /\ data' = <<>> /\ fault' = fault /\ Typing'
<1>1. /\ Still /\ Running /\ todo # <<>> /\ Head(todo) = todo[1] /\ todo[1] \in Request
      /\ todo[1].op = "clear"
  BY CarriesStep DEF ClearFifo
<1>2. todo' = Tail(todo) /\ coming' = Append(coming, [op |-> "ack", n |-> 0])
  BY DEF ClearFifo, Reply
<1>4. tx' = tx /\ data' = <<>> /\ fault' = fault /\ shown' = shown
  BY DEF ClearFifo
<1>7. [op |-> "ack", n |-> 0] \in Message
  BY DEF Message
<1>8. todo' \in Seq(Request) /\ coming' \in Seq(Message) /\ Buffered' < Heads
  BY <1>1, <1>2, <1>7, Replied
<1>9. /\ data' \in Seq(Samples) /\ Len(data') <= Capacity /\ shown' \in Seq(0..Capacity)
      /\ tx' \in [count : 0..Capacity, underflow : Nat]
  BY <1>4, Sizes DEF Typing
<1>10. Typing'
  BY <1>1, <1>4, <1>8, <1>9, StillTyped
<1>11. QED
  BY <1>1, <1>2, <1>4, <1>10

(* The board adds a part to tx_data, which has room for it.                *)
LEMMA WriteFifoStep ==
  ASSUME Typing, Fits, WriteFifo
  PROVE  /\ Still /\ Running /\ todo # <<>> /\ todo[1] \in Request /\ todo[1].op = "part"
         /\ todo' = Tail(todo) /\ coming' = Append(coming, [op |-> "ack", n |-> 0])
         /\ tx' = tx /\ shown' = shown /\ data' = data \o todo[1].n /\ fault' = fault /\ Typing'
<1>1. /\ Still /\ Running /\ todo # <<>> /\ Head(todo) = todo[1] /\ todo[1] \in Request
      /\ todo[1].op = "part"
  BY CarriesStep DEF WriteFifo
<1>2. todo' = Tail(todo) /\ coming' = Append(coming, [op |-> "ack", n |-> 0])
  BY DEF WriteFifo, Reply
<1>3. Len(data) + Len(todo[1].n) <= Capacity
  <2>1. todo \in Seq(Request) /\ Len(data) \in Nat
    BY Bare DEF Typing
  <2>2. RoomFor(todo, Len(data)) /\ Rising(todo)
    BY DEF Fits
  <2>3. QED
    BY <1>1, <2>1, <2>2, RoomPart
<1>4. tx' = tx /\ data' = data \o todo[1].n /\ fault' = fault /\ shown' = shown
  BY <1>1, <1>3 DEF WriteFifo
<1>5. data' \in Seq(Samples) /\ Len(data') <= Capacity
  BY <1>1, <1>3, <1>4, PartIs, Joined DEF Typing
<1>7. [op |-> "ack", n |-> 0] \in Message
  BY DEF Message
<1>8. todo' \in Seq(Request) /\ coming' \in Seq(Message) /\ Buffered' < Heads
  BY <1>1, <1>2, <1>7, Replied
<1>9. shown' \in Seq(0..Capacity) /\ tx' \in [count : 0..Capacity, underflow : Nat]
  BY <1>4 DEF Typing
<1>10. Typing'
  BY <1>1, <1>4, <1>5, <1>8, <1>9, StillTyped
<1>11. QED
  BY <1>1, <1>2, <1>4, <1>10

(* The board answers with the value that was asked for.                    *)
LEMMA ReadStep ==
  ASSUME Typing, Read
  PROVE  /\ Still /\ Running /\ todo # <<>> /\ todo[1] \in Request /\ todo[1].op = "read"
         /\ todo[1].n \in Values /\ todo' = Tail(todo)
         /\ coming' = Append(coming, [op |-> todo[1].n, n |-> tx[todo[1].n]])
         /\ UNCHANGED <<tx, shown, data, fault>> /\ Typing'
<1>1. /\ Still /\ Running /\ todo # <<>> /\ Head(todo) = todo[1] /\ todo[1] \in Request
      /\ todo[1].op = "read"
  BY CarriesStep DEF Read
<1>2. todo' = Tail(todo) /\ coming' = Append(coming, [op |-> todo[1].n, n |-> tx[todo[1].n]])
  BY <1>1 DEF Read, Reply
<1>3. todo[1].n \in Values
  BY <1>1, RequestIs
<1>4. UNCHANGED <<tx, shown, data, fault>>
  BY DEF Read, board
<1>7. [op |-> todo[1].n, n |-> tx[todo[1].n]] \in Message
  <2>1. tx[todo[1].n] \in Nat
    BY <1>3, Sizes, SMTT(30) DEF Values, Typing
  <2>2. QED
    BY <1>3, <2>1 DEF Message
<1>8. todo' \in Seq(Request) /\ coming' \in Seq(Message) /\ Buffered' < Heads
  BY <1>1, <1>2, <1>7, Replied
<1>9. /\ data' \in Seq(Samples) /\ Len(data') <= Capacity /\ shown' \in Seq(0..Capacity)
      /\ tx' \in [count : 0..Capacity, underflow : Nat] /\ fault' = fault
  BY <1>4 DEF Typing
<1>10. Typing'
  BY <1>1, <1>8, <1>9, StillTyped
<1>11. QED
  BY <1>1, <1>2, <1>3, <1>4, <1>10

(* The board carries out a request that concerns other variables.          *)
LEMMA OtherStep ==
  ASSUME Typing, Other
  PROVE  /\ Still /\ Running /\ todo # <<>> /\ todo[1] \in Request /\ todo[1].op = "other"
         /\ todo' = Tail(todo) /\ coming' = Append(coming, [op |-> "other", n |-> 0])
         /\ UNCHANGED <<tx, shown, data, fault>> /\ Typing'
<1>1. /\ Still /\ Running /\ todo # <<>> /\ Head(todo) = todo[1] /\ todo[1] \in Request
      /\ todo[1].op = "other"
  BY CarriesStep DEF Other
<1>2. todo' = Tail(todo) /\ coming' = Append(coming, [op |-> "other", n |-> 0])
  BY DEF Other, Reply
<1>4. UNCHANGED <<tx, shown, data, fault>>
  BY DEF Other, board
<1>7. [op |-> "other", n |-> 0] \in Message
  BY DEF Message
<1>8. todo' \in Seq(Request) /\ coming' \in Seq(Message) /\ Buffered' < Heads
  BY <1>1, <1>2, <1>7, Replied
<1>9. /\ data' \in Seq(Samples) /\ Len(data') <= Capacity /\ shown' \in Seq(0..Capacity)
      /\ tx' \in [count : 0..Capacity, underflow : Nat] /\ fault' = fault
  BY <1>4 DEF Typing
<1>10. Typing'
  BY <1>1, <1>8, <1>9, StillTyped
<1>11. QED
  BY <1>1, <1>2, <1>4, <1>10

(* The board sends received data, which is no answer.                      *)
LEMMA PushStep ==
  ASSUME Typing, Push
  PROVE  /\ Still /\ Running /\ todo' = todo
         /\ coming' = Append(coming, [op |-> "push", n |-> 0])
         /\ UNCHANGED <<tx, shown, data, fault>> /\ Typing'
<1>1. Still /\ Running
  BY BoardStill DEF Push
<1>2. /\ coming' = Append(coming, [op |-> "push", n |-> 0])
      /\ UNCHANGED <<tx, shown, data, fault, todo>>
  BY DEF Push, board
<1>3. [op |-> "push", n |-> 0] \in Message /\ [op |-> "push", n |-> 0].op = "push"
  BY DEF Message
<1>4. coming' \in Seq(Message)
  BY <1>2, <1>3, Appended DEF Typing
<1>5. Buffered' < Heads
  <2>1. Cardinality(Waits(coming')) = Cardinality(Waits(coming))
    BY <1>2, <1>3, WaitsAppend DEF Typing
  <2>2. Buffered' = Len(todo) + Cardinality(Waits(coming'))
    BY <1>2 DEF Buffered, Answers, Waits
  <2>3. QED
    BY <2>1, <2>2, Room DEF Typing
<1>6. /\ data' \in Seq(Samples) /\ Len(data') <= Capacity /\ shown' \in Seq(0..Capacity)
      /\ tx' \in [count : 0..Capacity, underflow : Nat] /\ fault' = fault /\ todo' \in Seq(Request)
  BY <1>2 DEF Typing
<1>7. Typing'
  BY <1>1, <1>4, <1>5, <1>6, StillTyped
<1>8. QED
  BY <1>1, <1>2, <1>7

(* The timer takes a sample out of tx_data and shows it.                   *)
LEMMA ShowStep ==
  ASSUME Typing, Show
  PROVE  /\ Still /\ Running /\ tx.count # 0 /\ data # <<>>
         /\ data' = Tail(data) /\ shown' = Append(shown, data[1])
         /\ tx'.count = tx.count - 1 /\ tx'.underflow = tx.underflow
         /\ UNCHANGED <<todo, coming, fault>> /\ Typing'
<1>1. Still /\ Running /\ tx.count # 0 /\ data # <<>>
  BY BoardStill DEF Show, Streaming
<1>2. /\ data' = Tail(data) /\ shown' = Append(shown, Head(data))
      /\ tx' = [tx EXCEPT !.count = @ - 1] /\ UNCHANGED <<todo, coming, fault>>
  BY DEF Show, link
<1>3. /\ Head(data) = data[1] /\ data[1] \in Samples /\ data' \in Seq(Samples)
      /\ Len(data') <= Capacity
  BY <1>1, <1>2, TailOf, Sizes DEF Typing
<1>4. /\ tx' \in [count : 0..Capacity, underflow : Nat]
      /\ tx'.count = tx.count - 1 /\ tx'.underflow = tx.underflow
  <2>1. tx \in [count : 0..Capacity, underflow : Nat]
    BY DEF Typing
  <2>2. tx.count \in 0..Capacity /\ tx.underflow \in Nat
    BY <2>1
  <2>3. tx.count - 1 \in 0..Capacity /\ tx.underflow + 1 \in Nat
    BY <1>1, <2>2, Sizes
  <2>4. QED
    BY <1>2, <2>1, <2>2, <2>3
<1>5. shown' \in Seq(0..Capacity)
  <2>1. data[1] \in 0..Capacity
    BY <1>3, Sizes DEF Samples
  <2>2. QED
    BY <1>2, <1>3, <2>1, Appended DEF Typing
<1>6. Buffered' < Heads /\ todo' \in Seq(Request) /\ coming' \in Seq(Message)
  BY <1>2 DEF Typing, Buffered, Answers
<1>7. Typing'
  BY <1>1, <1>2, <1>3, <1>4, <1>5, <1>6, StillTyped
<1>8. QED
  BY <1>1, <1>2, <1>3, <1>4, <1>7

(* The timer finds tx_data empty and counts an underflow.                  *)
LEMMA UnderflowStep ==
  ASSUME Typing, Underflow
  PROVE  /\ Still /\ Running /\ tx.count # 0 /\ data = <<>>
         /\ data' = data /\ shown' = Append(shown, 0)
         /\ tx'.count = tx.count - 1 /\ tx'.underflow = tx.underflow + 1
         /\ UNCHANGED <<todo, coming, fault>> /\ Typing'
<1>1. Still /\ Running /\ tx.count # 0 /\ data = <<>>
  BY BoardStill DEF Underflow, Streaming
<1>2. /\ data' = data /\ shown' = Append(shown, 0)
      /\ tx' = [count |-> tx.count - 1, underflow |-> tx.underflow + 1]
      /\ UNCHANGED <<todo, coming, fault>>
  BY DEF Underflow, link
<1>4. /\ tx' \in [count : 0..Capacity, underflow : Nat]
      /\ tx'.count = tx.count - 1 /\ tx'.underflow = tx.underflow + 1
  <2>1. tx \in [count : 0..Capacity, underflow : Nat]
    BY DEF Typing
  <2>2. tx.count \in 0..Capacity /\ tx.underflow \in Nat
    BY <2>1
  <2>3. tx.count - 1 \in 0..Capacity /\ tx.underflow + 1 \in Nat
    BY <1>1, <2>2, Sizes
  <2>4. QED
    BY <1>2, <2>1, <2>2, <2>3
<1>5. shown' \in Seq(0..Capacity) /\ data' \in Seq(Samples) /\ Len(data') <= Capacity
  <2>1. 0 \in 0..Capacity
    BY Sizes
  <2>2. QED
    BY <1>2, <2>1, Appended DEF Typing
<1>6. Buffered' < Heads /\ todo' \in Seq(Request) /\ coming' \in Seq(Message)
  BY <1>2 DEF Typing, Buffered, Answers
<1>7. Typing'
  BY <1>1, <1>2, <1>4, <1>5, <1>6, StillTyped
<1>8. QED
  BY <1>1, <1>2, <1>4, <1>7

-----------------------------------------------------------------------------
(* The order of the requests. *)

(* The requests of a preparation keep their order as the first one goes.   *)
LEMMA OrderedTail ==
  ASSUME NEW q \in Seq(Request), q # <<>>, Ordered(q)
  PROVE  /\ Ordered(Tail(q))
         /\ IsClear(Tail(q), 1) => IsClear(q, 2) /\ q[1].op = "set_underflow"
         /\ IsClear(Tail(q), 2) => q[1] = Zero
         /\ q[1].op = "set_underflow" \/ q[1] = Zero => Clearing(Tail(q))
<1> DEFINE t == Tail(q)
<1>1. /\ Len(t) = Len(q) - 1 /\ Len(q) \in Nat \ {0} /\ Len(t) \in Nat
      /\ \A i \in 1..Len(t) : t[i] = q[i + 1]
  BY TailOf
<1>2. /\ \A i \in 1..Len(t) : Recent(t, i) <=> Recent(q, i + 1)
      /\ Recent(q, 1) <=> ~Clearing(t)
  BY Shifted
<1> HIDE DEF t
<1>3. Ordered(t)
  <2> SUFFICES ASSUME NEW i \in 1..Len(t)
               PROVE  /\ t[i].op = "clear" /\ i > 1 => t[i - 1].op = "set_underflow"
                      /\ t[i].op = "clear" /\ i > 2 => t[i - 2] = Zero
                      /\ t[i].op = "set_underflow" \/ t[i] = Zero => ~Recent(t, i)
    BY DEF Ordered
  <2>1. i + 1 \in 1..Len(q) /\ i + 1 > 1 /\ (i + 1) - 1 = i /\ (i + 1) - 2 = i - 1
    BY <1>1
  <2>2. /\ q[i + 1].op = "clear" => q[i].op = "set_underflow"
        /\ q[i + 1].op = "clear" /\ i + 1 > 2 => q[i - 1] = Zero
        /\ q[i + 1].op = "set_underflow" \/ q[i + 1] = Zero => ~Recent(q, i + 1)
    BY <2>1 DEF Ordered
  <2>3. t[i] = q[i + 1]
    BY <1>1
  <2>4. ASSUME i > 1 PROVE t[i - 1] = q[i]
    <3>1. i - 1 \in 1..Len(t) /\ (i - 1) + 1 = i
      BY <1>1, <2>4
    <3>2. QED
      BY <1>1, <3>1
  <2>5. ASSUME i > 2 PROVE t[i - 2] = q[i - 1] /\ i + 1 > 2
    <3>1. i - 2 \in 1..Len(t) /\ (i - 2) + 1 = i - 1 /\ i + 1 > 2
      BY <1>1, <2>5
    <3>2. QED
      BY <1>1, <3>1
  <2>6. QED
    BY <1>2, <2>2, <2>3, <2>4, <2>5
<1>4. IsClear(t, 1) => IsClear(q, 2) /\ q[1].op = "set_underflow"
  <2> SUFFICES ASSUME 1 \in 1..Len(t), t[1].op = "clear"
               PROVE  IsClear(q, 2) /\ q[1].op = "set_underflow"
    BY DEF IsClear
  <2>1. 2 \in 1..Len(q) /\ 2 > 1 /\ 2 - 1 = 1 /\ 1 + 1 = 2
    BY <1>1
  <2>2. q[2].op = "clear"
    BY <1>1, <2>1
  <2>3. q[2 - 1].op = "set_underflow"
    BY <2>1, <2>2 DEF Ordered
  <2>4. QED
    BY <2>1, <2>2, <2>3 DEF IsClear
<1>5. IsClear(t, 2) => q[1] = Zero
  <2> SUFFICES ASSUME 2 \in 1..Len(t), t[2].op = "clear"
               PROVE  q[1] = Zero
    BY DEF IsClear
  <2>1. 3 \in 1..Len(q) /\ 3 > 2 /\ 3 - 2 = 1 /\ 2 + 1 = 3
    BY <1>1
  <2>2. q[3].op = "clear"
    BY <1>1, <2>1
  <2>3. q[3 - 2] = Zero
    BY <2>1, <2>2 DEF Ordered
  <2>4. QED
    BY <2>1, <2>3
<1>6. q[1].op = "set_underflow" \/ q[1] = Zero => Clearing(t)
  <2>1. 1 \in 1..Len(q)
    BY <1>1
  <2>2. QED
    BY <1>2, <2>1 DEF Ordered
<1>7. QED
  BY <1>3, <1>4, <1>5, <1>6 DEF t

(* Other requests do not disturb the order of a preparation.               *)
LEMMA OrderedAdded ==
  ASSUME NEW q \in Seq(Request), NEW r \in Seq(Request), Ordered(q),
         \A i \in 1..Len(r) : r[i].op \notin {"clear", "set_underflow"} /\ r[i] # Zero
  PROVE  Ordered(q \o r) /\ \A i \in {1, 2} : IsClear(q \o r, i) => IsClear(q, i)
<1> DEFINE u == q \o r
<1>1. /\ Len(u) = Len(q) + Len(r) /\ Len(q) \in Nat /\ Len(r) \in Nat
      /\ \A i \in 1..Len(q) : u[i] = q[i]
      /\ \A i \in 1..Len(r) : u[Len(q) + i] = r[i]
  BY Joined
<1>2. \A i \in 1..Len(q) : Recent(u, i) <=> Recent(q, i)
  BY Lengthened
<1> HIDE DEF u
<1>3. \A i \in 1..Len(u) :
        \/ i \in 1..Len(q) /\ u[i] = q[i]
        \/ u[i].op \notin {"clear", "set_underflow"} /\ u[i] # Zero
  <2>1. \A i \in 1..Len(u) :
          i \in 1..Len(q) \/ (i - Len(q) \in 1..Len(r) /\ Len(q) + (i - Len(q)) = i)
    BY <1>1
  <2>2. QED
    BY <1>1, <2>1, ZenonT(60)
<1>4. Ordered(u)
  <2> SUFFICES ASSUME NEW i \in 1..Len(u)
               PROVE  /\ u[i].op = "clear" /\ i > 1 => u[i - 1].op = "set_underflow"
                      /\ u[i].op = "clear" /\ i > 2 => u[i - 2] = Zero
                      /\ u[i].op = "set_underflow" \/ u[i] = Zero => ~Recent(u, i)
    BY DEF Ordered
  <2>1. CASE u[i].op \notin {"clear", "set_underflow"} /\ u[i] # Zero
    BY <2>1
  <2>2. CASE i \in 1..Len(q) /\ u[i] = q[i]
    <3>1. i > 1 => u[i - 1] = q[i - 1]
      BY <1>1, <2>2
    <3>2. i > 2 => u[i - 2] = q[i - 2]
      BY <1>1, <2>2
    <3>3. Recent(u, i) <=> Recent(q, i)
      BY <1>2, <2>2
    <3>4. QED
      BY <2>2, <3>1, <3>2, <3>3 DEF Ordered
  <2>3. QED
    BY <1>3, <2>1, <2>2
<1>5. \A i \in {1, 2} : IsClear(u, i) => IsClear(q, i)
  BY <1>3 DEF IsClear
<1>6. QED
  BY <1>4, <1>5 DEF u

(* A new preparation comes in order, behind an old one.                    *)
LEMMA OrderedRenewed ==
  ASSUME NEW q \in Seq(Request), Ordered(q)
  PROVE  Ordered(q \o Prepares) /\ \A i \in {1, 2} : IsClear(q \o Prepares, i) => IsClear(q, i)
<1> DEFINE u == q \o Prepares
           l == Len(q)
<1>1. /\ Len(u) = l + 3 /\ l \in Nat
      /\ \A i \in 1..l : u[i] = q[i]
      /\ u[l + 1] = Zero
      /\ u[l + 2] = [op |-> "set_underflow", n |-> 0]
      /\ u[l + 3] = [op |-> "clear", n |-> 0]
      /\ \A i \in 1..(l + 2) : ~Recent(u, i)
  BY Renewed
<1> HIDE DEF u
<1>2. u[l + 1].op = "set_count" /\ u[l + 2].op = "set_underflow" /\ u[l + 3].op = "clear"
  BY <1>1 DEF Zero
<1>3. u[l + 3] # Zero
  BY <1>1 DEF Zero
<1> HIDE DEF l
<1>4. \A i \in 1..Len(u) : i \in 1..l \/ i = l + 1 \/ i = l + 2 \/ i = l + 3
  BY <1>1
<1>5. Ordered(u)
  <2> SUFFICES ASSUME NEW i \in 1..Len(u)
               PROVE  /\ u[i].op = "clear" /\ i > 1 => u[i - 1].op = "set_underflow"
                      /\ u[i].op = "clear" /\ i > 2 => u[i - 2] = Zero
                      /\ u[i].op = "set_underflow" \/ u[i] = Zero => ~Recent(u, i)
    BY DEF Ordered
  <2>1. CASE i \in 1..l
    <3>1. i > 1 => u[i - 1] = q[i - 1]
      BY <1>1, <2>1
    <3>2. i > 2 => u[i - 2] = q[i - 2]
      BY <1>1, <2>1
    <3>3. ~Recent(u, i)
      BY <1>1, <2>1
    <3>4. QED
      BY <1>1, <2>1, <3>1, <3>2, <3>3 DEF Ordered, l
  <2>2. CASE i = l + 1 \/ i = l + 2
    <3>1. ~Recent(u, i)
      BY <1>1, <2>2
    <3>2. QED
      BY <1>2, <2>2, <3>1
  <2>3. CASE i = l + 3
    <3>1. i - 1 = l + 2 /\ i - 2 = l + 1
      BY <1>1, <2>3
    <3>2. QED
      BY <1>1, <1>2, <1>3, <2>3, <3>1
  <2>4. QED
    BY <1>4, <2>1, <2>2, <2>3
<1>6. ASSUME NEW i \in {1, 2}, IsClear(u, i) PROVE IsClear(q, i)
  <2>1. i \in 1..Len(u) /\ u[i].op = "clear" /\ i # l + 3
    BY <1>1, <1>6 DEF IsClear
  <2>2. i \in 1..l
    BY <1>2, <1>4, <2>1
  <2>3. QED
    BY <1>1, <2>1, <2>2 DEF IsClear, l
<1>7. QED
  BY <1>5, <1>6 DEF u

-----------------------------------------------------------------------------
(* The board's steps keep the ledger. *)

(* The head of the requests goes, and is neither a part nor a "clear".     *)
LEMMA HeadGone ==
  ASSUME Typing, Still, Fits, todo # <<>>, todo' = Tail(todo), data' = data,
         todo[1].op \notin {"part", "clear"}
  PROVE  Fits' /\ (Clearing(todo') <=> Clearing(todo))
<1>1. todo \in Seq(Request) /\ Place' = Place /\ Following' = Following
  BY StillKeeps DEF Typing
<1>2. Clearing(todo') <=> Clearing(todo)
  BY <1>1, Shifted
<1>3. RoomFor(todo, Len(data)) => RoomFor(todo', Len(data))
  BY <1>1, RoomTail
<1>4. Rising(todo) => Rising(todo')
  BY <1>1, RisingTail
<1>5. Below(todo, Following) => Below(todo', Following)
  BY <1>1, BelowTail
<1>6. RoomFor(todo', Len(data')) /\ Rising(todo')
  BY <1>3, <1>4 DEF Fits
<1>7. Place' \in Sends => Below(todo', Following') /\ (Clearing(todo') \/ Len(data') < Following')
  BY <1>1, <1>2, <1>5 DEF Fits
<1>8. QED
  BY <1>2, <1>6, <1>7 DEF Fits

(* Carrying out "set_count" keeps the ledger.                              *)
LEMMA SetCountKeeps ==
  ASSUME Typing, Ledger, SetCount
  PROVE  Ledger'
<1>1. /\ Still /\ todo # <<>> /\ todo[1] \in Request /\ todo[1].op = "set_count"
      /\ todo' = Tail(todo)
      /\ tx'.count = todo[1].n /\ tx'.underflow = tx.underflow
      /\ todo[1].n = 0 => shown' = <<>>
      /\ todo[1].n # 0 => shown' = shown
      /\ data' = data
  BY SetCountStep
<1>2. todo \in Seq(Request) /\ Place' = Place /\ Following' = Following /\ (Unset' <=> Unset) /\ job' = job
  BY <1>1, StillKeeps DEF Typing, Still
<1>3. Preparation /\ Fits /\ Accounts /\ Seamless
  BY DEF Ledger
<1>4. Fits' /\ (Clearing(todo') <=> Clearing(todo))
  BY <1>1, <1>3, HeadGone
<1>5. Recent(todo, 1) <=> ~Clearing(todo')
  BY <1>1, <1>2, Shifted
<1>6. /\ Ordered(todo') /\ (IsClear(todo', 1) => todo[1].op = "set_underflow")
      /\ IsClear(todo', 2) => todo[1] = Zero
      /\ todo[1] = Zero => Clearing(todo')
  BY <1>1, <1>2, <1>3, OrderedTail DEF Preparation
<1>7. Zero.n = 0
  BY DEF Zero
<1>8. Preparation'
  <2>1. ~IsClear(todo', 1)
    BY <1>1, <1>6
  <2>2. IsClear(todo', 2) => tx'.count = 0 /\ shown' = <<>>
    BY <1>1, <1>6, <1>7
  <2>3. QED
    BY <1>6, <2>1, <2>2 DEF Preparation
<1>9. /\ Setting(todo) <=> Sets(todo, 1) \/ Setting(todo')
      /\ SetsTo(todo', job.n) /\ SetsOnce(todo')
      /\ Sets(todo, 1) => ~Setting(todo')
  BY <1>1, <1>2, <1>3, SetsTail DEF Accounts
<1>10. Sets(todo, 1) <=> ~Clearing(todo)
  BY <1>1, <1>4, <1>5 DEF Sets
<1>11. Accounts'
  <2>1. CASE Clearing(todo)
    BY <1>2, <1>3, <1>4, <1>9, <1>10, <2>1 DEF Accounts
  <2>2. CASE ~Clearing(todo)
    <3>1. ~Unset /\ tx.count = 0 /\ shown = <<>>
      BY <1>3, <1>9, <1>10, <2>2 DEF Accounts
    <3>2. todo[1].n = job.n
      <4>1. 1 \in 1..Len(todo)
        BY <1>1, <1>2, TailOf
      <4>2. QED
        BY <1>3, <1>10, <2>2, <4>1 DEF Accounts, SetsTo
    <3>3. todo[1].n # 0
      BY <1>1, <1>4, <1>6, <2>2, RequestIs
    <3>4. Len(shown') + tx'.count = job.n
      <4>1. shown' = <<>> /\ Len(<<>>) = 0
        BY <1>1, <3>1, <3>3
      <4>2. job.n \in Nat
        BY Sizes DEF Typing
      <4>3. QED
        BY <1>1, <3>2, <4>1, <4>2
    <3>5. ~Setting(todo') /\ ~Unset' /\ job'.n = job.n
      BY <1>2, <1>9, <1>10, <2>2, <3>1
    <3>6. QED
      BY <1>2, <1>4, <1>9, <2>2, <3>4, <3>5 DEF Accounts
  <2>3. QED
    BY <2>1, <2>2
<1>12. Mark' = Mark
  <2>1. ~Clearing(todo) => shown' = shown
    BY <1>1, <1>4, <1>6, RequestIs
  <2>2. QED
    BY <1>1, <1>4, <2>1 DEF Mark
<1>13. \A n : /\ Linked(todo, Mark) => Linked(todo', Mark)
              /\ Reached(todo, Mark, n) => Reached(todo', Mark, n)
  BY <1>1, <1>2, LinkedTail
<1>14. ~Clearing(todo) => shown' = shown
  BY <1>1, <1>4, <1>6, RequestIs
<1>15. Seamless'
  <2>1. Clearing(todo') \/ tx'.underflow = 0 =>
           /\ Linked(todo', Mark')
           /\ Place' \in Sends => Reached(todo', Mark', Following')
    BY <1>1, <1>2, <1>3, <1>4, <1>12, <1>13 DEF Seamless
  <2>2. ~Clearing(todo') /\ tx'.underflow = 0 =>
           /\ \A i \in 1..Len(shown') : shown'[i] = i
           /\ \A i \in 1..Len(data') : data'[i] = Len(shown') + i
    BY <1>1, <1>3, <1>4, <1>14 DEF Seamless
  <2>3. QED
    BY <2>1, <2>2 DEF Seamless
<1>16. QED
  BY <1>4, <1>8, <1>11, <1>15 DEF Ledger

(* Carrying out "set_underflow" keeps the ledger.                          *)
LEMMA SetUnderflowKeeps ==
  ASSUME Typing, Ledger, SetUnderflow
  PROVE  Ledger'
<1>1. /\ Still /\ todo # <<>> /\ todo[1] \in Request /\ todo[1].op = "set_underflow"
      /\ todo' = Tail(todo)
      /\ tx'.count = tx.count /\ tx'.underflow = 0
      /\ shown' = shown /\ data' = data
  BY SetUnderflowStep
<1>2. todo \in Seq(Request) /\ Place' = Place /\ Following' = Following /\ (Unset' <=> Unset) /\ job' = job
  BY <1>1, StillKeeps DEF Typing, Still
<1>3. Preparation /\ Fits /\ Accounts /\ Seamless
  BY DEF Ledger
<1>4. Fits' /\ (Clearing(todo') <=> Clearing(todo))
  BY <1>1, <1>3, HeadGone
<1>5. /\ Ordered(todo') /\ (IsClear(todo', 1) => IsClear(todo, 2))
      /\ IsClear(todo', 2) => todo[1] = Zero
      /\ Clearing(todo')
  BY <1>1, <1>2, <1>3, OrderedTail DEF Preparation
<1>6. Zero.op # "set_underflow"
  BY DEF Zero
<1>7. Preparation'
  BY <1>1, <1>3, <1>5, <1>6 DEF Preparation
<1>8. Accounts'
  <2>1. /\ Setting(todo) <=> Sets(todo, 1) \/ Setting(todo')
        /\ SetsTo(todo', job.n) /\ SetsOnce(todo')
    BY <1>1, <1>2, <1>3, SetsTail DEF Accounts
  <2>2. ~Sets(todo, 1)
    BY <1>1 DEF Sets
  <2>3. QED
    BY <1>2, <1>3, <1>4, <1>5, <2>1, <2>2 DEF Accounts
<1>9. Mark' = Mark
  BY <1>4, <1>5 DEF Mark
<1>10. \A n : /\ Linked(todo, Mark) => Linked(todo', Mark)
              /\ Reached(todo, Mark, n) => Reached(todo', Mark, n)
  BY <1>1, <1>2, LinkedTail
<1>11. Seamless'
  BY <1>2, <1>3, <1>4, <1>5, <1>9, <1>10 DEF Seamless
<1>12. QED
  BY <1>4, <1>7, <1>8, <1>11 DEF Ledger

(* Carrying out "clear" keeps the ledger: what was the last send's begins. *)
LEMMA ClearFifoKeeps ==
  ASSUME Typing, Stages, Rest, Ledger, ClearFifo
  PROVE  Ledger'
<1>1. /\ Still /\ todo # <<>> /\ todo[1] \in Request /\ todo[1].op = "clear"
      /\ todo' = Tail(todo) /\ tx' = tx /\ shown' = shown /\ data' = <<>>
  BY ClearFifoStep
<1>2. todo \in Seq(Request) /\ Place' = Place /\ Following' = Following /\ (Unset' <=> Unset) /\ job' = job
  BY <1>1, StillKeeps DEF Typing, Still
<1>3. Preparation /\ Fits /\ Accounts /\ Seamless
  BY DEF Ledger
<1>4. 1 \in 1..Len(todo) /\ todo' \in Seq(Request)
  BY <1>1, <1>2, TailOf
<1>5. Clearing(todo) /\ IsClear(todo, 1)
  BY <1>1, <1>4 DEF Clearing, IsClear
<1>6. tx.count = 0 /\ shown = <<>> /\ tx.underflow = 0
  BY <1>3, <1>5 DEF Preparation
<1>7. Zero.op # "clear"
  BY DEF Zero
<1>8. /\ Ordered(todo') /\ (IsClear(todo', 1) => todo[1].op = "set_underflow")
      /\ IsClear(todo', 2) => todo[1] = Zero
  BY <1>1, <1>2, <1>3, OrderedTail DEF Preparation
<1>9. Preparation'
  <2>1. ~IsClear(todo', 1) /\ ~IsClear(todo', 2)
    BY <1>1, <1>7, <1>8
  <2>2. QED
    BY <1>8, <2>1 DEF Preparation
<1>10. Len(<<>>) = 0 /\ \A i \in 1..Len(<<>>) : FALSE
  OBVIOUS
<1>11. Fits'
  <2>1. RoomFor(todo', 0) /\ Rising(todo')
    BY <1>1, <1>2, <1>3, <1>4, RoomEmpty, RisingTail DEF Fits
  <2>2. Below(todo, Following) => Below(todo', Following)
    BY <1>1, <1>2, BelowTail
  <2>3. Place \in Sends => 0 < Following
    <3>1. job.n \in Nat /\ Len(local) \in Nat
      BY Sizes, Bare DEF Typing
    <3>2. QED
      BY <3>1 DEF Rest, Following, Left
  <2>4. QED
    BY <1>1, <1>2, <1>3, <1>10, <2>1, <2>2, <2>3 DEF Fits
<1>12. Accounts'
  <2>1. /\ Setting(todo) <=> Sets(todo, 1) \/ Setting(todo')
        /\ SetsTo(todo', job.n) /\ SetsOnce(todo')
    BY <1>1, <1>2, <1>3, SetsTail DEF Accounts
  <2>2. ~Sets(todo, 1)
    BY <1>1 DEF Sets
  <2>3. Unset \/ Setting(todo')
    BY <1>3, <1>5, <2>1, <2>2 DEF Accounts
  <2>4. Setting(todo') => ~Unset
    BY <1>3, <2>1 DEF Accounts
  <2>5. QED
    BY <1>1, <1>2, <1>6, <2>1, <2>3, <2>4 DEF Accounts
<1>13. Mark = 1 /\ Mark' = 1
  <2>1. Len(shown') = 0 /\ Len(data') = 0
    BY <1>1, <1>6, <1>10
  <2>2. QED
    BY <1>5, <2>1 DEF Mark
<1>14. \A n : /\ Linked(todo, Mark) => Linked(todo', Mark)
              /\ Reached(todo, Mark, n) => Reached(todo', Mark, n)
  BY <1>1, <1>2, LinkedTail
<1>15. Seamless'
  <2>1. Linked(todo', Mark') /\ (Place' \in Sends => Reached(todo', Mark', Following'))
    BY <1>2, <1>3, <1>5, <1>13, <1>14 DEF Seamless
  <2>2. /\ \A i \in 1..Len(shown') : shown'[i] = i
        /\ \A i \in 1..Len(data') : data'[i] = Len(shown') + i
    BY <1>1, <1>6, <1>10
  <2>3. QED
    BY <2>1, <2>2 DEF Seamless
<1>16. QED
  BY <1>9, <1>11, <1>12, <1>15 DEF Ledger

(* Carrying out "part" keeps the ledger: the mark moves to its end.        *)
LEMMA WriteFifoKeeps ==
  ASSUME Typing, Stages, Rest, Ledger, WriteFifo
  PROVE  Ledger'
<1>1. Preparation /\ Fits /\ Accounts /\ Seamless
  BY DEF Ledger
<1>2. /\ Still /\ todo # <<>> /\ todo[1] \in Request /\ todo[1].op = "part"
      /\ todo' = Tail(todo) /\ tx' = tx /\ shown' = shown /\ data' = data \o todo[1].n
  BY <1>1, WriteFifoStep
<1>3. todo \in Seq(Request) /\ Place' = Place /\ Following' = Following /\ (Unset' <=> Unset) /\ job' = job
  BY <1>2, StillKeeps DEF Typing, Still
<1>4. /\ Start(todo[1]) \in Nat \ {0} /\ Len(todo[1].n) \in Nat \ {0}
      /\ todo[1].n \in Seq(Samples)
      /\ End(todo[1]) = Start(todo[1]) + Len(todo[1].n) /\ End(todo[1]) \in Nat
      /\ \A k \in 1..Len(todo[1].n) : todo[1].n[k] = Start(todo[1]) + k - 1
  BY <1>2, PartIs
<1> DEFINE l == Len(todo[1].n)
           d == Len(data)
           h == Len(shown)
<1>5. /\ d \in Nat /\ h \in Nat /\ Len(data') = d + l
      /\ \A i \in 1..d : data'[i] = data[i]
      /\ \A i \in 1..l : data'[d + i] = todo[1].n[i]
  <2>1. data \in Seq(Samples) /\ shown \in Seq(0..Capacity)
    BY DEF Typing
  <2>2. h \in Nat
    BY <2>1, Bare
  <2>3. QED
    BY <1>2, <1>4, <2>1, <2>2, Joined
<1>6. /\ Clearing(todo') <=> Clearing(todo)
      /\ Recent(todo, 1) <=> ~Clearing(todo')
  BY <1>2, <1>3, Shifted
<1>7. /\ d < Start(todo[1]) /\ RoomFor(todo', d + l) /\ Rising(todo')
  BY <1>1, <1>2, <1>3, <1>5, RoomPart, RisingTail DEF Fits
<1>8. 1 \in 1..Len(todo)
  BY <1>2, <1>3, TailOf
<1>9. Zero.op # "part"
  BY DEF Zero
<1>10. Preparation'
  <2>1. /\ Ordered(todo') /\ (IsClear(todo', 1) => todo[1].op = "set_underflow")
        /\ IsClear(todo', 2) => todo[1] = Zero
    BY <1>1, <1>2, <1>3, OrderedTail DEF Preparation
  <2>2. ~IsClear(todo', 1) /\ ~IsClear(todo', 2)
    BY <1>2, <1>9, <2>1
  <2>3. QED
    BY <2>1, <2>2 DEF Preparation
<1> HIDE DEF l, d, h
<1>11. Fits'
  <2>1. Below(todo, Following) => Below(todo', Following)
    BY <1>2, <1>3, BelowTail
  <2>2. Below(todo, Following) /\ ~Clearing(todo') => End(todo[1]) <= Following
    BY <1>2, <1>6, <1>8 DEF Below
  <2>3. d + l < End(todo[1])
    BY <1>4, <1>5, <1>7 DEF l
  <2>4. Place \in Sends /\ ~Clearing(todo') => d + l < Following
    <3>1. ASSUME Place \in Sends PROVE Following \in Int
      <4>1. job.n \in Nat /\ Len(local) \in Nat
        BY Sizes, Bare DEF Typing
      <4>2. QED
        BY <4>1 DEF Following, Left
    <3>2. d + l \in Nat
      BY <1>4, <1>5 DEF l
    <3>3. QED
      BY <1>1, <1>4, <2>2, <2>3, <3>1, <3>2 DEF Fits
  <2>5. QED
    BY <1>1, <1>3, <1>5, <1>7, <2>1, <2>4 DEF Fits
<1>12. Accounts'
  <2>1. /\ Setting(todo) <=> Sets(todo, 1) \/ Setting(todo')
        /\ SetsTo(todo', job.n) /\ SetsOnce(todo')
    BY <1>1, <1>2, <1>3, SetsTail DEF Accounts
  <2>2. ~Sets(todo, 1)
    BY <1>2 DEF Sets
  <2>3. QED
    BY <1>1, <1>2, <1>3, <1>6, <2>1, <2>2 DEF Accounts
<1>13. CASE Clearing(todo)
  <2>1. Mark = 1 /\ Mark' = 1 /\ ~Recent(todo, 1)
    BY <1>6, <1>13 DEF Mark
  <2>2. \A n : /\ Linked(todo, Mark) => Linked(todo', Mark)
               /\ Reached(todo, Mark, n) => Reached(todo', Mark, n)
    BY <1>2, <1>3, <2>1, LinkedTail
  <2>3. Seamless'
    BY <1>1, <1>2, <1>3, <1>6, <1>13, <2>1, <2>2 DEF Seamless
  <2>4. QED
    BY <1>10, <1>11, <1>12, <2>3 DEF Ledger
<1>14. CASE ~Clearing(todo)
  <2> SUFFICES ASSUME tx.underflow = 0 PROVE Seamless'
    BY <1>2, <1>6, <1>10, <1>11, <1>12, <1>14 DEF Ledger, Seamless
  <2>1. /\ Linked(todo, Mark) /\ (Place \in Sends => Reached(todo, Mark, Following))
        /\ \A i \in 1..h : shown[i] = i
        /\ \A i \in 1..d : data[i] = h + i
    BY <1>1, <1>14 DEF Seamless, d, h
  <2>2. Mark = h + d + 1
    BY <1>14 DEF Mark, d, h
  <2>3. /\ Start(todo[1]) = Mark /\ Linked(todo', End(todo[1]))
        /\ \A n \in Nat : Below(todo, n) /\ Reached(todo, Mark, n) =>
                            Reached(todo', End(todo[1]), n)
    BY <1>1, <1>2, <1>3, <1>14, <2>1, LinkedPart DEF Fits
  <2>4. Mark' = End(todo[1])
    <3>1. Mark' = h + (d + l) + 1
      BY <1>2, <1>5, <1>6, <1>14 DEF Mark, h
    <3>2. End(todo[1]) = Start(todo[1]) + l /\ l \in Nat
      BY <1>4 DEF l
    <3>3. QED
      BY <1>5, <2>2, <2>3, <3>1, <3>2
  <2>5. Place \in Sends => Reached(todo', End(todo[1]), Following)
    <3>1. Place \in Sends => Following \in Nat
      <4>1. job.n \in Nat /\ Len(local) \in Nat
        BY Sizes, Bare DEF Typing
      <4>2. QED
        BY <4>1 DEF Rest, Following, Left
    <3>2. QED
      BY <1>1, <2>1, <2>3, <3>1 DEF Fits
  <2>6. ASSUME NEW i \in 1..(d + l) PROVE data'[i] = h + i
    <3>1. CASE i \in 1..d
      BY <1>5, <2>1, <3>1
    <3>2. CASE i \notin 1..d
      <4>1. i - d \in 1..l /\ d + (i - d) = i
        BY <1>4, <1>5, <3>2, SMTT(30) DEF l
      <4>2. data'[i] = Start(todo[1]) + (i - d) - 1
        BY <1>4, <1>5, <4>1 DEF l
      <4>3. QED
        BY <1>5, <2>2, <2>3, <4>1, <4>2
    <3>3. QED
      BY <3>1, <3>2
  <2>7. /\ \A i \in 1..Len(shown') : shown'[i] = i
        /\ \A i \in 1..Len(data') : data'[i] = Len(shown') + i
    BY <1>2, <1>5, <2>1, <2>6 DEF h
  <2>8. QED
    BY <1>3, <2>3, <2>4, <2>5, <2>7 DEF Seamless
<1>15. QED
  BY <1>13, <1>14

(* A request that reads, or does nothing that matters, goes.               *)
LEMMA ReadKeeps ==
  ASSUME Typing, Ledger, Read \/ Other
  PROVE  Ledger'
<1>1. /\ Still /\ todo # <<>> /\ todo[1] \in Request /\ todo[1].op \in {"read", "other"}
      /\ todo' = Tail(todo) /\ tx' = tx /\ shown' = shown /\ data' = data
  BY ReadStep, OtherStep
<1>2. todo \in Seq(Request) /\ Place' = Place /\ Following' = Following /\ (Unset' <=> Unset) /\ job' = job
  BY <1>1, StillKeeps DEF Typing, Still
<1>3. Preparation /\ Fits /\ Accounts /\ Seamless
  BY DEF Ledger
<1>4. Fits' /\ (Clearing(todo') <=> Clearing(todo))
  BY <1>1, <1>3, HeadGone
<1>5. Zero.op = "set_count"
  BY DEF Zero
<1>6. Preparation'
  <2>1. /\ Ordered(todo') /\ (IsClear(todo', 1) => todo[1].op = "set_underflow")
        /\ IsClear(todo', 2) => todo[1] = Zero
    BY <1>1, <1>2, <1>3, OrderedTail DEF Preparation
  <2>2. ~IsClear(todo', 1) /\ ~IsClear(todo', 2)
    BY <1>1, <1>5, <2>1
  <2>3. QED
    BY <2>1, <2>2 DEF Preparation
<1>7. Accounts'
  <2>1. /\ Setting(todo) <=> Sets(todo, 1) \/ Setting(todo')
        /\ SetsTo(todo', job.n) /\ SetsOnce(todo')
    BY <1>1, <1>2, <1>3, SetsTail DEF Accounts
  <2>2. ~Sets(todo, 1)
    BY <1>1 DEF Sets
  <2>3. QED
    BY <1>1, <1>2, <1>3, <1>4, <2>1, <2>2 DEF Accounts
<1>8. Mark' = Mark
  BY <1>1, <1>4 DEF Mark
<1>9. \A n : /\ Linked(todo, Mark) => Linked(todo', Mark)
             /\ Reached(todo, Mark, n) => Reached(todo', Mark, n)
  BY <1>1, <1>2, LinkedTail
<1>10. Seamless'
  BY <1>1, <1>2, <1>3, <1>4, <1>8, <1>9 DEF Seamless
<1>11. QED
  BY <1>4, <1>6, <1>7, <1>10 DEF Ledger

(* The timer shows a sample: tx.count is not being set.                    *)
LEMMA TickCounts ==
  ASSUME Typing, Preparation, Accounts, Still, todo' = todo, tx.count # 0,
         tx'.count = tx.count - 1, NEW v \in 0..Capacity, shown' = Append(shown, v)
  PROVE  Preparation' /\ Accounts'
<1>1. /\ Place' = Place /\ (Unset' <=> Unset) /\ job' = job
  BY StillKeeps DEF Still
<1>2. ~IsClear(todo, 1) /\ ~IsClear(todo, 2)
  BY DEF Preparation
<1>3. Preparation'
  BY <1>2 DEF Preparation
<1>4. Len(shown) \in Nat /\ tx.count \in Nat /\ Len(shown') = Len(shown) + 1
  <2>1. shown \in Seq(0..Capacity) /\ tx \in [count : 0..Capacity, underflow : Nat]
    BY DEF Typing
  <2>2. tx.count \in Nat
    <3>1. tx.count \in 0..Capacity
      BY <2>1
    <3>2. QED
      BY <3>1, Sizes
  <2>3. QED
    BY <2>1, <2>2, Appended
<1>5. ~Clearing(todo) => ~Unset /\ ~Setting(todo) /\ Len(shown) + tx.count = job.n
  BY DEF Accounts
<1>6. ~Clearing(todo) => Len(shown') + tx'.count = job.n
  <2>1. \A h, c \in Nat : (h + 1) + (c - 1) = h + c
    OBVIOUS
  <2>2. Len(shown') + tx'.count = Len(shown) + tx.count
    BY <1>4, <2>1
  <2>3. QED
    BY <1>5, <2>2
<1>7. Accounts'
  BY <1>1, <1>5, <1>6 DEF Accounts
<1>8. QED
  BY <1>3, <1>7

(* Showing a sample keeps the ledger.                                      *)
LEMMA ShowKeeps ==
  ASSUME Typing, Ledger, Show
  PROVE  Ledger'
<1>1. /\ Still /\ tx.count # 0 /\ data # <<>>
      /\ data' = Tail(data) /\ shown' = Append(shown, data[1])
      /\ tx'.count = tx.count - 1 /\ tx'.underflow = tx.underflow /\ todo' = todo
  BY ShowStep
<1>2. Place' = Place /\ Following' = Following /\ (Unset' <=> Unset) /\ job' = job
  BY <1>1, StillKeeps DEF Still
<1>3. Preparation /\ Fits /\ Accounts /\ Seamless
  BY DEF Ledger
<1>4. Preparation' /\ Accounts'
  <2>1. data[1] \in Samples
    BY <1>1, TailOf DEF Typing
  <2>2. data[1] \in 0..Capacity
    BY <2>1, Sizes DEF Samples
  <2>3. QED
    BY <1>1, <1>3, <2>2, TickCounts
<1> DEFINE d == Len(data)
           h == Len(shown)
<1>5. /\ d \in Nat \ {0} /\ Len(data') = d - 1
      /\ \A i \in 1..(d - 1) : data'[i] = data[i + 1]
  BY <1>1, TailOf DEF Typing
<1>6. /\ h \in Nat /\ Len(shown') = h + 1 /\ shown'[h + 1] = data[1]
      /\ \A i \in 1..h : shown'[i] = shown[i]
  <2>1. data[1] \in Samples /\ shown \in Seq(0..Capacity)
    BY <1>1, TailOf DEF Typing
  <2>2. data[1] \in 0..Capacity
    BY <2>1, Sizes DEF Samples
  <2>3. QED
    BY <1>1, <2>1, <2>2, Appended
<1>7. Fits'
  <2>1. RoomFor(todo, d) /\ Rising(todo)
    BY <1>3 DEF Fits
  <2>2. RoomFor(todo, d - 1)
    <3> SUFFICES ASSUME NEW i \in 1..Len(todo), todo[i].op = "part"
                 PROVE  d - 1 < Start(todo[i]) \/ Cleared(todo, i)
      BY DEF RoomFor
    <3>1. d < Start(todo[i]) \/ Cleared(todo, i)
      BY <2>1 DEF RoomFor
    <3>2. todo[i] \in Request
      BY Bare DEF Typing
    <3>3. Start(todo[i]) \in Nat
      BY <3>2, PartIs
    <3> HIDE DEF d
    <3>4. QED
      BY <1>5, <3>1, <3>3
  <2>3. Place \in Sends /\ d < Following => d - 1 < Following
    <3>1. ASSUME Place \in Sends PROVE Following \in Int
      <4>1. job.n \in Nat /\ Len(local) \in Nat
        BY Sizes, Bare DEF Typing
      <4>2. QED
        BY <4>1 DEF Following, Left
    <3> HIDE DEF d
    <3>2. QED
      BY <1>5, <3>1
  <2>4. QED
    BY <1>1, <1>2, <1>3, <1>5, <2>1, <2>2, <2>3 DEF Fits
<1> HIDE DEF d, h
<1>8. Mark' = Mark
  <2>1. (h + 1) + (d - 1) + 1 = h + d + 1
    BY <1>5, <1>6
  <2>2. QED
    BY <1>1, <1>5, <1>6, <2>1 DEF Mark, d, h
<1>9. ASSUME ~Clearing(todo), tx.underflow = 0
      PROVE  /\ \A i \in 1..Len(shown') : shown'[i] = i
             /\ \A i \in 1..Len(data') : data'[i] = Len(shown') + i
  <2>1. /\ \A i \in 1..h : shown[i] = i
        /\ \A i \in 1..d : data[i] = h + i
    BY <1>3, <1>9 DEF Seamless, d, h
  <2>2. data[1] = h + 1
    BY <1>5, <2>1
  <2>3. \A i \in 1..(h + 1) : shown'[i] = i
    <3>1. \A i \in 1..(h + 1) : i \in 1..h \/ i = h + 1
      BY <1>6
    <3>2. QED
      BY <1>6, <2>1, <2>2, <3>1
  <2>4. \A i \in 1..(d - 1) : data'[i] = (h + 1) + i
    <3>1. \A i \in 1..(d - 1) : i + 1 \in 1..d /\ h + (i + 1) = (h + 1) + i
      BY <1>5, <1>6
    <3>2. QED
      BY <1>5, <2>1, <3>1
  <2>5. QED
    BY <1>5, <1>6, <2>3, <2>4
<1>10. Seamless'
  BY <1>1, <1>2, <1>3, <1>8, <1>9 DEF Seamless
<1>11. QED
  BY <1>4, <1>7, <1>10 DEF Ledger

(* An underflow keeps the ledger: nothing is claimed after it.             *)
LEMMA UnderflowKeeps ==
  ASSUME Typing, Ledger, Underflow
  PROVE  Ledger'
<1>1. /\ Still /\ tx.count # 0 /\ data' = data /\ shown' = Append(shown, 0)
      /\ tx'.count = tx.count - 1 /\ tx'.underflow = tx.underflow + 1 /\ todo' = todo
  BY UnderflowStep
<1>2. Place' = Place /\ Following' = Following /\ (Unset' <=> Unset) /\ job' = job
  BY <1>1, StillKeeps DEF Still
<1>3. Preparation /\ Fits /\ Accounts /\ Seamless
  BY DEF Ledger
<1>4. Preparation' /\ Accounts'
  <2>1. 0 \in 0..Capacity
    BY Sizes
  <2>2. QED
    BY <1>1, <1>3, <2>1, TickCounts
<1>5. Fits'
  BY <1>1, <1>2, <1>3 DEF Fits
<1>6. tx'.underflow # 0
  <2>1. tx.underflow \in Nat
    BY DEF Typing
  <2>2. QED
    BY <1>1, <2>1
<1>7. Clearing(todo) => Mark' = Mark
  BY <1>1 DEF Mark
<1>8. Seamless'
  BY <1>1, <1>2, <1>3, <1>6, <1>7 DEF Seamless
<1>9. QED
  BY <1>4, <1>5, <1>8 DEF Ledger

-----------------------------------------------------------------------------
(* The threads' steps keep the ledger. *)

(* Nothing is requested, or requests that do not matter here.              *)
LEMMA AddedKeeps ==
  ASSUME Typing, Ledger, UNCHANGED <<tx, data, shown>>, job'.n = job.n, Unset' <=> Unset,
         Place' \in Sends => Place \in Sends /\ Following' = Following,
         NEW r \in Seq(Request), todo' = todo \o r,
         \A i \in 1..Len(r) : r[i].op \in {"read", "other"}
  PROVE  Ledger'
<1>1. Preparation /\ Fits /\ Accounts /\ Seamless /\ todo \in Seq(Request)
  BY DEF Ledger, Typing
<1>2. Zero.op = "set_count"
  BY DEF Zero
<1>3. \A i \in 1..Len(r) :
        r[i].op \notin {"part", "clear", "set_count", "set_underflow"} /\ r[i] # Zero
  BY <1>2
<1>4. Clearing(todo') <=> Clearing(todo)
  BY <1>1, <1>3, Lengthened
<1>5. Preparation'
  <2>1. Ordered(todo') /\ \A i \in {1, 2} : IsClear(todo', i) => IsClear(todo, i)
    BY <1>1, <1>3, OrderedAdded DEF Preparation
  <2>2. QED
    BY <1>1, <2>1 DEF Preparation
<1>6. Fits'
  <2>1. RoomFor(todo', Len(data)) /\ Rising(todo')
    BY <1>1, <1>3, RoomAdded, RisingAdded DEF Fits
  <2>2. Below(todo, Following) => Below(todo', Following)
    BY <1>1, <1>3, BelowAdded
  <2>3. QED
    BY <1>1, <1>4, <2>1, <2>2 DEF Fits
<1>7. Accounts'
  <2>1. (Setting(todo') <=> Setting(todo)) /\ SetsTo(todo', job.n) /\ SetsOnce(todo')
    BY <1>1, <1>3, SetsAdded DEF Accounts
  <2>2. QED
    BY <1>1, <1>4, <2>1 DEF Accounts
<1>8. Seamless'
  <2>1. Mark' = Mark
    BY <1>4 DEF Mark
  <2>2. \A n : /\ Linked(todo, Mark) => Linked(todo', Mark)
               /\ Reached(todo, Mark, n) => Reached(todo', Mark, n)
    BY <1>1, <1>3, LinkedAdded
  <2>3. QED
    BY <1>1, <1>4, <2>1, <2>2 DEF Seamless
<1>9. QED
  BY <1>5, <1>6, <1>7, <1>8 DEF Ledger

(* Steps that neither request anything nor begin a send keep the ledger.   *)
LEMMA SameKeeps ==
  ASSUME Typing, Ledger, UNCHANGED <<tx, data, shown, todo>>, job'.n = job.n, Unset' <=> Unset,
         Place' \in Sends => Place \in Sends /\ Following' = Following
  PROVE  Ledger'
<1>1. <<>> \in Seq(Request) /\ todo \o <<>> = todo /\ \A i \in 1..Len(<<>>) : FALSE
  BY DEF Typing
<1>2. \A i \in 1..Len(<<>>) : <<>>[i].op \in {"read", "other"}
  BY <1>1
<1>3. todo' = todo \o <<>>
  BY <1>1
<1>4. QED
  BY <1>1, <1>2, <1>3, AddedKeeps, Zenon

-----------------------------------------------------------------------------
(* Waiting, while the board works. *)

(* The board carries out a request that reads nothing.                     *)
LEMMA WaitingServed ==
  ASSUME Typing, Waiting, Still, todo # <<>>, todo' = Tail(todo), fault' = fault,
         NEW m \in Message, m.op \notin Values, coming' = Append(coming, m),
         todo[1].op # "read", todo[1].op = "other" => tx' = tx /\ shown' = shown
  PROVE  Waiting'
<1>1. Place' = Place /\ Of' = Of /\ seen' = seen /\ mem' = mem /\ job' = job
  BY StillKeeps DEF Still
<1>2. /\ Len(todo') = Len(todo) - 1 /\ Len(todo) \in Nat \ {0} /\ Len(todo') \in Nat
      /\ \A i \in 1..Len(todo') : todo'[i] = todo[i + 1]
  BY TailOf DEF Typing
<1>3. /\ Len(coming') = Len(coming) + 1 /\ Len(coming) \in Nat
      /\ \A i \in 1..Len(coming) : coming'[i] = coming[i]
      /\ coming'[Len(coming) + 1] = m
  BY Appended DEF Typing
<1>4. /\ \A i \in 1..Len(todo') : i + 1 \in 1..Len(todo)
      /\ 1 \in 1..Len(todo)
  BY <1>2
<1>5. \A i \in 1..Len(coming') : i \in 1..Len(coming) \/ i = Len(coming) + 1
  BY <1>3
<1>6. (Calm => Calm') /\ (Unread => Unread') /\ (Unanswered => Unanswered')
  <2>1. Calm => Calm'
    BY <1>2, <1>4 DEF Calm
  <2>2. Unread => Unread'
    BY <1>2, <1>4 DEF Unread
  <2>3. Unanswered => Unanswered'
    BY <1>3, <1>5 DEF Unanswered
  <2>4. QED
    BY <2>1, <2>2, <2>3
<1>7. Calm => todo[1].op = "other"
  BY <1>4 DEF Calm
<1>8. ASSUME ReadIsUnderWay PROVE ReadIsUnderWay'
  <2>1. PICK i \in 1..Len(todo) :
          /\ todo[i] = [op |-> "read", n |-> Of]
          /\ \A k \in 1..(i - 1) : todo[k].op # "read"
          /\ \A k \in (i + 1)..Len(todo) : todo[k].op = "other"
    BY <1>8 DEF ReadIsUnderWay
  <2>2. i # 1
    <3>1. [op |-> "read", n |-> Of].op = "read"
      OBVIOUS
    <3>2. todo[i].op = "read"
      BY <2>1, <3>1, Zenon
    <3>3. QED
      BY <3>2
  <2>3. i - 1 \in 1..Len(todo') /\ (i - 1) + 1 = i
    BY <1>2, <2>2
  <2>4. todo'[i - 1] = [op |-> "read", n |-> Of']
    <3>1. todo'[i - 1] = todo[i]
      BY <1>2, <2>3
    <3>2. QED
      BY <1>1, <2>1, <3>1
  <2>5. \A k \in 1..((i - 1) - 1) : todo'[k].op # "read"
    <3>1. \A k \in 1..((i - 1) - 1) : k + 1 \in 1..(i - 1) /\ k \in 1..Len(todo')
      BY <1>2, <2>3
    <3>2. QED
      BY <1>2, <2>1, <3>1
  <2>6. \A k \in ((i - 1) + 1)..Len(todo') : todo'[k].op = "other"
    <3>1. \A k \in ((i - 1) + 1)..Len(todo') : k + 1 \in (i + 1)..Len(todo) /\ k \in 1..Len(todo')
      BY <1>2, <2>3
    <3>2. QED
      BY <1>2, <2>1, <3>1
  <2>7. seen'[Of'] = -1 /\ Unanswered'
    BY <1>1, <1>6, <1>8 DEF ReadIsUnderWay
  <2>8. QED
    BY <2>3, <2>4, <2>5, <2>6, <2>7 DEF ReadIsUnderWay
<1>9. ASSUME Calm, NEW n, True(n) PROVE True(n)'
  BY <1>1, <1>7, <1>9 DEF True
<1>10. ASSUME AnswerIsUnderWay PROVE AnswerIsUnderWay'
  <2>1. Calm /\ Calm' /\ seen'[Of'] = -1
    BY <1>1, <1>6, <1>10 DEF AnswerIsUnderWay
  <2>2. PICK i \in 1..Len(coming) :
          /\ coming[i].op = Of /\ True(coming[i].n)
          /\ \A k \in 1..Len(coming) : k # i => coming[k].op \notin Values
    BY <1>10 DEF AnswerIsUnderWay
  <2>3. True(coming[i].n)'
    <3>1. coming'[i] = coming[i]
      BY <1>3
    <3>2. tx' = tx
      BY <1>7, <2>1
    <3>3. QED
      BY <1>1, <2>2, <3>1, <3>2 DEF True
  <2>4. i \in 1..Len(coming') /\ coming'[i].op = Of'
    BY <1>1, <1>3, <2>2
  <2>5. \A k \in 1..Len(coming') : k # i => coming'[k].op \notin Values
    BY <1>3, <1>5, <2>2
  <2>6. QED
    BY <2>1, <2>3, <2>4, <2>5 DEF AnswerIsUnderWay
<1>11. ASSUME AnswerIsHere PROVE AnswerIsHere'
  <2>1. tx' = tx
    BY <1>7, <1>11 DEF AnswerIsHere
  <2>2. QED
    BY <1>1, <1>6, <1>11, <2>1 DEF AnswerIsHere, True
<1>12. IF Place' \in Polls THEN (ReadIsUnderWay \/ AnswerIsUnderWay \/ AnswerIsHere)'
                           ELSE Unread' /\ Unanswered'
  BY <1>1, <1>6, <1>8, <1>10, <1>11 DEF Waiting
<1>13. Place' \in Polls \cup {"ask"} /\ Of' = "underflow" =>
         tx'.count = 0 /\ \A i \in 1..Len(todo') : todo'[i].op \in {"read", "other"}
  <2> SUFFICES ASSUME Place \in Polls \cup {"ask"}, Of = "underflow"
               PROVE  tx'.count = 0 /\ \A i \in 1..Len(todo') : todo'[i].op \in {"read", "other"}
    BY <1>1
  <2>1. tx.count = 0 /\ \A i \in 1..Len(todo) : todo[i].op \in {"read", "other"}
    BY DEF Waiting
  <2>2. todo[1].op = "other"
    BY <1>4, <2>1
  <2>3. QED
    BY <1>2, <1>4, <2>1, <2>2
<1>14. job'.awaited => tx'.count = 0 /\ Calm' /\ (Running' => shown' = [i \in 1..job'.n |-> i])
  <2> SUFFICES ASSUME job.awaited
               PROVE  tx'.count = 0 /\ Calm' /\ (Running' => shown' = [i \in 1..job'.n |-> i])
    BY <1>1
  <2>1. tx.count = 0 /\ Calm /\ (Running => shown = [i \in 1..job.n |-> i])
    BY DEF Waiting
  <2>2. tx' = tx /\ shown' = shown
    BY <1>7, <2>1
  <2>3. QED
    BY <1>1, <1>6, <2>1, <2>2 DEF Running
<1>15. QED
  BY <1>12, <1>13, <1>14 DEF Waiting

(* The read is carried out: its answer is under way and tells the truth.   *)
LEMMA WaitingRead ==
  ASSUME Typing, Waiting, Read
  PROVE  Waiting'
<1>1. /\ Still /\ todo # <<>> /\ todo[1] \in Request /\ todo[1].op = "read"
      /\ todo' = Tail(todo)
      /\ coming' = Append(coming, [op |-> todo[1].n, n |-> tx[todo[1].n]])
      /\ UNCHANGED <<tx, shown, data, fault>> /\ Typing' /\ todo[1].n \in Values
  BY ReadStep
<1>2. Place' = Place /\ Of' = Of /\ seen' = seen /\ mem' = mem /\ job' = job
  BY <1>1, StillKeeps DEF Still
<1>3. /\ Len(todo') = Len(todo) - 1 /\ Len(todo) \in Nat \ {0} /\ Len(todo') \in Nat
      /\ \A i \in 1..Len(todo') : todo'[i] = todo[i + 1]
  BY <1>1, TailOf DEF Typing
<1>4. 1 \in 1..Len(todo)
  BY <1>3
<1>5. Place \in Polls /\ ~Calm
  BY <1>1, <1>4 DEF Waiting, Unread, Calm
<1>6. ReadIsUnderWay
  BY <1>5 DEF Waiting, AnswerIsUnderWay, AnswerIsHere
<1>7. PICK i \in 1..Len(todo) :
        /\ todo[i] = [op |-> "read", n |-> Of]
        /\ \A k \in 1..(i - 1) : todo[k].op # "read"
        /\ \A k \in (i + 1)..Len(todo) : todo[k].op = "other"
  BY <1>6 DEF ReadIsUnderWay
<1>8. i = 1
  <2>1. i # 1 => 1 \in 1..(i - 1)
    BY <1>3
  <2>2. QED
    BY <1>1, <1>7, <2>1
<1>9. todo[1].n = Of
  <2>1. [op |-> "read", n |-> Of].n = Of
    OBVIOUS
  <2>2. QED
    BY <1>7, <1>8, <2>1, Zenon
<1>10. Calm'
  <2>1. \A k \in 1..Len(todo') : k + 1 \in (1 + 1)..Len(todo)
    BY <1>3
  <2>2. QED
    BY <1>3, <1>7, <1>8, <2>1 DEF Calm
<1> DEFINE l == Len(coming)
<1>11. /\ Len(coming') = l + 1 /\ l \in Nat
       /\ \A k \in 1..l : coming'[k] = coming[k]
       /\ coming'[l + 1].op = Of /\ coming'[l + 1].n = tx[Of]
  <2>1. [op |-> Of, n |-> tx[Of]] \in Message
    <3>1. tx[Of] \in Nat
      BY <1>1, <1>9, Sizes, SMTT(30) DEF Values, Typing
    <3>2. QED
      BY <1>1, <1>9, <3>1 DEF Message
  <2>2. coming \in Seq(Message) /\ coming' = Append(coming, [op |-> Of, n |-> tx[Of]])
    BY <1>1, <1>9 DEF Typing
  <2>3. coming'[l + 1] = [op |-> Of, n |-> tx[Of]]
    BY <2>1, <2>2, Appended
  <2>4. coming'[l + 1].op = Of /\ coming'[l + 1].n = tx[Of]
    BY <2>3
  <2>5. QED
    BY <2>1, <2>2, <2>4, Appended
<1>12. \A k \in 1..l : coming[k].op \notin Values
  BY <1>6 DEF ReadIsUnderWay, Unanswered
<1> HIDE DEF l
<1>13. PICK j \in Nat : j = l + 1
  BY <1>11
<1>14. AnswerIsUnderWay'
  <2>1. seen'[Of'] = -1
    BY <1>2, <1>6 DEF ReadIsUnderWay
  <2>2. True(coming[j].n)'
    <3>1. coming'[j].n = tx[Of] /\ tx' = tx /\ Of' = Of /\ (Of = "count" \/ Of = "underflow")
      BY <1>1, <1>2, <1>9, <1>11, <1>13 DEF Values
    <3>2. QED
      BY <3>1 DEF True
  <2>3. j \in 1..Len(coming') /\ coming'[j].op = Of'
    BY <1>2, <1>11, <1>13
  <2>4. \A k \in 1..Len(coming') : k # j => coming'[k].op \notin Values
    <3>1. \A k \in 1..Len(coming') : k # l + 1 => k \in 1..l
      BY <1>11
    <3>2. QED
      BY <1>11, <1>12, <1>13, <3>1
  <2>5. QED
    BY <1>10, <2>1, <2>2, <2>3, <2>4 DEF AnswerIsUnderWay
<1>15. Of' = "underflow" =>
         tx'.count = 0 /\ \A k \in 1..Len(todo') : todo'[k].op \in {"read", "other"}
  <2>1. Of = "underflow" => tx.count = 0
    BY <1>5 DEF Waiting
  <2>2. QED
    BY <1>1, <1>2, <1>10, <2>1 DEF Calm
<1>16. ~job'.awaited
  BY <1>2, <1>5 DEF Waiting
<1>17. QED
  BY <1>2, <1>5, <1>14, <1>15, <1>16 DEF Waiting

(* Received data does not hide the answer.                                 *)
LEMMA WaitingPushed ==
  ASSUME Typing, Waiting, Push
  PROVE  Waiting'
<1>1. /\ Still /\ todo' = todo /\ coming' = Append(coming, [op |-> "push", n |-> 0])
      /\ UNCHANGED <<tx, shown, data, fault>>
  BY PushStep
<1>2. Place' = Place /\ Of' = Of /\ seen' = seen /\ mem' = mem /\ job' = job
  BY <1>1, StillKeeps DEF Still
<1> DEFINE l == Len(coming)
<1>3. /\ Len(coming') = l + 1 /\ l \in Nat
      /\ \A i \in 1..l : coming'[i] = coming[i]
      /\ coming'[l + 1].op \notin Values
  <2>1. [op |-> "push", n |-> 0] \in Message /\ [op |-> "push", n |-> 0].op \notin Values
    BY DEF Message, Values
  <2>2. coming \in Seq(Message)
    BY DEF Typing
  <2>3. coming'[l + 1] = [op |-> "push", n |-> 0]
    BY <1>1, <2>1, <2>2, Appended
  <2>4. coming'[l + 1].op \notin Values
    BY <2>1, <2>3, Zenon
  <2>5. QED
    BY <1>1, <2>1, <2>2, <2>4, Appended
<1> HIDE DEF l
<1>4. \A i \in 1..Len(coming') : i \in 1..l \/ i = l + 1
  BY <1>3
<1>5. \A i \in 1..l : i \in 1..Len(coming') /\ i # l + 1
  BY <1>3
<1>6. (Calm <=> Calm') /\ (Unread <=> Unread') /\ (Unanswered => Unanswered')
  <2>1. (Calm <=> Calm') /\ (Unread <=> Unread')
    BY <1>1 DEF Calm, Unread
  <2>2. Unanswered => Unanswered'
    BY <1>3, <1>4 DEF Unanswered, l
  <2>3. QED
    BY <2>1, <2>2
<1>7. ReadIsUnderWay => ReadIsUnderWay'
  BY <1>1, <1>2, <1>6 DEF ReadIsUnderWay
<1>8. ASSUME AnswerIsUnderWay PROVE AnswerIsUnderWay'
  <2>1. PICK i \in 1..l :
          /\ coming[i].op = Of /\ True(coming[i].n)
          /\ \A k \in 1..l : k # i => coming[k].op \notin Values
    BY <1>8 DEF AnswerIsUnderWay, l
  <2>2. True(coming[i].n)' /\ coming'[i].op = Of' /\ i \in 1..Len(coming')
    BY <1>1, <1>2, <1>3, <1>5, <2>1 DEF True
  <2>3. \A k \in 1..Len(coming') : k # i => coming'[k].op \notin Values
    BY <1>3, <1>4, <2>1
  <2>4. seen'[Of'] = -1 /\ Calm'
    BY <1>2, <1>6, <1>8 DEF AnswerIsUnderWay
  <2>5. QED
    BY <2>2, <2>3, <2>4 DEF AnswerIsUnderWay
<1>9. AnswerIsHere => AnswerIsHere'
  BY <1>1, <1>2, <1>6 DEF AnswerIsHere, True
<1>10. QED
  BY <1>1, <1>2, <1>6, <1>7, <1>8, <1>9 DEF Waiting, Running

(* What is asked for is one of the two values.                             *)
LEMMA OfTyped ==
  ASSUME Typing, Place # "free"
  PROVE  Of \in Values
<1>1. txLock \in Senders
  BY DEF Typing, Place
<1>2. at[txLock] \in Stand
  BY <1>1 DEF Typing
<1>3. QED
  BY <1>2 DEF Stand, Of

(* The timer does not tick where the wait relies on tx.count = 0.          *)
LEMMA WaitingTicked ==
  ASSUME Typing, Waiting, Still, UNCHANGED <<todo, coming, fault>>, tx.count # 0
  PROVE  Waiting'
<1>1. Place' = Place /\ Of' = Of /\ seen' = seen /\ mem' = mem /\ job' = job
  BY StillKeeps DEF Still
<1>2. (Calm <=> Calm') /\ (Unread <=> Unread') /\ (Unanswered <=> Unanswered')
  BY DEF Calm, Unread, Unanswered
<1>3. ~job.awaited /\ ~(Place \in Polls \cup {"ask"} /\ Of = "underflow")
  BY DEF Waiting
<1>4. ASSUME Place \in Polls
      PROVE  (ReadIsUnderWay \/ AnswerIsUnderWay \/ AnswerIsHere)'
  <2>1. Of = "count"
    <3>1. Place # "free"
      BY <1>4 DEF Polls
    <3>2. QED
      BY <1>3, <1>4, <3>1, OfTyped DEF Values
  <2>2. \A n : True(n) => n # 0
    BY <2>1 DEF True
  <2>4. ReadIsUnderWay => ReadIsUnderWay'
    BY <1>1, <1>2 DEF ReadIsUnderWay
  <2>5. AnswerIsUnderWay => AnswerIsUnderWay'
    <3> SUFFICES ASSUME AnswerIsUnderWay PROVE AnswerIsUnderWay'
      OBVIOUS
    <3>1. PICK i \in 1..Len(coming) :
            /\ coming[i].op = Of /\ True(coming[i].n)
            /\ \A k \in 1..Len(coming) : k # i => coming[k].op \notin Values
      BY DEF AnswerIsUnderWay
    <3>2. coming[i].n # 0
      BY <2>2, <3>1
    <3>3. True(coming[i].n)'
      BY <1>1, <2>1, <3>2 DEF True
    <3>4. QED
      BY <1>1, <1>2, <3>1, <3>3 DEF AnswerIsUnderWay
  <2>6. AnswerIsHere => AnswerIsHere'
    <3> SUFFICES ASSUME AnswerIsHere PROVE AnswerIsHere'
      OBVIOUS
    <3>1. seen[Of] # 0
      BY <2>2 DEF AnswerIsHere
    <3>2. True(seen[Of])'
      BY <1>1, <2>1, <3>1 DEF True
    <3>3. QED
      BY <1>1, <1>2, <3>2 DEF AnswerIsHere
  <2>7. QED
    BY <1>4, <2>4, <2>5, <2>6 DEF Waiting
<1>5. QED
  BY <1>1, <1>2, <1>3, <1>4 DEF Waiting

(* A message is taken in, while senders stay, or one that waits goes on.   *)
LEMMA WaitingTaken ==
  ASSUME Typing, Waiting, TakeOne, UNCHANGED <<tx, shown, job, fault>>,
         Place' \in Polls <=> Place \in Polls, Place' \in Polls => Of' = Of,
         Place' = "ask" => Place = "ask" /\ Of' = Of
  PROVE  Waiting' /\ (Place \notin Polls => mem' = mem)
<1>1. /\ coming # <<>> /\ coming' = Tail(coming) /\ todo' = todo /\ coming[1] \in Message
      /\ coming[1].op \in Values =>
           /\ mem' = [mem EXCEPT ![coming[1].op] = coming[1].n]
           /\ seen' = [seen EXCEPT ![coming[1].op] = coming[1].n]
      /\ coming[1].op \notin Values => mem' = mem /\ seen' = seen
  BY Taken
<1>2. /\ Len(coming') = Len(coming) - 1 /\ Len(coming) \in Nat \ {0} /\ Len(coming') \in Nat
      /\ \A i \in 1..Len(coming') : coming'[i] = coming[i + 1]
  BY <1>1, TailOf DEF Typing
<1>3. 1 \in 1..Len(coming) /\ \A i \in 1..Len(coming') : i + 1 \in 1..Len(coming) /\ i + 1 # 1
  BY <1>2
<1>4. (Calm <=> Calm') /\ (Unread <=> Unread') /\ (Unanswered => Unanswered')
  <2>1. (Calm <=> Calm') /\ (Unread <=> Unread')
    BY <1>1 DEF Calm, Unread
  <2>2. Unanswered => Unanswered'
    BY <1>2, <1>3 DEF Unanswered
  <2>3. QED
    BY <2>1, <2>2
<1>5. Unanswered => mem' = mem /\ seen' = seen
  BY <1>1, <1>3 DEF Unanswered
<1>6. ASSUME Place \in Polls, ReadIsUnderWay PROVE ReadIsUnderWay'
  <2>1. Of' = Of /\ Unanswered
    BY <1>6 DEF ReadIsUnderWay
  <2>2. QED
    BY <1>1, <1>4, <1>5, <1>6, <2>1 DEF ReadIsUnderWay
<1>7. ASSUME Place \in Polls, AnswerIsUnderWay PROVE (AnswerIsUnderWay \/ AnswerIsHere)'
  <2>1. Of' = Of /\ Calm' /\ seen[Of] = -1
    BY <1>4, <1>7 DEF AnswerIsUnderWay
  <2>2. PICK i \in 1..Len(coming) :
          /\ coming[i].op = Of /\ True(coming[i].n)
          /\ \A k \in 1..Len(coming) : k # i => coming[k].op \notin Values
    BY <1>7 DEF AnswerIsUnderWay
  <2>3. Of \in Values
    <3>1. Place # "free"
      BY <1>7 DEF Polls
    <3>2. QED
      BY <3>1, OfTyped
  <2>4. CASE i = 1
    <3>1. mem' = [mem EXCEPT ![Of] = coming[1].n] /\ seen' = [seen EXCEPT ![Of] = coming[1].n]
      BY <1>1, <2>2, <2>3, <2>4
    <3>2. mem'[Of] = coming[1].n /\ seen'[Of] = coming[1].n
      <4>1. mem \in [Values -> Nat] /\ seen \in [Values -> Nat \cup {-1}]
        BY DEF Typing, Values
      <4>2. QED
        BY <2>3, <3>1, <4>1
    <3>3. coming[1].n \in Nat /\ True(coming[1].n)
      BY <1>1, <2>2, <2>3, <2>4 DEF Message, Values
    <3>4. Unanswered'
      BY <1>2, <1>3, <2>2, <2>4 DEF Unanswered
    <3>5. True(seen[Of])'
      BY <2>1, <3>2, <3>3 DEF True
    <3>6. QED
      BY <2>1, <3>2, <3>3, <3>4, <3>5 DEF AnswerIsHere
  <2>5. CASE i # 1
    <3>1. PICK j \in 1..Len(coming') : j + 1 = i
      <4>1. i - 1 \in 1..Len(coming') /\ (i - 1) + 1 = i
        BY <1>2, <2>5
      <4>2. QED
        BY <4>1
    <3>2. coming'[j] = coming[i]
      BY <1>2, <3>1
    <3>3. seen' = seen
      BY <1>1, <1>3, <2>2, <2>5
    <3>4. True(coming[j].n)' /\ coming'[j].op = Of'
      BY <2>1, <2>2, <3>2 DEF True
    <3>5. \A k \in 1..Len(coming') : k # j => coming'[k].op \notin Values
      <4>1. \A k \in 1..Len(coming') : k # j => k + 1 # i
        BY <1>2, <3>1
      <4>2. QED
        BY <1>2, <1>3, <2>2, <4>1
    <3>6. QED
      BY <2>1, <3>3, <3>4, <3>5 DEF AnswerIsUnderWay
  <2>6. QED
    BY <2>4, <2>5
<1>8. ASSUME Place \in Polls, AnswerIsHere PROVE AnswerIsHere'
  <2>1. Of' = Of /\ Unanswered
    BY <1>8 DEF AnswerIsHere
  <2>2. QED
    BY <1>4, <1>5, <1>8, <2>1 DEF AnswerIsHere, True
<1>9. Waiting'
  <2>1. IF Place' \in Polls THEN (ReadIsUnderWay \/ AnswerIsUnderWay \/ AnswerIsHere)'
                            ELSE Unread' /\ Unanswered'
    BY <1>4, <1>6, <1>7, <1>8 DEF Waiting
  <2>2. Place' \in Polls \cup {"ask"} /\ Of' = "underflow" =>
          tx'.count = 0 /\ \A i \in 1..Len(todo') : todo'[i].op \in {"read", "other"}
    BY <1>1 DEF Waiting
  <2>3. job'.awaited => tx'.count = 0 /\ Calm' /\ (Running' => shown' = [i \in 1..job'.n |-> i])
    BY <1>4 DEF Waiting, Running
  <2>4. QED
    BY <2>1, <2>2, <2>3 DEF Waiting
<1>10. Place \notin Polls => mem' = mem
  BY <1>5 DEF Waiting
<1>11. QED
  BY <1>9, <1>10

(* Nothing is asked for or taken in, and who goes to ask starts anew.      *)
LEMMA WaitingKept ==
  ASSUME Waiting, UNCHANGED <<tx, todo, coming, mem, seen, shown, job, fault>>,
         Place' \in Polls <=> Place \in Polls, Place' \in Polls => Of' = Of,
         Place' = "ask" => Of' = "count" \/ (Place = "ask" /\ Of' = Of)
  PROVE  Waiting'
<1>1. (Calm <=> Calm') /\ (Unread <=> Unread') /\ (Unanswered <=> Unanswered')
  BY DEF Calm, Unread, Unanswered
<1>2. ASSUME Place \in Polls
      PROVE  /\ ReadIsUnderWay => ReadIsUnderWay'
             /\ AnswerIsUnderWay => AnswerIsUnderWay'
             /\ AnswerIsHere => AnswerIsHere'
  <2>1. Of' = Of
    BY <1>2
  <2>2. ReadIsUnderWay => ReadIsUnderWay'
    BY <1>1, <2>1 DEF ReadIsUnderWay
  <2>3. AnswerIsUnderWay => AnswerIsUnderWay'
    BY <1>1, <2>1 DEF AnswerIsUnderWay, True
  <2>4. AnswerIsHere => AnswerIsHere'
    BY <1>1, <2>1 DEF AnswerIsHere, True
  <2>5. QED
    BY <2>2, <2>3, <2>4
<1>3. IF Place' \in Polls THEN (ReadIsUnderWay \/ AnswerIsUnderWay \/ AnswerIsHere)'
                          ELSE Unread' /\ Unanswered'
  BY <1>1, <1>2 DEF Waiting
<1>4. Place' \in Polls \cup {"ask"} /\ Of' = "underflow" =>
        tx'.count = 0 /\ \A i \in 1..Len(todo') : todo'[i].op \in {"read", "other"}
  BY DEF Waiting
<1>5. job'.awaited => tx'.count = 0 /\ Calm' /\ (Running' => shown' = [i \in 1..job'.n |-> i])
  BY <1>1 DEF Waiting, Running
<1>6. QED
  BY <1>3, <1>4, <1>5 DEF Waiting

-----------------------------------------------------------------------------
(* The board keeps the invariant. *)

(* Carrying out a request keeps the invariant.                             *)
LEMMA ServeKeeps ==
  ASSUME IInv, Serve
  PROVE  IInv'
<1>1. Typing /\ Turns /\ Stages /\ Rest /\ Ledger /\ Waiting /\ Fits
  BY DEF IInv, Ledger
<1>2. /\ [op |-> "ack", n |-> 0] \in Message /\ [op |-> "other", n |-> 0] \in Message
      /\ [op |-> "ack", n |-> 0].op \notin Values /\ [op |-> "other", n |-> 0].op \notin Values
  BY DEF Message, Values
<1>3. CASE SetCount
  <2>1. Still /\ Typing' /\ Ledger'
    BY <1>1, <1>3, SetCountStep, SetCountKeeps
  <2>2. Waiting'
    BY <1>1, <1>2, <1>3, SetCountStep, WaitingServed
  <2>3. QED
    BY <1>1, <2>1, <2>2, StillKeeps DEF IInv
<1>4. CASE SetUnderflow
  <2>1. Still /\ Typing' /\ Ledger'
    BY <1>1, <1>4, SetUnderflowStep, SetUnderflowKeeps
  <2>2. Waiting'
    BY <1>1, <1>2, <1>4, SetUnderflowStep, WaitingServed
  <2>3. QED
    BY <1>1, <2>1, <2>2, StillKeeps DEF IInv
<1>5. CASE ClearFifo
  <2>1. Still /\ Typing' /\ Ledger'
    BY <1>1, <1>5, ClearFifoStep, ClearFifoKeeps
  <2>2. Waiting'
    BY <1>1, <1>2, <1>5, ClearFifoStep, WaitingServed
  <2>3. QED
    BY <1>1, <2>1, <2>2, StillKeeps DEF IInv
<1>6. CASE WriteFifo
  <2>1. Still /\ Typing' /\ Ledger'
    BY <1>1, <1>6, WriteFifoStep, WriteFifoKeeps
  <2>2. Waiting'
    BY <1>1, <1>2, <1>6, WriteFifoStep, WaitingServed
  <2>3. QED
    BY <1>1, <2>1, <2>2, StillKeeps DEF IInv
<1>7. CASE Read
  <2>1. Still /\ Typing' /\ Ledger' /\ Waiting'
    BY <1>1, <1>7, ReadStep, ReadKeeps, WaitingRead
  <2>2. QED
    BY <1>1, <2>1, StillKeeps DEF IInv
<1>8. CASE Other
  <2>1. Still /\ Typing' /\ Ledger'
    BY <1>1, <1>8, OtherStep, ReadKeeps
  <2>2. Waiting'
    BY <1>1, <1>2, <1>8, OtherStep, WaitingServed
  <2>3. QED
    BY <1>1, <2>1, <2>2, StillKeeps DEF IInv
<1>9. QED
  BY <1>3, <1>4, <1>5, <1>6, <1>7, <1>8 DEF Serve

(* Received data keeps the invariant.                                      *)
LEMMA PushKeeps ==
  ASSUME IInv, Push
  PROVE  IInv'
<1>1. Typing /\ Turns /\ Stages /\ Rest /\ Ledger /\ Waiting
  BY DEF IInv
<1>2. Still /\ UNCHANGED <<tx, shown, data, todo>> /\ Typing'
  BY <1>1, PushStep
<1>3. /\ Turns' /\ Stages' /\ Rest' /\ job' = job /\ (Unset' <=> Unset)
      /\ Place' = Place /\ Following' = Following
  BY <1>1, <1>2, StillKeeps DEF Still
<1>4. Ledger'
  BY <1>1, <1>2, <1>3, SameKeeps
<1>5. Waiting'
  BY <1>1, WaitingPushed
<1>6. QED
  BY <1>2, <1>3, <1>4, <1>5 DEF IInv

(* A tick of the timer keeps the invariant.                                *)
LEMMA TickKeeps ==
  ASSUME IInv, Tick
  PROVE  IInv'
<1>1. Typing /\ Turns /\ Stages /\ Rest /\ Ledger /\ Waiting
  BY DEF IInv
<1>2. Still /\ UNCHANGED <<todo, coming, fault>> /\ tx.count # 0 /\ Typing'
  BY <1>1, ShowStep, UnderflowStep DEF Tick
<1>3. Turns' /\ Stages' /\ Rest'
  BY <1>1, <1>2, StillKeeps
<1>4. Ledger'
  BY <1>1, ShowKeeps, UnderflowKeeps DEF Tick
<1>5. Waiting'
  BY <1>1, <1>2, WaitingTicked
<1>6. QED
  BY <1>2, <1>3, <1>4, <1>5 DEF IInv

-----------------------------------------------------------------------------
(* The senders' steps. *)

(* A sender changes none of what the board keeps.                          *)
LEMMA SenderTyped ==
  ASSUME Typing, UNCHANGED <<tx, data, shown>>, at' \in [Senders -> Stand],
         todo' \in Seq(Request), coming' \in Seq(Message), Buffered' < Heads,
         mem' \in [count : Nat, underflow : Nat],
         seen' \in [count : Nat \cup {-1}, underflow : Nat \cup {-1}],
         local' \in Seq(Samples), started' \in BOOLEAN,
         lock' \in Senders \cup {Nobody, "rx"}, txLock' \in Senders \cup {Nobody},
         job' \in [n : Counts \cup {0}, awaited : BOOLEAN], fault' \in {"none", "tx.underflow"}
  PROVE  Typing'
BY DEF Typing

Quiet == UNCHANGED <<tx, data, todo, coming, mem, seen, local, shown, job, fault>>

(* A step that only moves threads and locks is type-correct.               *)
LEMMA QuietTyped ==
  ASSUME Typing, Quiet, at' \in [Senders -> Stand], started' \in BOOLEAN,
         lock' \in Senders \cup {Nobody, "rx"}, txLock' \in Senders \cup {Nobody}
  PROVE  Typing'
<1>1. UNCHANGED <<tx, data, todo, coming, mem, seen, local, shown, job, fault>>
  BY DEF Quiet
<1>2. Buffered' < Heads /\ todo' \in Seq(Request) /\ coming' \in Seq(Message)
  BY <1>1 DEF Typing, Buffered, Answers
<1>3. /\ mem' \in [count : Nat, underflow : Nat]
      /\ seen' \in [count : Nat \cup {-1}, underflow : Nat \cup {-1}]
      /\ local' \in Seq(Samples)
      /\ job' \in [n : Counts \cup {0}, awaited : BOOLEAN] /\ fault' \in {"none", "tx.underflow"}
  BY <1>1 DEF Typing
<1>4. QED
  BY <1>1, <1>2, <1>3, SenderTyped

(* A thread goes from one place to another.                                *)
LEMMA Went ==
  ASSUME Typing, NEW s \in Senders, NEW from, NEW to \in Places, Go(s, from, to)
  PROVE  LET a == [pc |-> to, of |-> at[s].of, n |-> at[s].n]
         IN  /\ Running /\ at[s] \in Stand /\ at[s].pc = from /\ a \in Stand
             /\ a.pc = to /\ a.of = at[s].of /\ a.n = at[s].n
             /\ at' = [at EXCEPT ![s] = a] /\ UNCHANGED <<tx, data, shown, rx>>
<1> DEFINE a == [pc |-> to, of |-> at[s].of, n |-> at[s].n]
<1>1. Running /\ at[s].pc = from /\ UNCHANGED <<tx, data, shown, rx>>
  BY DEF Go, board
<1>2. at' = [at EXCEPT ![s].pc = to]
  BY DEF Go
<1>3. at' = [at EXCEPT ![s] = a]
  BY <1>2, PcChanges
<1>4. at[s] \in Stand
  BY DEF Typing
<1>5. a \in Stand
  BY <1>4 DEF Stand
<1>6. QED
  BY <1>1, <1>3, <1>4, <1>5

(* A step within a place of its own, or between places that mean the same. *)
LEMMA QuietKeeps ==
  ASSUME IInv, Quiet, Typing', Turns', Stages', Rest', Unset' <=> Unset,
         Place' \in Sends => Place \in Sends /\ Following' = Following,
         Place' \in Polls <=> Place \in Polls, Place' \in Polls => Of' = Of,
         Place' = "ask" => Of' = "count" \/ (Place = "ask" /\ Of' = Of)
  PROVE  IInv'
<1>1. Typing /\ Ledger /\ Waiting
  BY DEF IInv
<1>2. UNCHANGED <<tx, data, todo, coming, mem, seen, local, shown, job, fault>>
  BY DEF Quiet
<1>3. Ledger'
  BY <1>1, <1>2, SameKeeps
<1>4. Waiting'
  BY <1>1, <1>2, WaitingKept
<1>5. QED
  BY <1>3, <1>4 DEF IInv

(* Nothing that a holder of txLock relies on changes.                      *)
LEMMA OutsideKeeps ==
  ASSUME IInv, Quiet, Typing', Turns', Place' = Place, started' = started,
         Place # "free" => Of' = Of /\ Wanted' = Wanted
  PROVE  IInv'
<1>1. Stages /\ Rest
  BY DEF IInv
<1>2. UNCHANGED <<tx, data, todo, coming, mem, seen, local, shown, job, fault>>
  BY DEF Quiet
<1>3. Place \in Sends \cup Polls \cup {"ask"} => Of' = Of /\ Wanted' = Wanted
  BY DEF Sends, Polls
<1>4. Stages' /\ Rest'
  BY <1>1, <1>2, <1>3 DEF Stages, Rest
<1>5. (Unset' <=> Unset) /\ Following' = Following
  BY <1>2 DEF Unset, Following, Left
<1>6. QED
  BY <1>3, <1>4, <1>5, QuietKeeps

(* A call of tx_send or tx_wait.                                           *)
LEMMA CallKeeps ==
  ASSUME IInv, NEW s \in Senders, NEW n \in Counts \cup {0}, Call(s, n)
  PROVE  IInv'
<1>1. Typing /\ Turns
  BY DEF IInv
<1> DEFINE a == [pc |-> "wait", of |-> "count", n |-> n]
<1>2. a \in Stand /\ a.pc = "wait" /\ a.of = "count"
  BY DEF Stand, Places, Values
<1>3. /\ at[s].pc = "idle" /\ at' = [at EXCEPT ![s] = a] /\ Quiet
      /\ UNCHANGED <<started, lock, txLock>>
  BY DEF Call, Quiet, board, link, copies, driver, history
<1> HIDE DEF a
<1>4. at[s].pc \notin Holds /\ a.pc \notin Holds
  BY <1>2, <1>3 DEF Holds, Sends, Polls
<1>5. /\ at' \in [Senders -> Stand] /\ Turns' /\ Place' = Place
      /\ Place # "free" => Of' = Of /\ Wanted' = Wanted
  BY <1>1, <1>2, <1>3, <1>4, Outside
<1>6. Typing'
  BY <1>1, <1>3, <1>5, QuietTyped DEF Typing
<1>7. QED
  BY <1>3, <1>5, <1>6, OutsideKeeps

(* tx_wait takes txLock; it returns at once if nothing was started.        *)
LEMMA BeginWaitKeeps ==
  ASSUME IInv, NEW s \in Senders, BeginWait(s)
  PROVE  IInv'
<1>1. Typing /\ Turns /\ Stages /\ Rest
  BY DEF IInv
<1>2. "ask" \in Places /\ "waited" \in Places /\ "ask" \in Holds /\ "waited" \notin Holds /\ "wait" \notin Holds
  BY DEF Places, Holds, Sends, Polls
<1>3. UNCHANGED <<todo, coming, mem, seen, local, started, lock, job, fault>> /\ txLock = Nobody
  BY DEF BeginWait, link, copies
<1>4. CASE started
  <2> DEFINE a == [pc |-> "ask", of |-> at[s].of, n |-> at[s].n]
  <2>1. Go(s, "wait", "ask") /\ txLock' = s
    BY <1>4 DEF BeginWait
  <2>2. /\ at[s].pc = "wait" /\ a \in Stand /\ a.pc = "ask" /\ a.of = at[s].of
        /\ at' = [at EXCEPT ![s] = a] /\ UNCHANGED <<tx, data, shown>>
    BY <1>1, <1>2, <2>1, Went
  <2>3. Quiet
    BY <1>3, <2>2 DEF Quiet
  <2> HIDE DEF a
  <2>4. /\ at' \in [Senders -> Stand] /\ Turns'
        /\ Place = "free" /\ Place' = a.pc /\ Of' = a.of
    <3>1. a.pc \notin Sends \cup {"prepare"}
      BY <2>2 DEF Sends
    <3>2. QED
      BY <1>1, <1>2, <1>3, <2>1, <2>2, <3>1, Takes
  <2>5. Of' = "count" /\ Place' = "ask"
    BY <1>1, <2>2, <2>4 DEF Turns
  <2>6. Typing'
    BY <1>1, <1>3, <2>1, <2>3, <2>4, QuietTyped DEF Typing
  <2>7. Place' \notin Sends /\ Place' \notin Polls /\ Place \notin Sends /\ Place \notin Polls
    BY <2>4, <2>5 DEF Sends, Polls
  <2>8. Stages' /\ Rest'
    BY <1>1, <1>3, <1>4, <2>5, <2>7 DEF Stages, Rest, Sends
  <2>9. Unset' <=> Unset
    BY <2>4, <2>5 DEF Unset
  <2>10. QED
    BY <2>3, <2>4, <2>5, <2>6, <2>7, <2>8, <2>9, QuietKeeps
<1>5. CASE ~started
  <2> DEFINE a == [pc |-> "waited", of |-> at[s].of, n |-> at[s].n]
  <2>1. Go(s, "wait", "waited") /\ txLock' = txLock
    BY <1>5 DEF BeginWait
  <2>2. /\ at[s].pc = "wait" /\ a \in Stand /\ a.pc = "waited"
        /\ at' = [at EXCEPT ![s] = a] /\ UNCHANGED <<tx, data, shown>>
    BY <1>1, <1>2, <2>1, Went
  <2>3. Quiet
    BY <1>3, <2>2 DEF Quiet
  <2> HIDE DEF a
  <2>4. /\ at' \in [Senders -> Stand] /\ Turns' /\ Place' = Place
        /\ Place # "free" => Of' = Of /\ Wanted' = Wanted
    BY <1>1, <1>2, <2>1, <2>2, Outside
  <2>5. Typing'
    BY <1>1, <1>3, <2>1, <2>3, <2>4, QuietTyped DEF Typing
  <2>6. QED
    BY <1>3, <2>3, <2>4, <2>5, OutsideKeeps
<1>6. QED
  BY <1>4, <1>5

(* The wait that tx_send begins with is over.                              *)
LEMMA WaitedKeeps ==
  ASSUME IInv, NEW s \in Senders, Waited(s)
  PROVE  IInv'
<1>1. Typing /\ Turns
  BY DEF IInv
<1>2. UNCHANGED <<todo, coming, mem, seen, local, started, txLock, lock, job, fault>>
  BY DEF Waited, link, copies, driver
<1>3. PICK to \in {"idle", "enter"} : Go(s, "waited", to) /\ (to = "enter" => at[s].n # 0)
  BY DEF Waited
<1>4. to \in Places /\ to \notin Holds /\ "waited" \notin Holds
  BY <1>3 DEF Places, Holds, Sends, Polls
<1> DEFINE a == [pc |-> to, of |-> at[s].of, n |-> at[s].n]
<1>5. /\ at[s].pc = "waited" /\ a \in Stand /\ a.pc = to /\ a.n = at[s].n
      /\ at' = [at EXCEPT ![s] = a] /\ UNCHANGED <<tx, data, shown>>
  BY <1>1, <1>3, <1>4, Went
<1>6. Quiet
  BY <1>2, <1>5 DEF Quiet
<1> HIDE DEF a
<1>7. /\ at' \in [Senders -> Stand] /\ Turns' /\ Place' = Place
      /\ Place # "free" => Of' = Of /\ Wanted' = Wanted
  BY <1>1, <1>2, <1>3, <1>4, <1>5, Outside
<1>8. Typing'
  BY <1>1, <1>2, <1>6, <1>7, QuietTyped DEF Typing
<1>9. QED
  BY <1>2, <1>6, <1>7, <1>8, OutsideKeeps

(* The steps of a poll: asked, test, lock and blocked.                     *)
LEMMA PollKeeps ==
  ASSUME IInv, NEW s \in Senders, NEW from \in Polls, NEW to \in Polls, Go(s, from, to),
         UNCHANGED <<todo, coming, mem, seen, local, started, txLock, job, fault>>,
         lock' \in Senders \cup {Nobody, "rx"}
  PROVE  IInv'
<1>1. Typing /\ Turns /\ Stages /\ Rest
  BY DEF IInv
<1>2. to \in Places /\ from \in Holds /\ to \in Holds
  BY DEF Places, Holds
<1>3. to \notin Sends \cup {"prepare"} /\ from \notin Sends /\ to # "ask"
  BY DEF Sends, Polls
<1> DEFINE a == [pc |-> to, of |-> at[s].of, n |-> at[s].n]
<1>4. /\ at[s].pc = from /\ a \in Stand /\ a.pc = to /\ a.of = at[s].of /\ a.n = at[s].n
      /\ at' = [at EXCEPT ![s] = a] /\ UNCHANGED <<tx, data, shown>>
  BY <1>1, <1>2, Went
<1>5. Quiet
  BY <1>4 DEF Quiet
<1> HIDE DEF a
<1>6. /\ at' \in [Senders -> Stand] /\ Turns' /\ Place = from /\ Place' = to /\ Of' = Of
  BY <1>1, <1>2, <1>3, <1>4, Inside
<1>7. Typing'
  BY <1>1, <1>5, <1>6, QuietTyped DEF Typing
<1>8. Stages' /\ Rest'
  BY <1>1, <1>3, <1>6 DEF Stages, Rest, Sends
<1>9. Unset' <=> Unset
  BY <1>3, <1>6 DEF Unset, Sends
<1>10. QED
  BY <1>3, <1>5, <1>6, <1>7, <1>8, <1>9, QuietKeeps

(* The read was sent, its answer is looked for, and the thread takes       *)
(* softio.                                                                 *)
LEMMA PollsKeep ==
  ASSUME IInv, NEW s \in Senders, Asked(s) \/ NotYet(s) \/ Block(s)
  PROVE  IInv'
<1>1. lock \in Senders \cup {Nobody, "rx"} /\ {"asked", "test", "lock", "blocked"} \subseteq Polls
  BY DEF IInv, Typing, Polls
<1>2. CASE Asked(s)
  <2>1. /\ Go(s, "asked", "test") /\ lock' = Nobody
        /\ UNCHANGED <<todo, coming, mem, seen, local, started, txLock, job, fault>>
    BY <1>2 DEF Asked, GiveBack, link, copies, driver
  <2>2. QED
    BY <1>1, <2>1, PollKeeps
<1>3. CASE NotYet(s)
  <2>1. /\ Go(s, "test", "lock") /\ lock' = lock
        /\ UNCHANGED <<todo, coming, mem, seen, local, started, txLock, job, fault>>
    BY <1>3 DEF NotYet, link, copies, driver
  <2>2. QED
    BY <1>1, <2>1, PollKeeps
<1>4. CASE Block(s)
  <2>1. /\ Go(s, "lock", "blocked") /\ lock' = s
        /\ UNCHANGED <<todo, coming, mem, seen, local, started, txLock, job, fault>>
    BY <1>4 DEF Block, Take, link, copies, driver
  <2>2. QED
    BY <1>1, <2>1, PollKeeps
<1>5. QED
  BY <1>2, <1>3, <1>4

(* tx_count was read: it is asked for again, or tx_underflow is.           *)
LEMMA CountedKeeps ==
  ASSUME IInv, NEW s \in Senders, Counted(s)
  PROVE  IInv'
<1>1. Typing /\ Turns /\ Stages /\ Rest /\ Ledger /\ Waiting
  BY DEF IInv
<1> DEFINE of == IF seen.count = 0 THEN "underflow" ELSE "count"
           a == [pc |-> "ask", of |-> of, n |-> at[s].n]
<1>2. at[s].pc = "test" /\ at[s].of = "count" /\ seen.count # -1
  BY DEF Counted
<1>3. at[s] \in Stand /\ at \in [Senders -> Stand]
  BY <1>1 DEF Typing
<1>4. at' = [at EXCEPT ![s] = a]
  <2>1. at' = [at EXCEPT ![s].pc = "ask", ![s].of = IF seen.count = 0 THEN "underflow" ELSE @]
    BY DEF Counted
  <2>2. at' = [at EXCEPT ![s] =
                 [[at[s] EXCEPT !.pc = "ask"]
                    EXCEPT !.of = IF seen.count = 0 THEN "underflow" ELSE @]]
    BY <1>3, <2>1
  <2>3. at[s] = [pc |-> "test", of |-> "count", n |-> at[s].n]
    BY <1>2, <1>3 DEF Stand
  <2>4. [[at[s] EXCEPT !.pc = "ask"] EXCEPT !.of = IF seen.count = 0 THEN "underflow" ELSE @] = a
    <3>1. [at[s] EXCEPT !.pc = "ask"] = [pc |-> "ask", of |-> "count", n |-> at[s].n]
      BY <2>3
    <3>2. \A r : r = [pc |-> "ask", of |-> "count", n |-> at[s].n] =>
            [r EXCEPT !.of = IF seen.count = 0 THEN "underflow" ELSE @] = a
      OBVIOUS
    <3>3. QED
      BY <3>1, <3>2
  <2>5. QED
    BY <2>2, <2>4
<1>5. a \in Stand /\ a.pc = "ask" /\ a.of = of /\ a.n = at[s].n
  BY <1>3 DEF Stand, Places, Holds, Values
<1>6. Quiet /\ UNCHANGED <<started, lock, txLock>>
  BY DEF Counted, Quiet, board, link, copies, driver, history
<1> HIDE DEF a
<1>7. /\ at' \in [Senders -> Stand] /\ Turns' /\ Place = "test" /\ Place' = "ask"
      /\ Of = "count" /\ Of' = of
  <2>1. "ask" \in Holds /\ "test" \in Holds /\ "ask" \notin Sends \cup {"prepare"}
    BY DEF Holds, Polls, Sends
  <2>2. QED
    BY <1>1, <1>2, <1>4, <1>5, <1>6, <2>1, Inside
<1>8. Typing'
  BY <1>1, <1>6, <1>7, QuietTyped DEF Typing
<1>9. "test" \in Polls /\ "ask" \notin Polls /\ "test" \notin Sends /\ "ask" \notin Sends
  BY DEF Polls, Sends
<1>10. Stages' /\ Rest'
  BY <1>1, <1>6, <1>7, <1>9 DEF Stages, Rest, Sends, Quiet
<1>11. Ledger'
  <2>1. Unset' <=> Unset
    BY <1>7 DEF Unset
  <2>2. QED
    BY <1>1, <1>6, <1>7, <1>9, <2>1, SameKeeps DEF Quiet
<1>12. AnswerIsHere
  BY <1>1, <1>2, <1>7, <1>9 DEF Waiting, ReadIsUnderWay, AnswerIsUnderWay
<1>13. Calm /\ Unanswered /\ (seen.count = 0 => tx.count = 0)
  BY <1>7, <1>12 DEF AnswerIsHere, True
<1>14. Calm' /\ Unread' /\ Unanswered' /\ tx' = tx
  <2>1. UNCHANGED <<tx, todo, coming>>
    BY <1>6 DEF Quiet
  <2>2. QED
    BY <1>13, <2>1 DEF Calm, Unread, Unanswered
<1>15. Waiting'
  <2>1. Of' = "underflow" =>
          tx'.count = 0 /\ \A i \in 1..Len(todo') : todo'[i].op \in {"read", "other"}
    BY <1>7, <1>13, <1>14 DEF Calm
  <2>2. ~job'.awaited
    <3>1. started /\ job' = job
      BY <1>1, <1>6, <1>7, <1>9 DEF Stages, Quiet
    <3>2. QED
      BY <1>1, <3>1 DEF Stages
  <2>3. QED
    BY <1>7, <1>9, <1>14, <2>1, <2>2 DEF Waiting
<1>16. QED
  BY <1>7, <1>8, <1>10, <1>11, <1>15 DEF IInv

(* tx_send takes txLock.                                                   *)
LEMMA EnterKeeps ==
  ASSUME IInv, NEW s \in Senders, Enter(s)
  PROVE  IInv'
<1>1. Typing /\ Turns /\ Stages /\ Rest
  BY DEF IInv
<1> DEFINE a == [pc |-> "prepare", of |-> at[s].of, n |-> at[s].n]
<1>2. "prepare" \in Places /\ "prepare" \in Holds /\ "enter" \notin Holds
  BY DEF Places, Holds, Sends, Polls
<1>3. /\ Go(s, "enter", "prepare") /\ txLock = Nobody /\ txLock' = s
      /\ UNCHANGED <<todo, coming, mem, seen, local, started, lock, job, fault>>
  BY DEF Enter, link, copies
<1>4. /\ at[s].pc = "enter" /\ a \in Stand /\ a.pc = "prepare" /\ a.n = at[s].n
      /\ at' = [at EXCEPT ![s] = a] /\ UNCHANGED <<tx, data, shown>>
  BY <1>1, <1>2, <1>3, Went
<1>5. Quiet
  BY <1>3, <1>4 DEF Quiet
<1> HIDE DEF a
<1>6. a.n # 0
  BY <1>1, <1>4 DEF Turns
<1>7. /\ at' \in [Senders -> Stand] /\ Turns' /\ Place = "free" /\ Place' = "prepare"
  BY <1>1, <1>2, <1>3, <1>4, <1>6, Takes
<1>8. Typing'
  BY <1>1, <1>3, <1>5, <1>7, QuietTyped DEF Typing
<1>9. Place' \notin Sends /\ Place \notin Sends /\ Place' \notin Polls /\ Place \notin Polls
  BY <1>7 DEF Sends, Polls
<1>10. Stages' /\ Rest'
  BY <1>1, <1>3, <1>7, <1>9 DEF Stages, Rest, Sends
<1>11. Unset' <=> Unset
  BY <1>7 DEF Unset
<1>12. QED
  BY <1>5, <1>7, <1>8, <1>9, <1>10, <1>11, QuietKeeps

(* A part has been sent: the first one is followed by the count.           *)
LEMMA PartSentKeeps ==
  ASSUME IInv, NEW s \in Senders, PartSent(s)
  PROVE  IInv'
<1>1. Typing /\ Turns /\ Stages /\ Rest
  BY DEF IInv
<1> DEFINE a == [pc |-> "throttle", of |-> at[s].of, n |-> at[s].n]
<1>2. "throttle" \in Places /\ "throttle" \in Holds /\ "counted" \in Holds
  BY DEF Places, Holds, Sends, Polls
<1>3. /\ Go(s, "counted", "throttle") /\ lock' = Nobody
      /\ UNCHANGED <<todo, coming, mem, seen, local, started, txLock, job, fault>>
  BY DEF PartSent, GiveBack, link, copies, driver
<1>4. /\ at[s].pc = "counted" /\ a \in Stand /\ a.pc = "throttle" /\ a.n = at[s].n
      /\ at' = [at EXCEPT ![s] = a] /\ UNCHANGED <<tx, data, shown>>
  BY <1>1, <1>2, <1>3, Went
<1>5. Quiet
  BY <1>3, <1>4 DEF Quiet
<1> HIDE DEF a
<1>6. a.n # 0
  BY <1>1, <1>4 DEF Turns, Sends
<1>7. /\ at' \in [Senders -> Stand] /\ Turns' /\ Place = "counted" /\ Place' = "throttle"
      /\ Wanted' = Wanted
  BY <1>1, <1>2, <1>3, <1>4, <1>6, Inside
<1>8. Typing'
  BY <1>1, <1>3, <1>5, <1>7, QuietTyped DEF Typing
<1>9. Place' \in Sends /\ Place \in Sends /\ Place' \notin Polls /\ Place \notin Polls
  BY <1>7 DEF Sends, Polls
<1>10. Stages'
  BY <1>1, <1>3, <1>7, <1>9 DEF Stages
<1>11. Rest'
  <2>1. /\ Len(local) <= job.n
        /\ \A i \in 1..Len(local) : local[i] = job.n - Len(local) + i
        /\ Len(local) < job.n /\ mem.count = job.n
    BY <1>1, <1>7, <1>9 DEF Rest
  <2>2. QED
    BY <1>3, <1>7, <2>1 DEF Rest
<1>12. Unset' <=> Unset
  BY <1>7 DEF Unset
<1>13. Following' = Following
  BY <1>3, <1>7 DEF Following, Left
<1>14. QED
  BY <1>5, <1>7, <1>8, <1>9, <1>10, <1>11, <1>12, <1>13, QuietKeeps

(* The next part, or all parts are sent.                                   *)
LEMMA NextPartKeeps ==
  ASSUME IInv, NEW s \in Senders, NextPart(s)
  PROVE  IInv'
<1>1. Typing /\ Turns /\ Stages /\ Rest
  BY DEF IInv
<1>2. "send" \in Places /\ "idle" \in Places /\ {"throttle", "send"} \subseteq Holds /\ "idle" \notin Holds
  BY DEF Places, Holds, Sends, Polls
<1>3. UNCHANGED <<todo, coming, mem, seen, local, lock, job, fault>>
  BY DEF NextPart, link, copies
<1>4. CASE local # <<>>
  <2> DEFINE a == [pc |-> "send", of |-> at[s].of, n |-> at[s].n]
  <2>1. Go(s, "throttle", "send") /\ UNCHANGED <<started, txLock>>
    BY <1>4 DEF NextPart
  <2>2. /\ at[s].pc = "throttle" /\ a \in Stand /\ a.pc = "send" /\ a.n = at[s].n
        /\ at' = [at EXCEPT ![s] = a] /\ UNCHANGED <<tx, data, shown>>
    BY <1>1, <1>2, <2>1, Went
  <2>3. Quiet
    BY <1>3, <2>2 DEF Quiet
  <2> HIDE DEF a
  <2>4. a.n # 0
    BY <1>1, <2>2 DEF Turns, Sends
  <2>5. /\ at' \in [Senders -> Stand] /\ Turns' /\ Place = "throttle" /\ Place' = "send"
        /\ Wanted' = Wanted
    BY <1>1, <1>2, <2>1, <2>2, <2>4, Inside
  <2>6. Typing'
    BY <1>1, <1>3, <2>1, <2>3, <2>5, QuietTyped DEF Typing
  <2>7. Place' \in Sends /\ Place \in Sends /\ Place' \notin Polls /\ Place \notin Polls
    BY <2>5 DEF Sends, Polls
  <2>8. Stages'
    BY <1>1, <1>3, <2>1, <2>5, <2>7 DEF Stages, Sends
  <2>9. /\ Len(local) <= job.n /\ Len(local) < job.n /\ mem.count = job.n
        /\ \A i \in 1..Len(local) : local[i] = job.n - Len(local) + i
    BY <1>1, <2>5, <2>7 DEF Rest
  <2>10. Len(local) # job.n
    <3>1. job.n \in Nat /\ Len(local) \in Nat
      BY <1>1, Sizes, Bare DEF Typing
    <3>2. QED
      BY <2>9, <3>1
  <2>11. Rest'
    BY <1>3, <1>4, <2>5, <2>9 DEF Rest
  <2>12. Unset' <=> Unset
    BY <1>3, <2>5, <2>10 DEF Unset
  <2>13. Following' = Following
    BY <1>3, <2>5 DEF Following, Left
  <2>14. QED
    BY <2>3, <2>5, <2>6, <2>7, <2>8, <2>11, <2>12, <2>13, QuietKeeps
<1>5. CASE local = <<>>
  <2> DEFINE a == [pc |-> "idle", of |-> at[s].of, n |-> at[s].n]
  <2>1. Go(s, "throttle", "idle") /\ started' = TRUE /\ txLock' = Nobody
    BY <1>5 DEF NextPart
  <2>2. /\ at[s].pc = "throttle" /\ a \in Stand /\ a.pc = "idle"
        /\ at' = [at EXCEPT ![s] = a] /\ UNCHANGED <<tx, data, shown>>
    BY <1>1, <1>2, <2>1, Went
  <2>3. Quiet
    BY <1>3, <2>2 DEF Quiet
  <2> HIDE DEF a
  <2>4. /\ at' \in [Senders -> Stand] /\ Turns' /\ Place = "throttle" /\ Place' = "free"
        /\ Wanted = at[s].n
    BY <1>1, <1>2, <2>1, <2>2, Gives
  <2>5. Typing'
    BY <1>1, <1>3, <2>1, <2>3, <2>4, QuietTyped DEF Typing
  <2>6. Place' \notin Sends /\ Place \in Sends /\ Place' \notin Polls /\ Place \notin Polls
    BY <2>4 DEF Sends, Polls
  <2>7. job.n # 0 /\ ~job.awaited
    BY <1>1, <2>2, <2>4, <2>6 DEF Stages, Turns
  <2>8. Stages' /\ Rest'
    BY <1>3, <2>4, <2>6, <2>7 DEF Stages, Rest, Sends
  <2>9. Unset' <=> Unset
    BY <2>4 DEF Unset
  <2>10. QED
    BY <2>3, <2>4, <2>5, <2>6, <2>8, <2>9, QuietKeeps
<1>6. QED
  BY <1>4, <1>5

(* The count or the underflow is asked for.                                *)
LEMMA AskForKeeps ==
  ASSUME IInv, NEW s \in Senders, AskFor(s)
  PROVE  IInv'
<1>1. Typing /\ Turns /\ Stages /\ Rest /\ Ledger /\ Waiting
  BY DEF IInv
<1> DEFINE a == [pc |-> "asked", of |-> at[s].of, n |-> at[s].n]
           p == [op |-> "read", n |-> at[s].of]
<1>2. "asked" \in Places /\ {"asked", "ask"} \subseteq Holds /\ "asked" \notin Sends \cup {"prepare"}
  BY DEF Places, Holds, Sends, Polls
<1>3. /\ Go(s, "ask", "asked") /\ lock' = s /\ Ask(<<p>>)
      /\ seen' = [seen EXCEPT ![at[s].of] = -1]
      /\ UNCHANGED <<mem, local, started, txLock, job, fault>>
  BY DEF AskFor, Take, driver
<1>4. /\ at[s].pc = "ask" /\ at[s] \in Stand /\ a \in Stand
      /\ a.pc = "asked" /\ a.of = at[s].of /\ a.n = at[s].n
      /\ at' = [at EXCEPT ![s] = a] /\ UNCHANGED <<tx, data, shown>>
  BY <1>1, <1>2, <1>3, Went
<1> HIDE DEF a
<1>5. /\ at' \in [Senders -> Stand] /\ Turns' /\ Place = "ask" /\ Place' = "asked"
      /\ Of = at[s].of /\ Of' = Of
  BY <1>1, <1>2, <1>3, <1>4, Inside, ZenonT(40)
<1>6. Of \in Values
  BY <1>4, <1>5 DEF Stand
<1>7. p \in Request /\ p.op = "read" /\ p = [op |-> "read", n |-> Of]
  BY <1>5, <1>6 DEF Request, Values
<1> HIDE DEF p
<1>8. <<p>> \in Seq(Request) /\ Len(<<p>>) = 1 /\ <<p>>[1] = p /\ 1 \in 1..Len(<<p>>)
  BY <1>7
<1>9. todo' = todo \o <<p>> /\ coming' = coming /\ todo' \in Seq(Request) /\ Buffered' < Heads
  BY <1>1, <1>3, <1>8, Requested
<1>10. /\ seen' \in [count : Nat \cup {-1}, underflow : Nat \cup {-1}] /\ seen'[Of] = -1
  <2>1. seen \in [count : Nat \cup {-1}, underflow : Nat \cup {-1}]
    BY <1>1 DEF Typing
  <2>2. QED
    BY <1>3, <1>5, <1>6, <2>1 DEF Values
<1>11. Typing'
  BY <1>1, <1>3, <1>4, <1>5, <1>9, <1>10, SenderTyped DEF Typing
<1>12. "asked" \notin Sends /\ "ask" \notin Sends /\ "ask" \notin Polls /\ "asked" \in Polls
  BY DEF Sends, Polls
<1>13. Stages' /\ Rest'
  BY <1>1, <1>3, <1>5, <1>12 DEF Stages, Rest, Sends
<1>14. Ledger'
  <2>1. (Unset' <=> Unset) /\ Place' \notin Sends /\ job'.n = job.n
    BY <1>3, <1>5, <1>12 DEF Unset
  <2>2. \A i \in 1..Len(<<p>>) : <<p>>[i].op \in {"read", "other"}
    BY <1>7, <1>8
  <2>3. QED
    BY <1>1, <1>4, <1>8, <1>9, <2>1, <2>2, AddedKeeps
<1> DEFINE l == Len(todo)
<1>15. /\ l \in Nat /\ Len(todo') = l + 1
       /\ \A i \in 1..l : todo'[i] = todo[i]
       /\ todo'[l + 1] = p
  <2>1. todo \in Seq(Request)
    BY <1>1 DEF Typing
  <2>2. QED
    BY <1>8, <1>9, <2>1, Joined
<1> HIDE DEF l
<1>16. \A i \in 1..Len(todo') : i \in 1..l \/ i = l + 1
  BY <1>15
<1>17. Unread /\ Unanswered /\ \A i \in 1..l : todo[i].op # "read"
  BY <1>1, <1>5, <1>12 DEF Waiting, Unread, l
<1>18. ReadIsUnderWay'
  <2>1. PICK j \in Nat : j = l + 1
    BY <1>15
  <2>2. j \in 1..Len(todo') /\ todo'[j] = [op |-> "read", n |-> Of']
    BY <1>5, <1>7, <1>15, <2>1
  <2>3. \A k \in 1..(j - 1) : todo'[k].op # "read"
    <3>1. \A k \in 1..(j - 1) : k \in 1..l
      BY <1>15, <2>1
    <3>2. QED
      BY <1>15, <1>17, <3>1
  <2>4. \A k \in (j + 1)..Len(todo') : todo'[k].op = "other"
    BY <1>15, <2>1
  <2>5. seen'[Of'] = -1 /\ Unanswered'
    BY <1>5, <1>9, <1>10, <1>17 DEF Unanswered
  <2>6. QED
    BY <2>2, <2>3, <2>4, <2>5 DEF ReadIsUnderWay
<1>19. Of' = "underflow" =>
         tx'.count = 0 /\ \A i \in 1..Len(todo') : todo'[i].op \in {"read", "other"}
  <2>1. Of = "underflow" => tx.count = 0 /\ \A i \in 1..l : todo[i].op \in {"read", "other"}
    BY <1>1, <1>5 DEF Waiting, l
  <2>2. QED
    BY <1>4, <1>5, <1>7, <1>15, <1>16, <2>1
<1>20. ~job'.awaited
  BY <1>1, <1>3, <1>5 DEF Stages
<1>21. Waiting'
  BY <1>5, <1>12, <1>18, <1>19, <1>20 DEF Waiting
<1>22. QED
  BY <1>5, <1>11, <1>13, <1>14, <1>21 DEF IInv

(* The thread that polls takes in one message.                             *)
LEMMA WaitOneKeeps ==
  ASSUME IInv, NEW s \in Senders, WaitOne(s)
  PROVE  IInv'
<1>1. Typing /\ Turns /\ Stages /\ Rest /\ Ledger /\ Waiting
  BY DEF IInv
<1> DEFINE a == [pc |-> "test", of |-> at[s].of, n |-> at[s].n]
<1>2. "test" \in Places /\ {"test", "blocked"} \subseteq Holds /\ "test" \notin Sends \cup {"prepare"}
  BY DEF Places, Holds, Sends, Polls
<1>3. /\ Go(s, "blocked", "test") /\ TakeOne /\ lock' = Nobody
      /\ UNCHANGED <<local, started, txLock, job, fault>>
  BY DEF WaitOne, driver
<1>4. /\ at[s].pc = "blocked" /\ a \in Stand
      /\ a.pc = "test" /\ a.of = at[s].of /\ a.n = at[s].n
      /\ at' = [at EXCEPT ![s] = a] /\ UNCHANGED <<tx, data, shown>>
  BY <1>1, <1>2, <1>3, Went
<1> HIDE DEF a
<1>5. /\ at' \in [Senders -> Stand] /\ Turns' /\ Place = "blocked" /\ Place' = "test" /\ Of' = Of
  BY <1>1, <1>2, <1>3, <1>4, Inside, ZenonT(40)
<1>6. /\ todo' = todo /\ coming' \in Seq(Message) /\ Buffered' < Heads
      /\ mem' \in [count : Nat, underflow : Nat]
      /\ seen' \in [count : Nat \cup {-1}, underflow : Nat \cup {-1}]
  BY <1>1, <1>3, Taken
<1>7. Typing'
  BY <1>1, <1>3, <1>4, <1>5, <1>6, SenderTyped DEF Typing
<1>8. "test" \notin Sends /\ "blocked" \notin Sends /\ "test" \in Polls /\ "blocked" \in Polls
  BY DEF Sends, Polls
<1>9. Stages' /\ Rest'
  BY <1>1, <1>3, <1>5, <1>8 DEF Stages, Rest, Sends
<1>10. Ledger'
  <2>1. (Unset' <=> Unset) /\ Place' \notin Sends /\ job'.n = job.n
    BY <1>3, <1>5, <1>8 DEF Unset
  <2>2. QED
    BY <1>1, <1>4, <1>6, <2>1, SameKeeps
<1>11. Waiting'
  BY <1>1, <1>3, <1>4, <1>5, <1>8, WaitingTaken
<1>12. QED
  BY <1>5, <1>7, <1>9, <1>10, <1>11 DEF IInv

(* The wait ends: everything was shown, or the program stops.              *)
LEMMA FinishKeeps ==
  ASSUME IInv, NEW s \in Senders, Finish(s)
  PROVE  IInv'
<1>1. Typing /\ Turns /\ Stages /\ Rest /\ Ledger /\ Waiting
  BY DEF IInv
<1> DEFINE a == [pc |-> "waited", of |-> at[s].of, n |-> at[s].n]
<1>2. "waited" \in Places /\ "test" \in Holds /\ "waited" \notin Holds
  BY DEF Places, Holds, Sends, Polls
<1>3. /\ Go(s, "test", "waited") /\ at[s].of = "underflow" /\ seen.underflow # -1
      /\ fault' = (IF mem.underflow = 0 THEN "none" ELSE "tx.underflow")
      /\ started' = FALSE /\ txLock' = Nobody
      /\ job' = [job EXCEPT !.awaited = TRUE]
      /\ UNCHANGED <<todo, coming, mem, seen, local, lock>>
  BY DEF Finish, link, copies
<1>4. /\ at[s].pc = "test" /\ a \in Stand /\ a.pc = "waited"
      /\ at' = [at EXCEPT ![s] = a] /\ UNCHANGED <<tx, data, shown>>
  BY <1>1, <1>2, <1>3, Went
<1> HIDE DEF a
<1>5. /\ at' \in [Senders -> Stand] /\ Turns' /\ Place = "test" /\ Place' = "free"
      /\ Of = "underflow"
  BY <1>1, <1>2, <1>3, <1>4, Gives
<1>6. job' \in [n : Counts \cup {0}, awaited : BOOLEAN] /\ job'.n = job.n
  BY <1>1, <1>3 DEF Typing
<1>7. Typing'
  <2>1. Buffered' < Heads
    BY <1>1, <1>3 DEF Typing, Buffered, Answers
  <2>2. QED
    BY <1>1, <1>3, <1>4, <1>5, <1>6, <2>1, SenderTyped DEF Typing
<1>8. "free" \notin Sends /\ "test" \notin Sends /\ "free" \notin Polls /\ "test" \in Polls
  BY DEF Sends, Polls
<1>9. Stages' /\ Rest'
  BY <1>3, <1>5, <1>8 DEF Stages, Rest, Sends
<1>10. ~Unset
  BY <1>5 DEF Unset
<1>11. Ledger'
  <2>1. (Unset' <=> Unset) /\ Place' \notin Sends
    BY <1>5, <1>8 DEF Unset
  <2>2. QED
    BY <1>1, <1>3, <1>4, <1>6, <2>1, SameKeeps
<1>12. AnswerIsHere
  BY <1>1, <1>3, <1>5, <1>8 DEF Waiting, ReadIsUnderWay, AnswerIsUnderWay
<1>13. Calm /\ Unanswered /\ mem.underflow = tx.underflow /\ tx.count = 0
  <2>1. Calm /\ Unanswered /\ mem[Of] = seen[Of] /\ True(seen[Of])
    BY <1>12 DEF AnswerIsHere
  <2>2. seen[Of] = tx.underflow
    BY <1>5, <2>1 DEF True
  <2>3. tx.count = 0
    BY <1>1, <1>5, <1>8 DEF Waiting
  <2>4. QED
    BY <1>5, <2>1, <2>2, <2>3
<1>14. Calm' /\ Unread' /\ Unanswered' /\ tx'.count = 0
  BY <1>3, <1>4, <1>13 DEF Calm, Unread, Unanswered
<1>15. Running' => shown' = [i \in 1..job'.n |-> i]
  <2> SUFFICES ASSUME fault' = "none" PROVE shown = [i \in 1..job.n |-> i]
    BY <1>4, <1>6 DEF Running
  <2>1. tx.underflow = 0
    BY <1>3, <1>13
  <2>2. ~Clearing(todo) /\ ~Setting(todo)
    BY <1>13 DEF Calm, Clearing, Setting, Sets
  <2>3. Len(shown) + tx.count = job.n
    BY <1>1, <1>10, <2>2 DEF Ledger, Accounts
  <2>4. \A i \in 1..Len(shown) : shown[i] = i
    BY <1>1, <2>1, <2>2 DEF Ledger, Seamless
  <2>5. shown \in Seq(0..Capacity)
    BY <1>1 DEF Typing
  <2>6. Len(shown) = job.n
    <3>1. Len(shown) \in Nat
      BY <2>5, Bare
    <3>2. QED
      BY <1>13, <2>3, <3>1
  <2>7. job.n \in Nat
    BY <2>5, <2>6, Bare
  <2>8. QED
    BY <2>4, <2>5, <2>6, <2>7, Counting
<1>16. Waiting'
  BY <1>5, <1>8, <1>14, <1>15 DEF Waiting
<1>17. QED
  BY <1>5, <1>7, <1>9, <1>11, <1>16 DEF IInv

(* While a send is on, nothing is read and nobody has waited for it.       *)
LEMMA WaitingSends ==
  ASSUME Typing, Waiting, Place \notin Polls, Place' \in Sends, ~job'.awaited,
         coming' = coming, NEW r \in Seq(Request), todo' = todo \o r,
         \A i \in 1..Len(r) : r[i].op # "read"
  PROVE  Waiting'
<1>1. Place' \notin Polls /\ Place' # "ask"
  BY DEF Sends, Polls
<1>2. Unread /\ Unanswered
  BY DEF Waiting
<1>3. Unanswered'
  BY <1>2 DEF Unanswered
<1>4. Unread'
  <2>1. /\ Len(todo') = Len(todo) + Len(r) /\ Len(todo) \in Nat /\ Len(r) \in Nat
        /\ \A i \in 1..Len(todo) : todo'[i] = todo[i]
        /\ \A i \in 1..Len(r) : todo'[Len(todo) + i] = r[i]
    BY Joined DEF Typing
  <2>2. \A i \in 1..Len(todo') :
          i \in 1..Len(todo) \/ (i - Len(todo) \in 1..Len(r) /\ Len(todo) + (i - Len(todo)) = i)
    BY <2>1
  <2>3. QED
    BY <1>2, <2>1, <2>2 DEF Unread
<1>5. QED
  BY <1>1, <1>3, <1>4 DEF Waiting

(* tx_send asks for the three requests of a preparation and takes the      *)
(* samples.                                                                *)
LEMMA PrepareKeeps ==
  ASSUME IInv, NEW s \in Senders, Prepare(s)
  PROVE  IInv'
<1>1. Typing /\ Turns /\ Stages /\ Rest /\ Ledger /\ Waiting
  BY DEF IInv
<1> DEFINE a == [pc |-> "prepared", of |-> at[s].of, n |-> at[s].n]
<1>2. "prepared" \in Places /\ {"prepare", "prepared"} \subseteq Holds
  BY DEF Places, Holds, Sends, Polls
<1>3. /\ Go(s, "prepare", "prepared") /\ lock' = s
      /\ mem' = [count |-> at[s].n, underflow |-> 0]
      /\ job' = [n |-> at[s].n, awaited |-> FALSE]
      /\ UNCHANGED <<seen, local, started, txLock, fault>>
  BY DEF Prepare, Take, driver
<1>4. Ask(Prepares)
  BY DEF Prepare, Prepares, Zero
<1>5. /\ at[s].pc = "prepare" /\ at[s] \in Stand /\ a \in Stand
      /\ a.pc = "prepared" /\ a.n = at[s].n
      /\ at' = [at EXCEPT ![s] = a] /\ UNCHANGED <<tx, data, shown>>
  BY <1>1, <1>2, <1>3, Went
<1> HIDE DEF a
<1>6. at[s].n # 0 /\ at[s].n \in Counts \cup {0} /\ at[s].n \in Nat
  <2>1. at[s].n # 0
    BY <1>1, <1>5 DEF Turns
  <2>2. at[s].n \in Counts \cup {0}
    BY <1>5 DEF Stand
  <2>3. QED
    BY <2>1, <2>2, Sizes
<1>7. /\ at' \in [Senders -> Stand] /\ Turns' /\ Place = "prepare" /\ Place' = "prepared"
      /\ Wanted' = at[s].n
  BY <1>1, <1>2, <1>3, <1>5, <1>6, Inside, ZenonT(40)
<1>8. todo \in Seq(Request) /\ Prepares \in Seq(Request)
  BY <1>1, Renewed DEF Typing
<1>9. /\ todo' = todo \o Prepares /\ coming' = coming /\ todo' \in Seq(Request)
      /\ Buffered' < Heads
  BY <1>1, <1>4, <1>8, Requested
<1>10. /\ mem' \in [count : Nat, underflow : Nat] /\ mem'.count = at[s].n
       /\ job' \in [n : Counts \cup {0}, awaited : BOOLEAN]
       /\ job'.n = at[s].n /\ ~job'.awaited
  BY <1>3, <1>6
<1>11. Typing'
  BY <1>1, <1>3, <1>5, <1>7, <1>9, <1>10, SenderTyped DEF Typing
<1>12. Place' \in Sends /\ Place \notin Sends /\ Place \notin Polls /\ Place' \notin Polls \cup {"ask"}
  BY <1>7 DEF Sends, Polls
<1>13. Stages'
  BY <1>6, <1>7, <1>10, <1>12 DEF Stages
<1>14. Rest'
  BY <1>7, <1>10 DEF Rest
<1>15. Unset' /\ Following' = 1
  <2>1. Left' = job'.n
    BY <1>7 DEF Left
  <2>2. Following' = job'.n - job'.n + 1
    BY <2>1 DEF Following
  <2>3. QED
    BY <1>6, <1>7, <1>10, <2>2 DEF Unset
<1>16. Clearing(todo')
  BY <1>8, <1>9, Renewed
<1>17. Ledger'
  <2>1. Preparation /\ Fits
    BY <1>1 DEF Ledger
  <2>2. Preparation'
    <3>1. Ordered(todo') /\ \A i \in {1, 2} : IsClear(todo', i) => IsClear(todo, i)
      BY <1>8, <1>9, <2>1, OrderedRenewed DEF Preparation
    <3>2. QED
      BY <1>5, <2>1, <3>1 DEF Preparation
  <2>3. Fits'
    <3>1. \A i \in 1..Len(Prepares) : Prepares[i].op # "part"
      <4>1. Len(Prepares) = 3 /\ \A i \in 1..3 : i = 1 \/ i = 2 \/ i = 3
        BY DEF Prepares
      <4>2. Prepares[1].op # "part" /\ Prepares[2].op # "part" /\ Prepares[3].op # "part"
        BY DEF Prepares, Zero
      <4>3. QED
        BY <4>1, <4>2
    <3>2. RoomFor(todo', Len(data)) /\ Rising(todo')
      BY <1>8, <1>9, <2>1, <3>1, RoomAdded, RisingAdded DEF Fits
    <3>3. Below(todo', Following')
      BY <1>8, <1>9, BelowRenewed
    <3>4. QED
      BY <1>5, <1>16, <3>2, <3>3 DEF Fits
  <2>4. Accounts'
    <3>1. ~Setting(todo') /\ SetsTo(todo', job'.n) /\ SetsOnce(todo')
      BY <1>8, <1>9, SetsRenewed
    <3>2. QED
      BY <1>15, <1>16, <3>1 DEF Accounts
  <2>5. Seamless'
    <3>1. Mark' = 1 /\ Linked(todo', 1)
      BY <1>8, <1>9, <1>16, LinkedRenewed DEF Mark
    <3>2. Reached(todo', 1, Following')
      BY <1>15 DEF Reached
    <3>3. QED
      BY <1>16, <3>1, <3>2 DEF Seamless
  <2>6. QED
    BY <2>2, <2>3, <2>4, <2>5 DEF Ledger
<1>18. Waiting'
  <2>1. \A i \in 1..Len(Prepares) : Prepares[i].op # "read"
    <3>1. Len(Prepares) = 3 /\ \A i \in 1..3 : i = 1 \/ i = 2 \/ i = 3
      BY DEF Prepares
    <3>2. Prepares[1].op # "read" /\ Prepares[2].op # "read" /\ Prepares[3].op # "read"
      BY DEF Prepares, Zero
    <3>3. QED
      BY <3>1, <3>2
  <2>2. QED
    BY <1>1, <1>8, <1>9, <1>10, <1>12, <2>1, WaitingSends
<1>19. QED
  BY <1>7, <1>11, <1>13, <1>14, <1>17, <1>18 DEF IInv

(* The samples are in the local buffer.                                    *)
LEMMA PreparedKeeps ==
  ASSUME IInv, NEW s \in Senders, Prepared(s)
  PROVE  IInv'
<1>1. Typing /\ Turns /\ Stages /\ Rest /\ Ledger /\ Waiting
  BY DEF IInv
<1> DEFINE a == [pc |-> "send", of |-> at[s].of, n |-> at[s].n]
           n == at[s].n
<1>2. "send" \in Places /\ {"prepared", "send"} \subseteq Holds
  BY DEF Places, Holds, Sends, Polls
<1>3. /\ Go(s, "prepared", "send") /\ lock' = Nobody
      /\ local' = [i \in 1..n |-> i]
      /\ UNCHANGED <<todo, coming, mem, seen, started, txLock, job, fault>>
  BY DEF Prepared, link, copies
<1>4. /\ at[s].pc = "prepared" /\ at[s] \in Stand /\ a \in Stand
      /\ a.pc = "send" /\ a.n = at[s].n
      /\ at' = [at EXCEPT ![s] = a] /\ UNCHANGED <<tx, data, shown>>
  BY <1>1, <1>2, <1>3, Went
<1>5. n # 0 /\ n \in Nat /\ n <= Capacity
  <2>1. n # 0
    BY <1>1, <1>4 DEF Turns, Sends
  <2>2. n \in Counts \cup {0}
    BY <1>4 DEF Stand
  <2> HIDE DEF n
  <2>3. n \in 1..Capacity
    BY <2>1, <2>2, Sizes
  <2>4. QED
    BY <2>3, Sizes
<1> HIDE DEF a
<1>6. /\ at' \in [Senders -> Stand] /\ Turns' /\ Place = "prepared" /\ Place' = "send"
      /\ Wanted = n /\ Wanted' = n
  BY <1>1, <1>2, <1>3, <1>4, <1>5, Inside, ZenonT(40)
<1> HIDE DEF n
<1>7. local' \in Seq(Samples) /\ Len(local') = n /\ \A i \in 1..n : local'[i] = i
  BY <1>3, <1>5, NumbersTo, Sizes
<1>8. Typing'
  <2>1. Buffered' < Heads
    BY <1>1, <1>3 DEF Typing, Buffered, Answers
  <2>2. QED
    BY <1>1, <1>3, <1>4, <1>6, <1>7, <2>1, SenderTyped DEF Typing
<1>9. Place \in Sends /\ Place' \in Sends /\ Place \notin Polls /\ Place' \notin Polls \cup {"ask"}
  BY <1>6 DEF Sends, Polls
<1>10. job.n = n /\ ~job.awaited /\ mem.count = n
  BY <1>1, <1>6, <1>9 DEF Stages, Rest
<1>11. Stages'
  BY <1>1, <1>3, <1>6, <1>9, <1>10 DEF Stages
<1>12. Rest'
  <2>1. \A i \in 1..n : local'[i] = n - n + i
    BY <1>5, <1>7
  <2>2. local' # <<>>
    <3>1. Len(<<>>) = 0
      OBVIOUS
    <3>2. QED
      BY <1>5, <1>7, <3>1
  <2>3. n <= n
    BY <1>5
  <2>4. QED
    BY <1>3, <1>6, <1>7, <1>10, <2>1, <2>2, <2>3 DEF Rest
<1>13. Ledger'
  <2>1. Unset /\ Unset'
    BY <1>3, <1>6, <1>7, <1>10 DEF Unset
  <2>2. Following' = Following
    BY <1>3, <1>6, <1>7, <1>10 DEF Following, Left
  <2>3. QED
    BY <1>1, <1>3, <1>4, <1>9, <2>1, <2>2, SameKeeps
<1>14. Waiting'
  BY <1>1, <1>3, <1>4, <1>9, WaitingKept
<1>15. QED
  BY <1>6, <1>8, <1>11, <1>12, <1>13, <1>14 DEF IInv

(* A part is a piece of what is left: it begins with what follows.         *)
LEMMA PieceOf ==
  ASSUME NEW q \in Seq(Samples), q # <<>>, NEW m \in Nat, Len(q) <= m,
         \A i \in 1..Len(q) : q[i] = m - Len(q) + i
  PROVE  LET n == Min({Part, Len(q)})
             p == [op |-> "part", n |-> SubSeq(q, 1, n)]
             t == SubSeq(q, n + 1, Len(q))
         IN  /\ p \in Request /\ p.op = "part"
             /\ t \in Seq(Samples) /\ Len(t) < m
             /\ \A i \in 1..Len(t) : t[i] = m - Len(t) + i
             /\ Start(p) = m - Len(q) + 1 /\ End(p) = m - Len(t) + 1
<1> DEFINE n == Min({Part, Len(q)})
           p == [op |-> "part", n |-> SubSeq(q, 1, n)]
           t == SubSeq(q, n + 1, Len(q))
           l == Len(q)
<1>1. l \in Nat /\ l # 0
  BY Bare
<1>2. n \in Nat /\ n # 0 /\ n <= l
  <2>1. Part \in Nat /\ Part # 0
    BY Sizes
  <2>2. n \in {Part, l} /\ n <= Part /\ n <= l
    BY <1>1, <2>1, SmallerOf
  <2>3. QED
    BY <1>1, <2>1, <2>2
<1> HIDE DEF n
<1>3. /\ SubSeq(q, 1, n) \in Seq(Samples) /\ Len(SubSeq(q, 1, n)) = n
      /\ \A i \in 1..n : SubSeq(q, 1, n)[i] = q[i]
      /\ t \in Seq(Samples) /\ Len(t) = l - n
      /\ \A i \in 1..(l - n) : t[i] = q[n + i]
  BY <1>2, Cut
<1> HIDE DEF t, l
<1>4. q[1] = m - l + 1 /\ \A i \in 1..l : q[i] = m - l + i
  <2>1. \A i \in 1..l : q[i] = m - l + i
    BY DEF l
  <2>2. 1 \in 1..l
    BY <1>1
  <2>3. QED
    BY <2>1, <2>2
<1>5. \A i \in 1..n : SubSeq(q, 1, n)[i] = SubSeq(q, 1, n)[1] + i - 1
  <2>1. 1 \in 1..n /\ \A i \in 1..n : i \in 1..l
    BY <1>1, <1>2
  <2>2. SubSeq(q, 1, n)[1] = m - l + 1 /\ \A i \in 1..n : SubSeq(q, 1, n)[i] = m - l + i
    BY <1>3, <1>4, <2>1
  <2>3. \A i \in 1..n : m - l + i = (m - l + 1) + i - 1
    BY <1>1
  <2>4. QED
    BY <2>2, <2>3
<1>6. SubSeq(q, 1, n) \in Piece
  <2>1. SubSeq(q, 1, n) # <<>>
    <3>1. Len(<<>>) = 0
      OBVIOUS
    <3>2. QED
      BY <1>2, <1>3, <3>1
  <2>2. QED
    BY <1>3, <1>5, <2>1 DEF Piece
<1>7. p \in Request /\ p.op = "part" /\ p.n = SubSeq(q, 1, n)
  BY <1>6 DEF Request
<1> HIDE DEF p
<1>8. Start(p) = m - l + 1 /\ End(p) = m - Len(t) + 1
  <2>1. p.n[1] = q[1] /\ Len(p.n) = n
    <3>1. 1 \in 1..n
      BY <1>2
    <3>2. QED
      BY <1>3, <1>7, <3>1
  <2>2. Start(p) = m - l + 1 /\ End(p) = (m - l + 1) + n
    BY <1>4, <2>1 DEF Start, End
  <2>3. (m - l + 1) + n = m - (l - n) + 1
    BY <1>1, <1>2
  <2>4. QED
    BY <1>3, <2>2, <2>3
<1>9. \A i \in 1..Len(t) : t[i] = m - Len(t) + i
  <2>1. \A i \in 1..(l - n) : n + i \in 1..l /\ m - l + (n + i) = m - (l - n) + i
    BY <1>1, <1>2
  <2>2. QED
    BY <1>3, <1>4, <2>1
<1>10. Len(t) < m
  <2>1. l <= m
    BY DEF l
  <2>2. QED
    BY <1>1, <1>2, <1>3, <2>1
<1>11. QED
  BY <1>3, <1>7, <1>8, <1>9, <1>10 DEF n, p, t, l

(* The next part is sent and taken out of the local buffer.                *)
LEMMA SendPartKeeps ==
  ASSUME IInv, NEW s \in Senders, SendPart(s)
  PROVE  IInv'
<1>1. Typing /\ Turns /\ Stages /\ Rest /\ Ledger /\ Waiting
  BY DEF IInv
<1> DEFINE n == Min({Part, Len(local)})
           p == [op |-> "part", n |-> SubSeq(local, 1, n)]
<1>2. PICK to \in {"sent", "counted"} : Go(s, "send", to) /\ (to = "sent" <=> Len(local) = at[s].n)
  BY DEF SendPart, First
<1>3. /\ lock' = s /\ Ask(<<p>>) /\ local' = SubSeq(local, n + 1, Len(local))
      /\ UNCHANGED <<mem, seen, started, txLock, job, fault>>
  BY DEF SendPart, Take, copies
<1> DEFINE a == [pc |-> to, of |-> at[s].of, n |-> at[s].n]
<1>4. to \in Places /\ {to, "send"} \subseteq Holds /\ to \in Sends
  BY <1>2 DEF Places, Holds, Sends, Polls
<1>5. /\ at[s].pc = "send" /\ a \in Stand /\ a.pc = to /\ a.n = at[s].n
      /\ at' = [at EXCEPT ![s] = a] /\ UNCHANGED <<tx, data, shown>>
  BY <1>1, <1>2, <1>4, Went
<1> HIDE DEF a
<1>6. at[s].n # 0
  BY <1>1, <1>5 DEF Turns, Sends
<1>7. /\ at' \in [Senders -> Stand] /\ Turns' /\ Place = "send" /\ Place' = to
      /\ Wanted = at[s].n /\ Wanted' = Wanted
  BY <1>1, <1>3, <1>4, <1>5, <1>6, Inside
<1>8. /\ Place \in Sends /\ Place' \in Sends
      /\ Place \notin Polls /\ Place' \notin Polls \cup {"ask"}
  BY <1>4, <1>7 DEF Sends, Polls
<1>9. /\ job.n = at[s].n /\ ~job.awaited /\ mem.count = job.n
      /\ local # <<>> /\ Len(local) <= job.n
      /\ \A i \in 1..Len(local) : local[i] = job.n - Len(local) + i
  BY <1>1, <1>7, <1>8 DEF Stages, Rest
<1>10. job.n \in Nat /\ local \in Seq(Samples)
  <2>1. job.n \in Counts \cup {0} /\ local \in Seq(Samples)
    BY <1>1 DEF Typing
  <2>2. QED
    BY <2>1, Sizes
<1>11. /\ p \in Request /\ p.op = "part"
       /\ local' \in Seq(Samples) /\ Len(local') < job.n
       /\ \A i \in 1..Len(local') : local'[i] = job.n - Len(local') + i
       /\ Start(p) = job.n - Len(local) + 1 /\ End(p) = job.n - Len(local') + 1
  BY <1>3, <1>9, <1>10, PieceOf
<1> HIDE DEF n, p
<1>12. <<p>> \in Seq(Request) /\ Len(<<p>>) = 1 /\ <<p>>[1] = p
  BY <1>11
<1>13. /\ todo' = todo \o <<p>> /\ coming' = coming /\ todo' \in Seq(Request)
       /\ Buffered' < Heads /\ todo \in Seq(Request)
  BY <1>1, <1>3, <1>12, Requested DEF Typing
<1>14. Typing'
  BY <1>1, <1>3, <1>5, <1>7, <1>11, <1>13, SenderTyped DEF Typing
<1>15. Stages'
  BY <1>1, <1>3, <1>7, <1>8, <1>9 DEF Stages
<1>16. Rest'
  <2>1. Len(local') <= job.n
    <3>1. Len(local') \in Nat
      BY <1>11, Bare
    <3>2. QED
      BY <1>10, <1>11, <3>1
  <2>2. Place' # "send"
    BY <1>2, <1>7
  <2>3. QED
    BY <1>3, <1>9, <1>11, <2>1, <2>2 DEF Rest
<1>17. Following = Start(p) /\ Following' = End(p)
  BY <1>2, <1>3, <1>7, <1>11 DEF Following, Left
<1>18. Unset' <=> Unset
  BY <1>2, <1>7, <1>9 DEF Unset
<1>19. Clearing(todo') <=> Clearing(todo)
  <2>1. \A i \in 1..Len(<<p>>) : <<p>>[i].op # "clear"
    BY <1>11, <1>12
  <2>2. QED
    BY <1>12, <1>13, <2>1, Lengthened
<1>20. Ledger'
  <2>1. Preparation /\ Fits /\ Accounts /\ Seamless
    BY <1>1 DEF Ledger
  <2>2. Preparation'
    <3>1. \A i \in 1..Len(<<p>>) :
            <<p>>[i].op \notin {"clear", "set_underflow"} /\ <<p>>[i] # Zero
      <4>1. p # Zero
        BY <1>11 DEF Zero
      <4>2. QED
        BY <1>11, <1>12, <4>1
    <3>2. Ordered(todo') /\ \A i \in {1, 2} : IsClear(todo', i) => IsClear(todo, i)
      <4>1. Ordered(todo)
        BY <2>1 DEF Preparation
      <4>2. /\ Ordered(todo \o <<p>>)
            /\ \A i \in {1, 2} : IsClear(todo \o <<p>>, i) => IsClear(todo, i)
        BY <1>12, <1>13, <3>1, <4>1, OrderedAdded, Zenon
      <4>3. QED
        BY <1>13, <4>2
    <3>3. QED
      BY <1>5, <2>1, <3>2 DEF Preparation
  <2>3. Fits'
    <3>1. /\ RoomFor(todo, Len(data)) /\ Rising(todo) /\ Below(todo, Start(p))
          /\ Clearing(todo) \/ Len(data) < Start(p)
      BY <1>8, <1>17, <2>1 DEF Fits
    <3>2. Len(data) \in Nat
      BY <1>1, Bare DEF Typing
    <3>3. RoomFor(todo', Len(data)) /\ Rising(todo') /\ Below(todo', End(p))
      BY <1>11, <1>13, <3>1, <3>2, PartAdded
    <3>4. Clearing(todo') \/ Len(data) < End(p)
      <4>1. Start(p) \in Nat /\ End(p) = Start(p) + Len(p.n) /\ Len(p.n) \in Nat
        BY <1>11, PartIs
      <4>2. QED
        BY <1>19, <3>1, <3>2, <4>1
    <3>5. QED
      BY <1>5, <1>17, <3>3, <3>4 DEF Fits
  <2>4. Accounts'
    <3>1. \A i \in 1..Len(<<p>>) : <<p>>[i].op \notin {"set_count", "clear"}
      BY <1>11, <1>12
    <3>2. (Setting(todo') <=> Setting(todo)) /\ SetsTo(todo', job.n) /\ SetsOnce(todo')
      BY <1>12, <1>13, <2>1, <3>1, SetsAdded DEF Accounts
    <3>3. QED
      BY <1>3, <1>5, <1>18, <1>19, <2>1, <3>2 DEF Accounts
  <2>5. Seamless'
    <3>1. Mark' = Mark
      BY <1>5, <1>19 DEF Mark
    <3>2. ASSUME Clearing(todo) \/ tx.underflow = 0
          PROVE  Linked(todo', Mark) /\ Reached(todo', Mark, End(p))
      <4>1. Linked(todo, Mark) /\ Reached(todo, Mark, Start(p))
        BY <1>8, <1>17, <2>1, <3>2 DEF Seamless
      <4>2. QED
        BY <1>11, <1>13, <4>1, LinkedNext
    <3>3. QED
      BY <1>5, <1>17, <1>19, <2>1, <3>1, <3>2 DEF Seamless
  <2>6. QED
    BY <2>2, <2>3, <2>4, <2>5 DEF Ledger
<1>21. Waiting'
  <2>1. \A i \in 1..Len(<<p>>) : <<p>>[i].op # "read"
    BY <1>11, <1>12
  <2>2. QED
    BY <1>1, <1>3, <1>8, <1>9, <1>12, <1>13, <2>1, WaitingSends
<1>22. QED
  BY <1>7, <1>14, <1>15, <1>16, <1>20, <1>21 DEF IInv

(* After the first part the count is written.                              *)
LEMMA WriteCountKeeps ==
  ASSUME IInv, NEW s \in Senders, WriteCount(s)
  PROVE  IInv'
<1>1. Typing /\ Turns /\ Stages /\ Rest /\ Ledger /\ Waiting
  BY DEF IInv
<1> DEFINE p == [op |-> "set_count", n |-> mem.count]
           a == [pc |-> "counted", of |-> at[s].of, n |-> at[s].n]
<1>2. "counted" \in Places /\ {"counted", "sent"} \subseteq Holds /\ "counted" \in Sends
  BY DEF Places, Holds, Sends, Polls
<1>3. /\ Go(s, "sent", "counted") /\ Ask(<<p>>)
      /\ UNCHANGED <<mem, seen, local, started, lock, txLock, job, fault>>
  BY DEF WriteCount, copies, driver
<1>4. /\ at[s].pc = "sent" /\ at[s] \in Stand /\ a \in Stand /\ a.pc = "counted" /\ a.n = at[s].n
      /\ at' = [at EXCEPT ![s] = a] /\ UNCHANGED <<tx, data, shown>>
  BY <1>1, <1>2, <1>3, Went
<1> HIDE DEF a
<1>5. at[s].n # 0
  BY <1>1, <1>4 DEF Turns, Sends
<1>6. /\ at' \in [Senders -> Stand] /\ Turns' /\ Place = "sent" /\ Place' = "counted"
      /\ Wanted = at[s].n /\ Wanted' = Wanted
  BY <1>1, <1>2, <1>3, <1>4, <1>5, Inside
<1>7. /\ Place \in Sends /\ Place' \in Sends
      /\ Place \notin Polls /\ Place' \notin Polls \cup {"ask"}
  BY <1>2, <1>6 DEF Sends, Polls
<1>8. /\ job.n = at[s].n /\ ~job.awaited /\ mem.count = job.n
      /\ Len(local) <= job.n /\ Len(local) < job.n
      /\ \A i \in 1..Len(local) : local[i] = job.n - Len(local) + i
  BY <1>1, <1>6, <1>7 DEF Stages, Rest
<1>9. mem.count \in 0..Capacity /\ mem.count # 0
  <2>1. job.n \in Counts
    BY <1>1, <1>5, <1>8 DEF Typing
  <2>2. job.n \in 0..Capacity
    BY <2>1, Sizes
  <2>3. QED
    BY <1>5, <1>8, <2>2
<1>10. p \in Request /\ p.op = "set_count" /\ p.n = job.n /\ p # Zero
  <2>1. p \in Request
    BY <1>9 DEF Request
  <2>2. p.n # Zero.n
    BY <1>9 DEF Zero
  <2>3. QED
    BY <1>8, <2>1, <2>2
<1> HIDE DEF p
<1>11. <<p>> \in Seq(Request) /\ Len(<<p>>) = 1 /\ <<p>>[1] = p
  BY <1>10
<1>12. \A i \in 1..Len(<<p>>) : <<p>>[i].op = "set_count" /\ <<p>>[i] # Zero
  BY <1>10, <1>11
<1>13. /\ todo' = todo \o <<p>> /\ coming' = coming /\ todo' \in Seq(Request)
       /\ Buffered' < Heads /\ todo \in Seq(Request)
  BY <1>1, <1>3, <1>11, Requested DEF Typing
<1>14. Typing'
  BY <1>1, <1>3, <1>4, <1>6, <1>13, SenderTyped DEF Typing
<1>15. Stages'
  BY <1>1, <1>3, <1>6, <1>7, <1>8 DEF Stages
<1>16. Rest'
  BY <1>3, <1>6, <1>8 DEF Rest
<1>17. Following' = Following /\ Unset /\ ~Unset'
  BY <1>3, <1>6 DEF Following, Left, Unset
<1>18. Clearing(todo') <=> Clearing(todo)
  BY <1>11, <1>12, <1>13, Lengthened
<1>19. Ledger'
  <2>1. Preparation /\ Fits /\ Accounts /\ Seamless
    BY <1>1 DEF Ledger
  <2>2. Preparation'
    <3>1. Ordered(todo') /\ \A i \in {1, 2} : IsClear(todo', i) => IsClear(todo, i)
      <4>1. \A i \in 1..Len(<<p>>) :
              <<p>>[i].op \notin {"clear", "set_underflow"} /\ <<p>>[i] # Zero
        BY <1>12
      <4>2. Ordered(todo)
        BY <2>1 DEF Preparation
      <4>3. /\ Ordered(todo \o <<p>>)
            /\ \A i \in {1, 2} : IsClear(todo \o <<p>>, i) => IsClear(todo, i)
        BY <1>11, <1>13, <4>1, <4>2, OrderedAdded, Zenon
      <4>4. QED
        BY <1>13, <4>3
    <3>2. QED
      BY <1>4, <2>1, <3>1 DEF Preparation
  <2>3. Fits'
    <3>1. RoomFor(todo', Len(data)) /\ Rising(todo')
      BY <1>11, <1>12, <1>13, <2>1, RoomAdded, RisingAdded DEF Fits
    <3>2. Below(todo, Following) => Below(todo', Following)
      BY <1>11, <1>12, <1>13, BelowAdded
    <3>3. QED
      BY <1>4, <1>7, <1>17, <1>18, <2>1, <3>1, <3>2 DEF Fits
  <2>4. Accounts'
    <3>1. Setting(todo') /\ SetsTo(todo', job.n) /\ SetsOnce(todo')
      <4>1. ~Setting(todo)
        BY <1>17, <2>1 DEF Accounts
      <4>2. QED
        BY <1>10, <1>13, <4>1, SetsNext
    <3>2. ~Clearing(todo) => tx.count = 0 /\ shown = <<>> /\ tx.underflow = 0
      BY <1>17, <2>1 DEF Accounts
    <3>3. QED
      BY <1>3, <1>4, <1>17, <1>18, <3>1, <3>2 DEF Accounts
  <2>5. Seamless'
    <3>1. Mark' = Mark
      BY <1>4, <1>18 DEF Mark
    <3>2. \A m : /\ Linked(todo, Mark) => Linked(todo', Mark)
                 /\ Reached(todo, Mark, m) => Reached(todo', Mark, m)
      BY <1>11, <1>12, <1>13, LinkedAdded
    <3>3. QED
      BY <1>4, <1>7, <1>17, <1>18, <2>1, <3>1, <3>2 DEF Seamless
  <2>6. QED
    BY <2>2, <2>3, <2>4, <2>5 DEF Ledger
<1>20. Waiting'
  BY <1>1, <1>3, <1>7, <1>8, <1>11, <1>12, <1>13, WaitingSends
<1>21. QED
  BY <1>6, <1>14, <1>15, <1>16, <1>19, <1>20 DEF IInv

-----------------------------------------------------------------------------
(* What the threads do that goes no further: take in what has come.        *)

(* A message is taken in outside of a poll.                                *)
LEMMA HandleKeeps ==
  ASSUME IInv, TakeOne, UNCHANGED <<tx, data, local, started, txLock, at, job, shown, fault>>,
         lock' \in Senders \cup {Nobody, "rx"}
  PROVE  IInv'
<1>1. Typing /\ Turns /\ Stages /\ Rest /\ Ledger /\ Waiting
  BY DEF IInv
<1>2. /\ todo' = todo /\ coming' \in Seq(Message) /\ Buffered' < Heads
      /\ mem' \in [count : Nat, underflow : Nat]
      /\ seen' \in [count : Nat \cup {-1}, underflow : Nat \cup {-1}]
  BY <1>1, Taken
<1>3. Typing'
  BY <1>1, <1>2, SenderTyped DEF Typing
<1>4. Place' = Place /\ Of' = Of /\ Wanted' = Wanted /\ Left' = Left
  BY DEF Place, Of, Wanted, Left
<1>5. Following' = Following /\ (Unset' <=> Unset)
  BY <1>4 DEF Following, Unset
<1>6. Waiting' /\ (Place \notin Polls => mem' = mem)
  BY <1>1, <1>4, WaitingTaken
<1>7. Place \in Sends => Place \notin Polls
  BY DEF Sends, Polls
<1>8. Turns' /\ Stages'
  BY <1>1, <1>4 DEF Turns, Stages
<1>9. Rest'
  BY <1>1, <1>4, <1>6, <1>7 DEF Rest
<1>10. Ledger'
  BY <1>1, <1>2, <1>4, <1>5, SameKeeps
<1>11. QED
  BY <1>3, <1>6, <1>8, <1>9, <1>10 DEF IInv

(* The receiving thread's requests come behind those of a poll.            *)
LEMMA RxRestoreKeeps ==
  ASSUME IInv, RxRestore
  PROVE  IInv'
<1>1. Typing /\ Turns /\ Stages /\ Rest /\ Ledger /\ Waiting
  BY DEF IInv
<1> DEFINE r == [i \in 1..2 |-> [op |-> "other", n |-> 0]]
<1>2. /\ Ask(r)
      /\ UNCHANGED <<tx, data, mem, seen, local, started, txLock, at, job, shown, fault, lock>>
  BY DEF RxRestore, RxThread, board, driver, history, copies
<1>3. r \in Seq(Request) /\ Len(r) = 2 /\ \A i \in 1..Len(r) : r[i].op = "other"
  <2>1. [op |-> "other", n |-> 0] \in Request
    BY DEF Request
  <2>2. QED
    BY <2>1
<1> HIDE DEF r
<1>4. /\ todo' = todo \o r /\ coming' = coming /\ todo' \in Seq(Request)
      /\ Buffered' < Heads /\ todo \in Seq(Request)
  BY <1>1, <1>2, <1>3, Requested DEF Typing
<1>5. Typing'
  BY <1>1, <1>2, <1>4, SenderTyped DEF Typing
<1>6. Still
  BY <1>2 DEF Still
<1>7. /\ Place' = Place /\ Of' = Of /\ Following' = Following /\ (Unset' <=> Unset)
      /\ Turns' /\ Stages' /\ Rest'
  BY <1>1, <1>6, StillKeeps
<1>8. Ledger'
  <2>1. \A i \in 1..Len(r) : r[i].op \in {"read", "other"}
    BY <1>3
  <2>2. QED
    BY <1>1, <1>2, <1>3, <1>4, <1>7, <2>1, AddedKeeps
<1> DEFINE l == Len(todo)
<1>9. /\ l \in Nat /\ Len(todo') = l + Len(r) /\ Len(r) \in Nat
      /\ \A i \in 1..l : todo'[i] = todo[i]
      /\ \A i \in 1..Len(r) : todo'[l + i] = r[i]
  <2>1. r \in Seq(Request) /\ todo \in Seq(Request) /\ todo' = todo \o r
    BY <1>3, <1>4
  <2>2. ASSUME NEW p \in Seq(Request), NEW q \in Seq(Request), NEW u, u = p \o q
        PROVE  /\ Len(p) \in Nat /\ Len(u) = Len(p) + Len(q) /\ Len(q) \in Nat
               /\ \A i \in 1..Len(p) : u[i] = p[i]
               /\ \A i \in 1..Len(q) : u[Len(p) + i] = q[i]
    BY <2>2, Joined
  <2> HIDE DEF r
  <2>3. QED
    BY <2>1, <2>2 DEF l
<1> HIDE DEF l
<1>10. \A i \in 1..Len(todo') : i \in 1..l \/ (i \notin 1..l /\ todo'[i].op = "other")
  <2>1. \A i \in 1..Len(todo') : i \in 1..l \/ (i - l \in 1..Len(r) /\ l + (i - l) = i)
    BY <1>9
  <2>2. QED
    BY <1>3, <1>9, <2>1
<1>11. (Calm => Calm') /\ (Unread => Unread') /\ (Unanswered => Unanswered')
  <2>1. Calm => Calm'
    BY <1>9, <1>10 DEF Calm, l
  <2>2. Unread => Unread'
    BY <1>9, <1>10 DEF Unread, l
  <2>3. Unanswered => Unanswered'
    BY <1>4 DEF Unanswered
  <2>4. QED
    BY <2>1, <2>2, <2>3
<1>12. ASSUME ReadIsUnderWay PROVE ReadIsUnderWay'
  <2>1. PICK i \in 1..l :
          /\ todo[i] = [op |-> "read", n |-> Of]
          /\ \A k \in 1..(i - 1) : todo[k].op # "read"
          /\ \A k \in (i + 1)..l : todo[k].op = "other"
    BY <1>12 DEF ReadIsUnderWay, l
  <2>2. i \in 1..Len(todo') /\ todo'[i] = [op |-> "read", n |-> Of']
    BY <1>7, <1>9, <2>1
  <2>3. \A k \in 1..(i - 1) : todo'[k].op # "read"
    <3>1. \A k \in 1..(i - 1) : k \in 1..l
      BY <1>9
    <3>2. QED
      BY <1>9, <2>1, <3>1
  <2>4. \A k \in (i + 1)..Len(todo') : todo'[k].op = "other"
    <3>1. \A k \in (i + 1)..Len(todo') : k \in 1..Len(todo') /\ (k \in 1..l => k \in (i + 1)..l)
      BY <1>9
    <3>2. QED
      BY <1>9, <1>10, <2>1, <3>1
  <2>5. seen'[Of'] = -1 /\ Unanswered'
    BY <1>2, <1>7, <1>11, <1>12 DEF ReadIsUnderWay
  <2>6. QED
    BY <2>2, <2>3, <2>4, <2>5 DEF ReadIsUnderWay
<1>13. AnswerIsUnderWay => AnswerIsUnderWay'
  <2>1. coming' = coming /\ tx' = tx /\ seen' = seen /\ Of' = Of
    BY <1>2, <1>4, <1>7
  <2>2. QED
    BY <1>11, <2>1 DEF AnswerIsUnderWay, True
<1>14. AnswerIsHere => AnswerIsHere'
  BY <1>2, <1>7, <1>11 DEF AnswerIsHere, True
<1>15. Waiting'
  <2>1. IF Place' \in Polls THEN (ReadIsUnderWay \/ AnswerIsUnderWay \/ AnswerIsHere)'
                            ELSE Unread' /\ Unanswered'
    BY <1>1, <1>7, <1>11, <1>12, <1>13, <1>14 DEF Waiting
  <2>2. Place' \in Polls \cup {"ask"} /\ Of' = "underflow" =>
          tx'.count = 0 /\ \A i \in 1..Len(todo') : todo'[i].op \in {"read", "other"}
    <3> SUFFICES ASSUME Place \in Polls \cup {"ask"}, Of = "underflow"
                 PROVE  tx'.count = 0 /\ \A i \in 1..Len(todo') : todo'[i].op \in {"read", "other"}
      BY <1>7
    <3>1. tx.count = 0 /\ \A i \in 1..l : todo[i].op \in {"read", "other"}
      BY <1>1 DEF Waiting, l
    <3>2. QED
      BY <1>2, <1>9, <1>10, <3>1
  <2>3. job'.awaited => tx'.count = 0 /\ Calm' /\ (Running' => shown' = [i \in 1..job'.n |-> i])
    BY <1>1, <1>2, <1>11 DEF Waiting, Running
  <2>4. QED
    BY <2>1, <2>2, <2>3 DEF Waiting
<1>16. QED
  BY <1>5, <1>7, <1>8, <1>15 DEF IInv

(* The receiving thread takes or gives back softio.                        *)
LEMMA NothingKeeps ==
  ASSUME IInv, Quiet, UNCHANGED <<started, txLock, at>>, lock' \in Senders \cup {Nobody, "rx"}
  PROVE  IInv'
<1>1. Typing /\ Turns
  BY DEF IInv
<1>2. Typing'
  BY <1>1, QuietTyped DEF Typing
<1>3. Place' = Place /\ Of' = Of /\ Wanted' = Wanted /\ Turns'
  BY <1>1 DEF Place, Of, Wanted, Turns
<1>4. QED
  BY <1>2, <1>3, OutsideKeeps

-----------------------------------------------------------------------------
(* The invariant holds at the beginning, and every step preserves it. *)

(* The invariant holds before the first call.                              *)
LEMMA Begins ==
  ASSUME Init
  PROVE  IInv
<1>1. /\ tx = [count |-> 0, underflow |-> 0] /\ data = <<>> /\ todo = <<>> /\ coming = <<>>
      /\ mem = tx /\ seen = tx /\ local = <<>> /\ started = FALSE
      /\ lock = Nobody /\ txLock = Nobody
      /\ at = [s \in Senders |-> [pc |-> "idle", of |-> "count", n |-> 0]]
      /\ job = [n |-> 0, awaited |-> FALSE] /\ shown = <<>> /\ fault = "none"
  BY DEF Init
<1>2. Len(<<>>) = 0 /\ \A i \in 1..Len(<<>>) : FALSE
  OBVIOUS
<1>3. Typing
  <2>1. tx \in [count : 0..Capacity, underflow : Nat]
    BY <1>1, Sizes
  <2>2. data \in Seq(Samples) /\ local \in Seq(Samples) /\ shown \in Seq(0..Capacity)
    BY <1>1
  <2>3. todo \in Seq(Request) /\ coming \in Seq(Message)
    BY <1>1
  <2>4. Len(data) <= Capacity
    BY <1>1, <1>2, Sizes
  <2>5. Buffered < Heads
    <3>1. Answers = {}
      BY <1>1, <1>2 DEF Answers
    <3>2. Buffered = 0
      BY <1>1, <1>2, <3>1, FS_EmptySet DEF Buffered
    <3>3. QED
      BY <3>2, SizeAssumption
  <2>6. at \in [Senders -> Stand]
    <3>1. [pc |-> "idle", of |-> "count", n |-> 0] \in Stand
      BY DEF Stand, Places, Values
    <3>2. QED
      BY <1>1, <3>1
  <2>7. /\ mem \in [count : Nat, underflow : Nat]
        /\ seen \in [count : Nat \cup {-1}, underflow : Nat \cup {-1}]
        /\ job \in [n : Counts \cup {0}, awaited : BOOLEAN]
    BY <1>1
  <2>8. QED
    BY <1>1, <2>1, <2>2, <2>3, <2>4, <2>5, <2>6, <2>7 DEF Typing
<1>4. Place = "free" /\ "free" \notin Sends \cup Polls \cup {"ask"}
  BY <1>1 DEF Place, Sends, Polls
<1>5. Turns
  <2>1. \A s \in Senders : at[s].pc = "idle" /\ s # Nobody
    BY <1>1, SendersAssumption
  <2>2. "idle" \notin Holds /\ "idle" \notin Sends \cup {"enter", "prepare"}
    BY DEF Holds, Sends, Polls
  <2>3. QED
    BY <1>1, <2>1, <2>2 DEF Turns
<1>6. Stages /\ Rest
  BY <1>1, <1>4 DEF Stages, Rest, Sends
<1>7. ~Clearing(todo) /\ ~Setting(todo) /\ ~Unset
  BY <1>1, <1>2, <1>4 DEF Clearing, Setting, Unset
<1>8. Ledger
  <2>1. Preparation
    BY <1>1, <1>2 DEF Preparation, Ordered, IsClear
  <2>2. Fits
    BY <1>1, <1>2, <1>4 DEF Fits, RoomFor, Rising
  <2>3. Accounts
    BY <1>1, <1>2, <1>7 DEF Accounts, SetsTo, SetsOnce
  <2>4. Seamless
    BY <1>1, <1>2, <1>4, <1>7 DEF Seamless, Linked
  <2>5. QED
    BY <2>1, <2>2, <2>3, <2>4 DEF Ledger
<1>9. Waiting
  BY <1>1, <1>2, <1>4 DEF Waiting, Unread, Unanswered
<1>10. QED
  BY <1>3, <1>5, <1>6, <1>8, <1>9 DEF IInv

(* Every step of a sending thread keeps the invariant.                     *)
LEMMA SenderKeeps ==
  ASSUME IInv, NEW s \in Senders, Sender(s) \/ Handle(s)
  PROVE  IInv'
<1>1. CASE Sender(s)
  BY <1>1, BeginWaitKeeps, AskForKeeps, PollsKeep, WaitOneKeeps, CountedKeeps, FinishKeeps,
     WaitedKeeps, EnterKeeps, PrepareKeeps, PreparedKeeps, SendPartKeeps, WriteCountKeeps,
     PartSentKeeps, NextPartKeeps DEF Sender
<1>2. CASE Handle(s)
  <2>1. TakeOne /\ UNCHANGED <<tx, data, local, started, txLock, at, job, shown, fault, lock>>
    BY <1>2 DEF Handle, board, driver, history
  <2>2. lock \in Senders \cup {Nobody, "rx"}
    BY DEF IInv, Typing
  <2>3. QED
    BY <2>1, <2>2, HandleKeeps
<1>3. QED
  BY <1>1, <1>2

(* Every step of the receiving thread keeps the invariant.                 *)
LEMMA RxKeeps ==
  ASSUME IInv, RxEnter \/ RxRestore \/ RxHandle \/ RxLeave
  PROVE  IInv'
<1>1. lock \in Senders \cup {Nobody, "rx"}
  BY DEF IInv, Typing
<1>2. CASE RxEnter \/ RxLeave
  <2>1. Quiet /\ UNCHANGED <<started, txLock, at>> /\ lock' \in {"rx", Nobody}
    BY <1>2 DEF RxEnter, RxLeave, RxThread, Quiet, board, link, copies, driver, history
  <2>2. QED
    BY <2>1, NothingKeeps
<1>3. CASE RxHandle
  <2>1. TakeOne /\ UNCHANGED <<tx, data, local, started, txLock, at, job, shown, fault, lock>>
    BY <1>3 DEF RxHandle, RxThread, board, driver, history
  <2>2. QED
    BY <1>1, <2>1, HandleKeeps
<1>4. QED
  BY <1>2, <1>3, RxRestoreKeeps

(* Every step keeps the invariant.                                         *)
LEMMA Continues ==
  ASSUME IInv, [Next]_vars
  PROVE  IInv'
<1>1. CASE \E s \in Senders : \E n \in Counts \cup {0} : Call(s, n)
  BY <1>1, CallKeeps
<1>2. CASE \E s \in Senders : Handle(s) \/ Sender(s)
  BY <1>2, SenderKeeps
<1>3. CASE Serve \/ Push \/ Tick
  BY <1>3, ServeKeeps, PushKeeps, TickKeeps
<1>4. CASE RxEnter \/ RxRestore \/ RxHandle \/ RxLeave
  BY <1>4, RxKeeps
<1>5. CASE UNCHANGED vars
  <2>1. Quiet /\ UNCHANGED <<started, txLock, at, lock>>
    BY <1>5 DEF vars, Quiet, board, link, copies, driver, history
  <2>2. lock \in Senders \cup {Nobody, "rx"}
    BY DEF IInv, Typing
  <2>3. QED
    BY <2>1, <2>2, NothingKeeps
<1>6. QED
  BY <1>1, <1>2, <1>3, <1>4, <1>5 DEF Next

(* The inductive invariant holds in every state of the reader: the code    *)
(* that tx_lock protects is run by one thread, and requests, fifo,         *)
(* counters and answers under way agree with how far it has come           *)
(* (reader-H7xx-ex.h 532-598, reader-H7xx.h 645-709).                      *)
THEOREM Invariant == Spec => []IInv
BY Begins, Continues, PTL DEF Spec

(* Every variable keeps its type, for any number of sending threads; in    *)
(* particular the requests and answers never fill the ring of heads, and   *)
(* the parts never more than the fifo of the samples.                      *)
THEOREM TypeCorrect == Spec => []TypeOK
<1>1. IInv => TypeOK
  BY DEF IInv, Typing, TypeOK
<1>2. QED
  BY <1>1, Invariant, PTL

(* A send that tx_send has waited for was shown whole: as long as no error *)
(* was raised, the reader has put out the samples 1, 2, ... up to the      *)
(* count, each once, in order and without an underflow among them          *)
(* (tx_send, _tx_wait, reader-H7xx-ex.h 532-598; the timer, reader-H7xx.h  *)
(* 645-709).                                                               *)
THEOREM SendComplete == Spec => []SendIsComplete
<1>1. IInv => SendIsComplete
  BY DEF IInv, Waiting, SendIsComplete
<1>2. QED
  BY <1>1, Invariant, PTL
-----------------------------------------------------------------------------
(* One thread sends: no send is cut short.  Without another thread between *)
(* its wait and its taking of txLock, nothing of the last send is left     *)
(* when the next one is prepared (Spent).                                  *)

NoCount == \A i \in 1..Len(todo) : todo[i].op # "set_count"

(* The count of the send of s has not been written.                        *)
Uncounted(s) ==
  at[s].pc \in {"prepared", "sent"} \/ (at[s].pc = "send" /\ Len(local) = at[s].n)

Waitless == {"waited", "enter", "prepare"}

Spent(s) ==
  /\ NoCount \/ tx.count = 0
  /\ \A i \in 1..Len(todo) : \A j \in (i + 1)..Len(todo) :
       todo[i].op = "set_count" /\ todo[j].op = "set_count" => todo[i].n = 0
  /\ started \/ at[s].pc \in Sends \/ (tx.count = 0 /\ NoCount)
  /\ Uncounted(s) =>
       tx.count = 0 /\ \A i \in 1..Len(todo) : todo[i].op = "set_count" => todo[i].n = 0
  /\ at[s].pc \in Waitless => ~started

(* Nothing is requested.                                                   *)
LEMMA SpentSame ==
  ASSUME NEW s, Spent(s), UNCHANGED <<tx, todo>>, Uncounted(s)' => Uncounted(s),
         started' \/ at'[s].pc \in Sends \/ ~(started \/ at[s].pc \in Sends),
         at'[s].pc \in Waitless => ~started'
  PROVE  Spent(s)'
BY DEF Spent, NoCount

(* Requests that do not set tx.count are made.                             *)
LEMMA SpentAdded ==
  ASSUME NEW s, Typing, Spent(s), tx' = tx, Uncounted(s)' => Uncounted(s),
         started' \/ at'[s].pc \in Sends \/ ~(started \/ at[s].pc \in Sends),
         at'[s].pc \in Waitless => ~started',
         NEW r \in Seq(Request), todo' = todo \o r,
         \A i \in 1..Len(r) : r[i].op # "set_count"
  PROVE  Spent(s)'
<1> DEFINE l == Len(todo)
           u == todo'
<1>1. /\ l \in Nat /\ Len(u) = l + Len(r) /\ Len(r) \in Nat
      /\ \A i \in 1..l : u[i] = todo[i]
      /\ \A i \in 1..Len(r) : u[l + i] = r[i]
  <2>1. todo \in Seq(Request)
    BY DEF Typing
  <2>2. ASSUME NEW p \in Seq(Request), NEW q \in Seq(Request), NEW v, v = p \o q
        PROVE  /\ Len(p) \in Nat /\ Len(v) = Len(p) + Len(q) /\ Len(q) \in Nat
               /\ \A i \in 1..Len(p) : v[i] = p[i]
               /\ \A i \in 1..Len(q) : v[Len(p) + i] = q[i]
    BY <2>2, Joined
  <2>3. QED
    BY <2>1, <2>2
<1> HIDE DEF u
<1>2. \A i \in 1..Len(u) : u[i].op = "set_count" => i \in 1..l /\ u[i] = todo[i]
  <2>1. \A i \in 1..Len(u) : i \in 1..l \/ (i - l \in 1..Len(r) /\ l + (i - l) = i)
    BY <1>1
  <2>2. QED
    BY <1>1, <2>1, ZenonT(60)
<1>3. \A i \in 1..l : \A j \in 1..l : j \in (i + 1)..Len(u) => j \in (i + 1)..l
  BY <1>1
<1>4. (NoCount => NoCount') /\ tx' = tx
  BY <1>2 DEF NoCount, u
<1>5. \A i \in 1..Len(todo') : \A j \in (i + 1)..Len(todo') :
        todo'[i].op = "set_count" /\ todo'[j].op = "set_count" => todo'[i].n = 0
  <2>1. SUFFICES ASSUME NEW i \in 1..Len(u), NEW j \in (i + 1)..Len(u),
                        u[i].op = "set_count", u[j].op = "set_count"
                 PROVE  u[i].n = 0
    BY DEF u
  <2>2. j \in 1..Len(u)
    BY <1>1
  <2>3. i \in 1..l /\ j \in (i + 1)..l /\ todo[i] = u[i] /\ todo[j] = u[j]
    BY <1>2, <1>3, <2>1, <2>2
  <2>4. QED
    BY <2>1, <2>3 DEF Spent
<1>6. Uncounted(s)' =>
        \A i \in 1..Len(todo') : todo'[i].op = "set_count" => todo'[i].n = 0
  BY <1>2 DEF Spent, u
<1>7. QED
  BY <1>4, <1>5, <1>6 DEF Spent

(* The first request goes, and tx.count is what it was or is set.          *)
LEMMA SpentServed ==
  ASSUME NEW s, Typing, Spent(s), UNCHANGED <<at, started, local>>, todo # <<>>,
         todo' = Tail(todo), tx'.count \in Nat,
         IF todo[1].op = "set_count" THEN tx'.count = todo[1].n ELSE tx'.count = tx.count
  PROVE  Spent(s)'
<1> DEFINE t == todo'
<1>1. /\ Len(t) \in Nat /\ Len(t) = Len(todo) - 1 /\ Len(todo) \in Nat \ {0}
      /\ \A i \in 1..Len(t) : t[i] = todo[i + 1]
  <2>1. todo \in Seq(Request)
    BY DEF Typing
  <2>2. QED
    BY <2>1, TailOf
<1> HIDE DEF t
<1>2. \A i \in 1..Len(t) : i + 1 \in 1..Len(todo) /\ i + 1 \in 2..Len(todo)
  BY <1>1
<1>3. /\ NoCount => NoCount'
      /\ NoCount => todo[1].op # "set_count"
      /\ todo[1].op = "set_count" /\ ~NoCount' => todo[1].n = 0
  <2>1. 1 \in 1..Len(todo) /\ 1 + 1 = 2
    BY <1>1
  <2>2. ASSUME todo[1].op = "set_count", ~NoCount' PROVE todo[1].n = 0
    <3>1. PICK i \in 1..Len(t) : t[i].op = "set_count"
      BY <2>2 DEF NoCount, t
    <3>2. i + 1 \in (1 + 1)..Len(todo) /\ todo[i + 1].op = "set_count"
      BY <1>1, <1>2, <2>1, <3>1
    <3>3. QED
      BY <2>1, <2>2, <3>2 DEF Spent
  <2>3. NoCount => NoCount'
    BY <1>1, <1>2 DEF NoCount, t
  <2>4. QED
    BY <2>1, <2>2, <2>3 DEF NoCount
<1>4. \A i \in 1..Len(todo') : \A j \in (i + 1)..Len(todo') :
        todo'[i].op = "set_count" /\ todo'[j].op = "set_count" => todo'[i].n = 0
  <2>1. SUFFICES ASSUME NEW i \in 1..Len(t), NEW j \in (i + 1)..Len(t),
                        t[i].op = "set_count", t[j].op = "set_count"
                 PROVE  t[i].n = 0
    BY DEF t
  <2>2. j \in 1..Len(t) /\ j + 1 \in ((i + 1) + 1)..Len(todo)
    BY <1>1
  <2>3. t[i] = todo[i + 1] /\ t[j] = todo[j + 1] /\ i + 1 \in 1..Len(todo)
    BY <1>1, <1>2, <2>2
  <2>4. QED
    BY <2>1, <2>2, <2>3 DEF Spent
<1>5. Uncounted(s)' =>
        tx'.count = 0 /\ \A i \in 1..Len(todo') : todo'[i].op = "set_count" => todo'[i].n = 0
  <2>1. SUFFICES ASSUME Uncounted(s)'
                 PROVE  /\ tx'.count = 0
                        /\ \A i \in 1..Len(t) : t[i].op = "set_count" => t[i].n = 0
    BY DEF t
  <2>2. /\ tx.count = 0
        /\ \A i \in 1..Len(todo) : todo[i].op = "set_count" => todo[i].n = 0
    BY <2>1 DEF Spent, Uncounted
  <2>3. 1 \in 1..Len(todo)
    BY <1>1
  <2>4. QED
    BY <1>1, <1>2, <2>2, <2>3
<1>6. QED
  BY <1>3, <1>4, <1>5 DEF Spent

(* The timer ticks: a send is on whose count is set.                       *)
LEMMA SpentTicked ==
  ASSUME NEW s, Spent(s), UNCHANGED <<at, started, local, todo>>, tx.count # 0
  PROVE  Spent(s)'
BY DEF Spent, NoCount, Uncounted

(* The sender goes from one place to another.                              *)
LEMMA Moved ==
  ASSUME Typing, NEW s \in Senders, NEW from, NEW to, Go(s, from, to)
  PROVE  /\ at[s].pc = from /\ at'[s].pc = to /\ at'[s].n = at[s].n /\ at'[s].of = at[s].of
         /\ tx' = tx
<1>1. at \in [Senders -> Stand] /\ at[s] \in Stand
  BY DEF Typing
<1>2. at'[s] = [at[s] EXCEPT !.pc = to]
  BY <1>1 DEF Go
<1>3. at'[s].pc = to /\ at'[s].n = at[s].n /\ at'[s].of = at[s].of
  BY <1>1, <1>2 DEF Stand
<1>4. QED
  BY <1>3 DEF Go, board

(* What the sets of places hold. *)
LEMMA PlacesAre ==
  /\ {"prepared", "send", "sent", "counted", "throttle"} \subseteq Sends
  /\ \A p \in {"idle", "wait", "waited", "enter", "ask", "prepare", "asked", "test", "lock",
               "blocked"} : p \notin Sends
  /\ \A p \in {"idle", "wait", "ask", "asked", "test", "lock", "blocked", "prepared", "send",
               "sent", "counted", "throttle"} : p \notin Waitless
BY DEF Sends, Waitless

(* Before the first call nothing is left of a send.                        *)
LEMMA SpentBegins ==
  ASSUME Init, NEW s \in Senders
  PROVE  Spent(s)
<1>1. /\ tx = [count |-> 0, underflow |-> 0] /\ todo = <<>> /\ started = FALSE
      /\ at[s].pc = "idle"
  BY DEF Init
<1>2. \A i \in 1..Len(todo) : FALSE
  BY <1>1
<1>3. ~Uncounted(s) /\ "idle" \notin Waitless
  BY <1>1, PlacesAre DEF Uncounted
<1>4. QED
  BY <1>1, <1>2, <1>3 DEF Spent, NoCount

(* The board keeps it.                                                     *)
LEMMA SpentBoard ==
  ASSUME IInv, NEW s \in Senders, Spent(s), Serve \/ Push \/ Tick
  PROVE  Spent(s)' /\ (tx'.count # tx.count => tx.count = 0 \/ tx'.count = tx.count - 1)
<1>1. Typing /\ Fits /\ tx.count \in Nat
  BY Sizes DEF IInv, Ledger, Typing
<1>2. CASE SetCount
  <2>1. /\ Still /\ todo # <<>> /\ todo' = Tail(todo) /\ tx'.count = todo[1].n
        /\ todo[1].op = "set_count" /\ todo[1] \in Request
    BY <1>1, <1>2, SetCountStep
  <2>2. tx'.count \in Nat
    BY <2>1, Sizes, RequestIs
  <2>3. ~NoCount
    <3>1. 1 \in 1..Len(todo)
      BY <1>1, <2>1, TailOf DEF Typing
    <3>2. QED
      BY <2>1, <3>1 DEF NoCount
  <2>4. Spent(s)'
    BY <1>1, <2>1, <2>2, SpentServed DEF Still
  <2>5. QED
    BY <2>3, <2>4 DEF Spent
<1>3. CASE SetUnderflow \/ ClearFifo \/ WriteFifo \/ Read \/ Other
  <2>1. /\ Still /\ todo # <<>> /\ todo' = Tail(todo) /\ tx'.count = tx.count
        /\ todo[1].op # "set_count"
    BY <1>1, <1>3, SetUnderflowStep, ClearFifoStep, WriteFifoStep, ReadStep, OtherStep
  <2>2. Spent(s)'
    BY <1>1, <2>1, SpentServed DEF Still
  <2>3. QED
    BY <2>1, <2>2
<1>4. CASE Push
  <2>1. Still /\ todo' = todo /\ tx' = tx
    BY <1>1, <1>4, PushStep
  <2>2. UNCHANGED <<at, started, local>>
    BY <2>1 DEF Still
  <2>3. Uncounted(s)' => Uncounted(s)
    BY <2>2 DEF Uncounted
  <2>4. at[s].pc \in Waitless => ~started
    BY DEF Spent
  <2>5. Spent(s)'
    BY <2>1, <2>2, <2>3, <2>4, SpentSame
  <2>6. QED
    BY <2>1, <2>5
<1>5. CASE Tick
  <2>1. Still /\ todo' = todo /\ tx.count # 0 /\ tx'.count = tx.count - 1
    BY <1>1, <1>5, ShowStep, UnderflowStep DEF Tick
  <2>2. QED
    BY <2>1, SpentTicked DEF Still
<1>6. QED
  BY <1>2, <1>3, <1>4, <1>5 DEF Serve

(* The sender keeps it, if there is no other one.                          *)
LEMMA SpentSender ==
  ASSUME IInv, NEW s \in Senders, Spent(s), Sender(s) \/ Handle(s)
  PROVE  Spent(s)' /\ tx' = tx
<1>1. /\ Typing /\ Turns /\ Stages /\ Rest /\ Waiting /\ todo \in Seq(Request)
      /\ at[s].pc \in Waitless => ~started
  BY DEF IInv, Typing, Spent
<1>2. CASE BeginWait(s)
  <2>1. UNCHANGED <<todo, local, started>>
    BY <1>2 DEF BeginWait, link
  <2>2. PICK to \in {"ask", "waited"} : Go(s, "wait", to) /\ (to = "waited" => ~started)
    BY <1>2 DEF BeginWait
  <2>3. at[s].pc = "wait" /\ at'[s].pc = to /\ tx' = tx
    BY <1>1, <2>2, Moved
  <2>4. QED
    BY <2>1, <2>2, <2>3, PlacesAre, SpentSame DEF Uncounted
<1>3. CASE AskFor(s)
  <2> DEFINE r == <<[op |-> "read", n |-> at[s].of]>>
  <2>1. at[s].pc = "ask" /\ at'[s].pc = "asked" /\ tx' = tx
    BY <1>1, <1>3, Moved DEF AskFor
  <2>2. todo' = todo \o r /\ UNCHANGED <<local, started>>
    BY <1>3 DEF AskFor, Ask, driver
  <2>3. r \in Seq(Request) /\ \A i \in 1..Len(r) : r[i].op # "set_count"
    <3>1. [op |-> "read", n |-> at[s].of] \in Request
      BY <1>1 DEF Typing, Stand, Values, Request
    <3>2. QED
      BY <3>1
  <2> HIDE DEF r
  <2>4. QED
    BY <1>1, <2>1, <2>2, <2>3, PlacesAre, SpentAdded DEF Uncounted
<1>4. CASE Asked(s) \/ NotYet(s) \/ Block(s) \/ WaitOne(s)
  <2>1. UNCHANGED <<todo, local, started>>
    BY <1>4 DEF Asked, GiveBack, NotYet, Block, WaitOne, TakeOne, link, driver
  <2>2. PICK from, to \in {"asked", "test", "lock", "blocked"} : Go(s, from, to)
    BY <1>4 DEF Asked, GiveBack, NotYet, Block, WaitOne
  <2>3. at[s].pc = from /\ at'[s].pc = to /\ tx' = tx
    BY <1>1, <2>2, Moved
  <2>4. QED
    BY <2>1, <2>2, <2>3, PlacesAre, SpentSame DEF Uncounted
<1>5. CASE Counted(s)
  <2>1. UNCHANGED <<tx, todo, local, started>> /\ at[s].pc = "test"
    BY <1>5 DEF Counted, board, link, driver
  <2>2. at'[s].pc = "ask"
    <3>1. at' = [at EXCEPT ![s].pc = "ask", ![s].of = IF seen.count = 0 THEN "underflow" ELSE @]
      BY <1>5 DEF Counted
    <3>2. at \in [Senders -> Stand] /\ at[s] \in Stand
      BY <1>1 DEF Typing
    <3>3. at'[s] = [[at[s] EXCEPT !.pc = "ask"]
                      EXCEPT !.of = IF seen.count = 0 THEN "underflow" ELSE @]
      BY <3>1, <3>2
    <3>4. QED
      BY <3>2, <3>3 DEF Stand
  <2>3. QED
    BY <2>1, <2>2, PlacesAre, SpentSame DEF Uncounted
<1>6. CASE Finish(s)
  <2>1. at[s].pc = "test" /\ at'[s].pc = "waited" /\ tx' = tx
    BY <1>1, <1>6, Moved DEF Finish
  <2>2. at[s].of = "underflow" /\ UNCHANGED <<todo, local>> /\ ~started'
    BY <1>6 DEF Finish, link
  <2>3. "test" \in Polls /\ Polls \subseteq Holds
    BY DEF Polls, Holds
  <2>4. Place = "test" /\ Of = "underflow"
    BY <1>1, <2>1, <2>2, <2>3, Placed
  <2>5. tx.count = 0 /\ NoCount
    BY <1>1, <2>3, <2>4 DEF Waiting, NoCount
  <2>6. ~Uncounted(s)'
    BY <2>1 DEF Uncounted
  <2>7. QED
    BY <2>1, <2>2, <2>5, <2>6 DEF Spent, NoCount
<1>7. CASE Waited(s) \/ Enter(s)
  <2>1. UNCHANGED <<todo, local, started>>
    BY <1>7 DEF Waited, Enter, link, driver
  <2>2. PICK from \in Waitless, to \in {"idle", "enter", "prepare"} : Go(s, from, to)
    BY <1>7 DEF Waited, Enter, Waitless
  <2>3. at[s].pc = from /\ at'[s].pc = to /\ tx' = tx
    BY <1>1, <2>2, Moved
  <2>4. ~started /\ from \notin Sends /\ to \notin Sends /\ ~Uncounted(s)'
    BY <1>1, <2>3, PlacesAre DEF Uncounted, Waitless
  <2>5. QED
    BY <2>1, <2>3, <2>4, SpentSame
<1>8. CASE Prepare(s)
  <2>1. at[s].pc = "prepare" /\ at'[s].pc = "prepared" /\ tx' = tx
    BY <1>1, <1>8, Moved DEF Prepare
  <2>2. todo' = todo \o Prepares
    BY <1>8 DEF Prepare, Ask, Prepares, Zero
  <2>3. ~started /\ tx.count = 0 /\ NoCount
    BY <1>1, <2>1, PlacesAre DEF Spent, Waitless
  <2> DEFINE l == Len(todo)
             u == todo'
  <2>4. /\ l \in Nat /\ Len(u) = l + 3 /\ \A i \in 1..l : u[i] = todo[i]
        /\ u[l + 1] = Zero /\ u[l + 2] = [op |-> "set_underflow", n |-> 0]
        /\ u[l + 3] = [op |-> "clear", n |-> 0]
    BY <1>1, <2>2, Renewed
  <2> HIDE DEF u, l
  <2>5. \A i \in 1..Len(u) : u[i].op = "set_count" => i = l + 1 /\ u[i].n = 0
    <3>1. \A i \in 1..Len(u) : i \in 1..l \/ i = l + 1 \/ i = l + 2 \/ i = l + 3
      BY <2>4
    <3>2. \A i \in 1..l : u[i].op # "set_count"
      BY <2>3, <2>4 DEF NoCount, l
    <3>3. u[l + 1].n = 0 /\ u[l + 2].op # "set_count" /\ u[l + 3].op # "set_count"
      BY <2>4 DEF Zero
    <3>4. QED
      BY <3>1, <3>2, <3>3
  <2>6. at'[s].pc \in Sends /\ at'[s].pc \notin Waitless
    BY <2>1, PlacesAre
  <2>7. QED
    BY <2>1, <2>3, <2>5, <2>6 DEF Spent, u
<1>9. CASE Prepared(s) \/ PartSent(s)
  <2>1. UNCHANGED <<todo, started>>
    BY <1>9 DEF Prepared, PartSent, GiveBack, link, driver
  <2>2. PICK from, to \in {"prepared", "send", "counted", "throttle"} :
          /\ Go(s, from, to)
          /\ (from = "prepared" /\ to = "send") \/ to = "throttle"
    BY <1>9 DEF Prepared, PartSent, GiveBack
  <2>3. at[s].pc = from /\ at'[s].pc = to /\ tx' = tx
    BY <1>1, <2>2, Moved
  <2>4. Uncounted(s)' => Uncounted(s)
    BY <2>2, <2>3 DEF Uncounted
  <2>5. QED
    BY <2>1, <2>2, <2>3, <2>4, PlacesAre, SpentSame
<1>10. CASE SendPart(s)
  <2>1. local \in Seq(Samples) /\ Place = "send" /\ local # <<>> /\ job.n = at[s].n
        /\ Len(local) <= job.n /\ job.n \in Nat
        /\ \A i \in 1..Len(local) : local[i] = job.n - Len(local) + i
    <3>1. at[s].pc = "send" /\ "send" \in Holds /\ "send" \in Sends \ {"prepared"}
      BY <1>1, <1>10, Moved DEF SendPart, Holds, Sends
    <3>2. Place = "send" /\ Wanted = at[s].n
      BY <1>1, <3>1, Placed
    <3>3. job.n \in Nat
      BY <1>1, Sizes DEF Typing
    <3>4. QED
      BY <1>1, <3>1, <3>2, <3>3 DEF Stages, Rest, Typing
  <2>2. PICK r \in Seq(Request) : todo' = todo \o r /\ \A i \in 1..Len(r) : r[i].op # "set_count"
    <3> DEFINE n == Min({Part, Len(local)})
               p == [op |-> "part", n |-> SubSeq(local, 1, n)]
    <3>1. p \in Request /\ p.op = "part"
      BY <2>1, PieceOf
    <3>2. todo' = todo \o <<p>>
      BY <1>10 DEF SendPart, Ask
    <3> HIDE DEF p
    <3>3. <<p>> \in Seq(Request) /\ \A i \in 1..Len(<<p>>) : <<p>>[i].op # "set_count"
      BY <3>1
    <3>4. QED
      BY <3>2, <3>3
  <2>3. PICK to \in {"sent", "counted"} : Go(s, "send", to) /\ (to = "sent" => First(s))
    BY <1>10 DEF SendPart
  <2>4. at[s].pc = "send" /\ at'[s].pc = to /\ tx' = tx /\ started' = started
    BY <1>1, <1>10, <2>3, Moved DEF SendPart
  <2>5. Uncounted(s)' => Uncounted(s)
    BY <2>3, <2>4 DEF Uncounted, First
  <2>6. QED
    BY <1>1, <2>2, <2>4, <2>5, PlacesAre, SpentAdded
<1>11. CASE WriteCount(s)
  <2> DEFINE p == [op |-> "set_count", n |-> mem.count]
             l == Len(todo)
             u == todo'
  <2>1. at[s].pc = "sent" /\ at'[s].pc = "counted" /\ tx' = tx
    BY <1>1, <1>11, Moved DEF WriteCount
  <2>2. todo' = todo \o <<p>>
    BY <1>11 DEF WriteCount, Ask
  <2>3. tx.count = 0 /\ \A i \in 1..l : todo[i].op = "set_count" => todo[i].n = 0
    BY <2>1 DEF Spent, Uncounted
  <2> HIDE DEF p
  <2>4. l \in Nat /\ Len(u) = l + 1 /\ \A i \in 1..l : u[i] = todo[i]
    BY <1>1, <2>2
  <2> HIDE DEF u, l
  <2>5. \A i \in 1..Len(u) : \A j \in (i + 1)..Len(u) : i \in 1..l
    BY <2>4
  <2>6. \A i \in 1..Len(u) : \A j \in (i + 1)..Len(u) :
          u[i].op = "set_count" /\ u[j].op = "set_count" => u[i].n = 0
    BY <2>3, <2>4, <2>5
  <2>7. at'[s].pc \in Sends /\ at'[s].pc \notin Waitless /\ ~Uncounted(s)'
    BY <2>1, PlacesAre DEF Uncounted
  <2>8. QED
    BY <2>1, <2>3, <2>6, <2>7 DEF Spent, u
<1>12. CASE NextPart(s)
  <2>1. UNCHANGED <<todo, local>>
    BY <1>12 DEF NextPart, link
  <2>2. PICK to \in {"send", "idle"} :
          Go(s, "throttle", to) /\ (to = "send" => started' = started) /\ (to = "idle" => started')
    BY <1>12 DEF NextPart
  <2>3. at[s].pc = "throttle" /\ at'[s].pc = to /\ at'[s].n = at[s].n /\ tx' = tx
    BY <1>1, <2>2, Moved
  <2>4. Len(local) # at[s].n
    <3>1. "throttle" \in Holds /\ "throttle" \in Sends
      BY DEF Holds, Sends
    <3>2. Place = "throttle" /\ Wanted = at[s].n
      BY <1>1, <2>3, <3>1, Placed
    <3>3. Len(local) < job.n /\ job.n = Wanted
      BY <1>1, <3>1, <3>2 DEF Rest, Stages
    <3>4. job.n \in Nat /\ Len(local) \in Nat
      BY <1>1, Sizes, SMTT(30) DEF Typing
    <3>5. QED
      BY <3>2, <3>3, <3>4
  <2>5. ~Uncounted(s)'
    BY <2>1, <2>2, <2>3, <2>4 DEF Uncounted
  <2>6. QED
    BY <2>1, <2>2, <2>3, <2>5, PlacesAre, SpentSame
<1>13. CASE Handle(s)
  <2>1. UNCHANGED <<tx, todo, local, started, at>>
    BY <1>13 DEF Handle, TakeOne, board, driver
  <2>2. Uncounted(s)' => Uncounted(s)
    BY <2>1 DEF Uncounted
  <2>3. QED
    BY <1>1, <2>1, <2>2, SpentSame
<1>14. QED
  BY <1>2, <1>3, <1>4, <1>5, <1>6, <1>7, <1>8, <1>9, <1>10, <1>11, <1>12, <1>13 DEF Sender

(* The receiving thread and stuttering keep it.                            *)
LEMMA SpentOthers ==
  ASSUME IInv, NEW s \in Senders, Spent(s),
         RxEnter \/ RxRestore \/ RxHandle \/ RxLeave \/ UNCHANGED vars
  PROVE  Spent(s)' /\ tx' = tx
<1>1. UNCHANGED <<tx, local, started, at>>
  BY DEF RxEnter, RxRestore, RxHandle, RxLeave, RxThread, vars, board, driver
<1>2. (Uncounted(s)' => Uncounted(s)) /\ (at[s].pc \in Waitless => ~started)
  BY <1>1 DEF Uncounted, Spent
<1>3. CASE todo' = todo
  BY <1>1, <1>2, <1>3, SpentSame
<1>4. CASE RxRestore
  <2> DEFINE r == [i \in 1..2 |-> [op |-> "other", n |-> 0]]
  <2>1. todo' = todo \o r
    BY <1>4 DEF RxRestore, Ask
  <2>2. r \in Seq(Request) /\ \A i \in 1..Len(r) : r[i].op # "set_count"
    <3>1. [op |-> "other", n |-> 0] \in Request
      BY DEF Request
    <3>2. QED
      BY <3>1
  <2> HIDE DEF r
  <2>3. Typing
    BY DEF IInv
  <2>4. QED
    BY <1>1, <1>2, <2>1, <2>2, <2>3, SpentAdded
<1>5. RxRestore \/ todo' = todo
  BY DEF RxEnter, RxHandle, RxLeave, TakeOne, link, vars
<1>6. QED
  BY <1>3, <1>4, <1>5

(* A call keeps it.                                                        *)
LEMMA SpentCall ==
  ASSUME IInv, NEW s \in Senders, Spent(s), NEW n \in Counts \cup {0}, Call(s, n)
  PROVE  Spent(s)' /\ tx' = tx
<1>1. at[s].pc = "idle" /\ UNCHANGED <<tx, todo, local, started>>
  BY DEF Call, board, link, driver
<1>2. at'[s].pc = "wait"
  <2>1. at \in [Senders -> Stand]
    BY DEF IInv, Typing
  <2>2. at' = [at EXCEPT ![s] = [pc |-> "wait", of |-> "count", n |-> n]]
    BY DEF Call
  <2>3. QED
    BY <2>1, <2>2
<1>3. QED
  BY <1>1, <1>2, PlacesAre, SpentSame DEF Uncounted

(* Every step keeps it, and sets tx.count only when it is 0.               *)
LEMMA SpentContinues ==
  ASSUME NEW s, Senders = {s}, IInv, Spent(s), [Next]_vars
  PROVE  Spent(s)' /\ (tx'.count # tx.count => tx.count = 0 \/ tx'.count = tx.count - 1)
<1>1. s \in Senders /\ \A r \in Senders : r = s
  OBVIOUS
<1>2. CASE \E n \in Counts \cup {0} : Call(s, n)
  BY <1>1, <1>2, SpentCall
<1>3. CASE Handle(s) \/ Sender(s)
  BY <1>1, <1>3, SpentSender
<1>4. CASE Serve \/ Push \/ Tick
  BY <1>1, <1>4, SpentBoard
<1>5. CASE RxEnter \/ RxRestore \/ RxHandle \/ RxLeave \/ UNCHANGED vars
  BY <1>1, <1>5, SpentOthers
<1>6. QED
  BY <1>1, <1>2, <1>3, <1>4, <1>5 DEF Next

(* If one thread sends, no send is cut short by the next: tx.count is only *)
(* set when the last sample before was shown (tx_send_samples_async,       *)
(* reader-H7xx-ex.h 532-572; with two threads this is false, since the     *)
(* wait at 535 gives tx_lock back before 536 takes it).                    *)
THEOREM AloneNeverCutShort ==
  ASSUME NEW s, Senders = {s}
  PROVE  Spec => NeverCutShort
<1>1. Init => Spent(s)
  BY SpentBegins
<1>2. IInv /\ Spent(s) /\ [Next]_vars => Spent(s)'
  BY SpentContinues
<1>3. IInv /\ Spent(s) /\ [Next]_vars =>
        [tx'.count # tx.count => tx.count = 0 \/ tx'.count = tx.count - 1]_vars
  BY SpentContinues
<1>4. Spec => []IInv
  BY Invariant
<1>5. QED
  BY <1>1, <1>2, <1>3, <1>4, PTL DEF Spec, NeverCutShort
=============================================================================

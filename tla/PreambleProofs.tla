-------------------------- MODULE PreambleProofs --------------------------
(***************************************************************************)
(* Listening, for blocks, results and fifos of any size.  It ends tidily:  *)
(* the switch that fills rx_data is open only between starting and         *)
(* stopping (Listening).  And what it gives back is the signal: samples    *)
(* are consecutive from the receiving thread to the result (Consecutive,   *)
(* with what the threads have at hand and have told, in the second half).  *)
(***************************************************************************)
EXTENDS Preamble, TLAPS

Calling == {"starting", "started", "stopping"}

(* The switch, which the script opens and the searching thread closes.     *)
(* That thread lives only within a script's calls and outlives the feeding *)
(* thread; before it is started, and after it has ended, the switch is     *)
(* closed but for the step before the start.                               *)
Listening ==
  /\ search # "none" => script \in Calling
  /\ search = "none" => ~feeder
  /\ output => script = "open" \/ search # "none"

LEMMA Initially == Init => Listening
  BY DEF Init, Listening

LEMMA OfSearcher == Listening /\ Searcher => Listening'
  <1> SUFFICES ASSUME Listening, Searcher PROVE Listening'
    OBVIOUS
  <1>1. search # "none" /\ UNCHANGED script
    BY DEF Searcher, Take, Found, GiveUp, NotFound, Copy, CopyMore, Copied, End,
           Search, caller
  <1>2. CASE End
    BY <1>1, <1>2 DEF End, Search, Listening
  <1>3. CASE ~End
    <2>1. search' # "none"
      BY <1>3 DEF Searcher, Take, Found, GiveUp, NotFound, Copy, CopyMore, Copied, Search
    <2> QED BY <1>1, <2>1 DEF Listening
  <1> QED BY <1>2, <1>3

LEMMA OfScript ==
  Listening /\ (Clear \/ Open \/ Started \/ Wait \/ Stop \/ Joined) => Listening'
  <1> SUFFICES ASSUME Listening, Clear \/ Open \/ Started \/ Wait \/ Stop \/ Joined
               PROVE  Listening'
    OBVIOUS
  <1>1. UNCHANGED <<search, feeder>>
    BY DEF Clear, Open, Started, Wait, Stop, Joined, Unstarted, feeding
  <1>2. CASE Clear \/ Open
    BY <1>1, <1>2 DEF Clear, Open, Script, Listening, Calling
  <1>3. CASE Started \/ Wait \/ Stop \/ Joined
    BY <1>1, <1>3 DEF Started, Wait, Stop, Joined, Script, store, Listening, Calling
  <1> QED BY <1>2, <1>3

LEMMA Stepwise == Listening /\ [Next]_vars => Listening'
  <1> SUFFICES ASSUME Listening, [Next]_vars PROVE Listening'
    OBVIOUS
  <1>1. CASE Receive
    BY <1>1 DEF Receive, store, feeding, caller, Listening
  <1>2. CASE Store
    BY <1>2 DEF Store, feeding, caller, Listening
  <1>3. CASE Feed
    BY <1>3 DEF Feed, caller, Listening
  <1>4. CASE Searcher
    BY <1>4, OfSearcher
  <1>5. CASE Start
    BY <1>5 DEF Start, Script, store, Listening, Calling
  <1>6. CASE Clear \/ Open \/ Started \/ Wait \/ Stop \/ Joined
    BY <1>6, OfScript
  <1>7. CASE UNCHANGED vars
    BY <1>7 DEF vars, store, feeding, caller, Listening
  <1> QED BY <1>1, <1>2, <1>3, <1>4, <1>5, <1>6, <1>7 DEF Next

(* Once a script has stopped listening nothing is stored in rx_data, and   *)
(* both threads are gone (Host.cpp:104, preamble.cpp: th.join() and        *)
(* *close_at_end).                                                         *)
THEOREM TidyEnd == Spec => []OutputOnlyWhileListening
  <1>1. Listening => OutputOnlyWhileListening
    BY DEF Listening, OutputOnlyWhileListening, Calling
  <1> QED BY <1>1, Initially, Stepwise, PTL DEF Spec

-----------------------------------------------------------------------------
(* The signal. *)

Searches == {"none", "listen", "decide", "copy", "join"}

Block == {s \in Seq(Nat) : Len(s) = Size}

Typing ==
  /\ now \in 0..(Numbers - 1) /\ output \in BOOLEAN
  /\ held \in Seq(Nat) /\ Len(held) <= 1
  /\ rxData \in Seq(Nat) /\ Len(rxData) <= Capacity
  /\ flag \in BOOLEAN /\ feeder \in BOOLEAN
  /\ block \in Seq(Nat) /\ Len(block) < Size
  /\ queue \in Seq(Block) /\ blocks \in Seq(Seq(Nat))
  /\ result \in Seq(Nat) /\ Len(result) <= Points
  /\ snr \in {"threshold", "zero", "found"}
  /\ running \in BOOLEAN /\ told \in BOOLEAN /\ peak \in Nat
  /\ search \in Searches /\ script \in {"idle", "cleared", "open"} \cup Calling

(* What the searching thread has at hand, and that it is fed.              *)
Phases ==
  /\ search \in {"listen", "decide", "copy"} => output /\ flag
  /\ script = "open" => output
  /\ search = "listen" => Len(blocks) <= 3
  /\ search = "decide" => Len(blocks) = 4
  /\ search \in {"listen", "decide"} => \A i \in 1..Len(blocks) : blocks[i] \in Block
  /\ search = "copy" => Len(blocks) <= 1
  /\ Len(blocks) <= 4

(* The samples from the first one of the preamble on.                      *)
Expected(i) == (peak + Numbers - Size + i) % Numbers

Complete == Len(result) = Points /\ \A i \in 1..Points : result[i] = Expected(i)

(* What the searching thread has told of, and what the script has seen.    *)
Reports ==
  /\ search \in {"listen", "decide"} => result = <<>> /\ snr # "found"
  /\ search = "decide" => snr = "zero"
  /\ search = "copy" => snr = "found"
  /\ search \in {"join", "none"} => Complete \/ (result = <<>> /\ snr # "found")
  /\ script = "started" => snr # "threshold"
  /\ told => snr = "found" /\ script \notin {"cleared", "open", "starting"}

(* Samples are numbered from the last one received backwards: that at      *)
(* distance d is n - d if the next one is n.  s begins at distance d, and  *)
(* nothing is said of what is farther than l.                              *)
Run(n, s, d, l) ==
  \A k \in 1..Len(s) : d - k + 1 <= l => s[k] = (n - (d - k + 1)) % Numbers

(* The same of parts of Size samples each, the last of which ends at       *)
(* distance b.                                                             *)
Runs(n, q, b, l) ==
  \A i \in 1..Len(q) : Run(n, q[i], b + Size * (Len(q) - i + 1), l)

(* How many samples there are up to the end of the queue, and so forth.    *)
Stored == Len(held) + Len(rxData)
Gathered == Stored + Len(block)
Queued == Gathered + Size * Len(queue)

Arrived(l) == Run(now, held, Len(held), l) /\ Run(now, rxData, Stored, l)

Passed(l) == Run(now, block, Gathered, l) /\ Runs(now, queue, Gathered, l)

Searched(l) == Runs(now, blocks, Queued, l)

Oldest == Queued + Size * Len(blocks) - 1

Uncopied == Queued + (IF blocks = <<>> THEN 0 ELSE Len(blocks[1]))

(* All samples are consecutive but for the first, which a thread about to  *)
(* store it may have held since an earlier reception.  What is copied      *)
(* continues the result.                                                   *)
Consecutive ==
  /\ script = "cleared" => Stored <= 1
  /\ script = "open" => Arrived(Stored - 1)
  /\ search \in {"listen", "decide"} => Arrived(Oldest) /\ Passed(Oldest) /\ Searched(Oldest)
  /\ search = "copy" =>
       /\ Arrived(Uncopied) /\ Passed(Uncopied)
       /\ blocks # <<>> => Run(now, blocks[1], Uncopied, Uncopied) /\ result = <<>>
       /\ \A i \in 1..Len(result) : result[i] = Expected(i)
       /\ Len(result) < Points => (now - Uncopied) % Numbers = Expected(Len(result) + 1)

-----------------------------------------------------------------------------
(* Remainders. *)

LEMMA Division ==
  ASSUME NEW n \in Nat, n > 0, NEW a \in Int
  PROVE  /\ a \div n \in Int /\ a % n \in 0..(n - 1)
         /\ n * (a \div n) + (a % n) = a
<1>1. a \div n \in Int
  OBVIOUS
<1>2. a % n \in 0..(n - 1)
  OBVIOUS
<1>3. n * (a \div n) + (a % n) = a
  OBVIOUS
<1>4. QED
  BY <1>1, <1>2, <1>3

LEMMA Remainder ==
  ASSUME NEW n \in Nat, n > 0, NEW q \in Int, NEW r \in 0..(n - 1)
  PROVE  (n * q + r) % n = r
OBVIOUS

LEMMA Spread ==
  ASSUME NEW n \in Nat, NEW q \in Int, NEW x \in Int, NEW r \in Int
  PROVE  n * q + (n * x + r) = n * (q + x) + r /\ q + x \in Int
OBVIOUS

LEMMA Periodic ==
  ASSUME NEW n \in Nat, n > 0, NEW q \in Int, NEW a \in Int
  PROVE  (n * q + a) % n = a % n
<1> DEFINE x == a \div n
           r == a % n
<1>1. x \in Int /\ r \in 0..(n - 1) /\ n * x + r = a
  BY Division
<1> HIDE DEF x, r
<1>2. n * q + a = n * (q + x) + r /\ q + x \in Int
  <2>1. n * q + (n * x + r) = n * (q + x) + r /\ q + x \in Int
    BY <1>1, Spread
  <2>2. QED
    BY <1>1, <2>1
<1>3. (n * (q + x) + r) % n = r
  BY <1>1, <1>2, Remainder
<1>4. QED
  BY <1>2, <1>3 DEF r

LEMMA Congruent ==
  ASSUME NEW n \in Nat, n > 0, NEW a \in Int, NEW b \in Int, NEW j \in Int, a % n = b % n
  PROVE  (a + j) % n = (b + j) % n
<1> DEFINE x == a \div n
           y == b \div n
           r == a % n
<1>1. x \in Int /\ y \in Int /\ r \in 0..(n - 1) /\ n * x + r = a /\ n * y + r = b
  BY Division
<1> HIDE DEF x, y, r
<1>2. /\ a + j = n * x + (r + j) /\ b + j = n * y + (r + j)
      /\ r + j \in Int
  BY <1>1
<1>3. (n * x + (r + j)) % n = (r + j) % n /\ (n * y + (r + j)) % n = (r + j) % n
  BY <1>1, <1>2, Periodic, ZenonT(40)
<1>4. QED
  BY <1>2, <1>3

LEMMA Ahead ==
  ASSUME NEW n \in Nat, n > 0, NEW a \in Int, NEW j \in Int
  PROVE  ((a % n) + j) % n = (a + j) % n
<1> DEFINE r == a % n
<1>1. r \in 0..(n - 1) /\ r \in Int
  BY Division
<1>2. r % n = a % n
  <2>1. (n * 0 + r) % n = r
    <3> HIDE DEF r
    <3>1. QED
      BY <1>1, Remainder
  <2>2. n * 0 + r = r
    BY <1>1
  <2>3. QED
    BY <2>1, <2>2
<1> HIDE DEF r
<1>3. (r + j) % n = (a + j) % n
  BY <1>1, <1>2, Congruent
<1>4. QED
  BY <1>3 DEF r

-----------------------------------------------------------------------------
(* Consecutive samples. *)

LEMMA Sample ==
  ASSUME NEW n \in Int, NEW s \in Seq(Nat), NEW d \in Int, NEW l \in Int, Run(n, s, d, l),
         NEW k \in 1..Len(s), d - k + 1 <= l
  PROVE  s[k] = (n - (d - k + 1)) % Numbers
BY DEF Run

LEMMA RunShift ==
  ASSUME NEW n \in Int, NEW s \in Seq(Nat), NEW d \in Int, NEW l \in Int, Run(n, s, d, l)
  PROVE  Run((n + 1) % Numbers, s, d + 1, l + 1)
<1> SUFFICES ASSUME NEW k \in 1..Len(s), (d + 1) - k + 1 <= l + 1
             PROVE  s[k] = (((n + 1) % Numbers) - ((d + 1) - k + 1)) % Numbers
  BY DEF Run
<1> DEFINE e == d - k + 1
<1>1. k \in Int /\ e \in Int /\ e <= l /\ (d + 1) - k + 1 = e + 1
  OBVIOUS
<1>2. s[k] = (n - e) % Numbers
  BY <1>1, Sample
<1> HIDE DEF e
<1>3. Numbers \in Nat /\ Numbers > 0
  BY SizeAssumption
<1>4. (((n + 1) % Numbers) + (0 - (e + 1))) % Numbers = ((n + 1) + (0 - (e + 1))) % Numbers
  <2>1. n + 1 \in Int /\ 0 - (e + 1) \in Int
    BY <1>1
  <2>2. QED
    BY <1>3, <2>1, Ahead
<1>5. (n + 1) % Numbers \in Int
  BY <1>3, Division
<1>6. /\ (n + 1) + (0 - (e + 1)) = n - e
      /\ ((n + 1) % Numbers) + (0 - (e + 1)) = ((n + 1) % Numbers) - (e + 1)
  BY <1>1, <1>5
<1>7. QED
  BY <1>1, <1>2, <1>4, <1>6

LEMMA RunLower ==
  ASSUME NEW n \in Int, NEW s \in Seq(Nat), NEW d \in Int, NEW l \in Int, NEW m \in Int,
         m <= l, Run(n, s, d, l)
  PROVE  Run(n, s, d, m)
<1> SUFFICES ASSUME NEW k \in 1..Len(s), d - k + 1 <= m
             PROVE  s[k] = (n - (d - k + 1)) % Numbers
  BY DEF Run
<1>1. d - k + 1 <= l
  OBVIOUS
<1>2. QED
  BY <1>1, Sample

LEMMA RunJoin ==
  ASSUME NEW n \in Int, NEW s \in Seq(Nat), NEW t \in Seq(Nat), NEW d \in Int, NEW l \in Int,
         Run(n, s, d, l), Run(n, t, d - Len(s), l)
  PROVE  Run(n, s \o t, d, l)
<1>1. /\ Len(s \o t) = Len(s) + Len(t) /\ Len(s) \in Nat /\ Len(t) \in Nat
      /\ \A i \in 1..Len(s) : (s \o t)[i] = s[i]
      /\ \A i \in 1..Len(t) : (s \o t)[Len(s) + i] = t[i]
  OBVIOUS
<1> SUFFICES ASSUME NEW k \in 1..Len(s \o t), d - k + 1 <= l
             PROVE  (s \o t)[k] = (n - (d - k + 1)) % Numbers
  BY DEF Run
<1>2. CASE k \in 1..Len(s)
  <2>1. s[k] = (n - (d - k + 1)) % Numbers
    BY <1>2, Sample
  <2>2. QED
    BY <1>1, <1>2, <2>1
<1>3. CASE k \notin 1..Len(s)
  <2> DEFINE i == k - Len(s)
  <2>1. i \in 1..Len(t) /\ k = Len(s) + i /\ (d - Len(s)) - i + 1 = d - k + 1
        /\ d - Len(s) \in Int
    BY <1>1, <1>3, SMTT(30)
  <2> HIDE DEF i
  <2>2. (d - Len(s)) - i + 1 <= l
    BY <2>1
  <2>3. t[i] = (n - ((d - Len(s)) - i + 1)) % Numbers
    BY <2>1, <2>2, Sample
  <2>4. QED
    BY <1>1, <2>1, <2>3
<1>4. QED
  BY <1>2, <1>3

LEMMA RunCut ==
  ASSUME NEW n \in Int, NEW s \in Seq(Nat), NEW d \in Int, NEW l \in Int, Run(n, s, d, l),
         NEW a \in Nat \ {0}, NEW b \in Int, a - 1 <= b, b <= Len(s)
  PROVE  /\ Run(n, SubSeq(s, a, b), d - a + 1, l)
         /\ SubSeq(s, a, b) \in Seq(Nat) /\ Len(SubSeq(s, a, b)) = b - a + 1
<1>1. /\ SubSeq(s, a, b) \in Seq(Nat) /\ Len(SubSeq(s, a, b)) = b - a + 1
      /\ \A i \in 1..(b - a + 1) : SubSeq(s, a, b)[i] = s[a + i - 1]
  OBVIOUS
<1>2. Run(n, SubSeq(s, a, b), d - a + 1, l)
  <2> SUFFICES ASSUME NEW k \in 1..Len(SubSeq(s, a, b)), (d - a + 1) - k + 1 <= l
               PROVE  SubSeq(s, a, b)[k] = (n - ((d - a + 1) - k + 1)) % Numbers
    BY DEF Run
  <2> DEFINE i == a + k - 1
  <2>1. k \in 1..(b - a + 1)
    BY <1>1
  <2>2. i \in 1..Len(s) /\ d - i + 1 = (d - a + 1) - k + 1
    BY <2>1
  <2>3. SubSeq(s, a, b)[k] = s[i]
    BY <1>1, <2>1
  <2> HIDE DEF i
  <2>4. s[i] = (n - (d - i + 1)) % Numbers
    BY <2>2, Sample
  <2>5. QED
    BY <2>2, <2>3, <2>4
<1>3. QED
  BY <1>1, <1>2

LEMMA RunEmpty ==
  ASSUME NEW n, NEW d, NEW l
  PROVE  Run(n, <<>>, d, l)
BY DEF Run

(* The sample that has just been received.                                 *)
LEMMA RunNew ==
  ASSUME NEW n \in 0..(Numbers - 1), NEW l
  PROVE  Run((n + 1) % Numbers, <<n>>, 1, l)
<1> SUFFICES ASSUME NEW k \in 1..Len(<<n>>)
             PROVE  <<n>>[k] = (((n + 1) % Numbers) - (1 - k + 1)) % Numbers
  BY DEF Run
<1>1. k = 1 /\ <<n>>[k] = n /\ 1 - k + 1 = 1
  OBVIOUS
<1>2. Numbers \in Nat /\ Numbers > 0 /\ n \in Int
  BY SizeAssumption
<1>3. (((n + 1) % Numbers) + (0 - 1)) % Numbers = ((n + 1) + (0 - 1)) % Numbers
  <2>1. n + 1 \in Int /\ 0 - 1 \in Int
    BY <1>2
  <2>2. QED
    BY <1>2, <2>1, Ahead
<1>4. (n + 1) % Numbers \in Int
  <2>1. n + 1 \in Int
    BY <1>2
  <2>2. QED
    BY <1>2, <2>1, Division
<1>5. (n + 1) + (0 - 1) = n /\ ((n + 1) % Numbers) + (0 - 1) = ((n + 1) % Numbers) - 1
  BY <1>2, <1>4
<1>6. n % Numbers = n
  <2>1. (Numbers * 0 + n) % Numbers = n
    BY <1>2, Remainder
  <2>2. Numbers * 0 + n = n
    BY <1>2
  <2>3. QED
    BY <2>1, <2>2
<1>7. QED
  BY <1>1, <1>3, <1>5, <1>6

-----------------------------------------------------------------------------
(* Sizes and types. *)

LEMMA Sizes ==
  /\ Size \in Nat \ {0} /\ Points \in Nat /\ Capacity \in Nat /\ Chunk \in Nat \ {0}
  /\ Chunk <= Capacity /\ Numbers \in Nat \ {0}
BY SizeAssumption

LEMMA Orders ==
  ASSUME NEW a \in Nat, NEW b \in Nat, NEW c \in Nat, a <= b
  PROVE  a * c <= b * c /\ a * c \in Nat /\ b * c \in Nat
OBVIOUS

LEMMA Catenated ==
  ASSUME NEW S, NEW p \in Seq(S), NEW q \in Seq(S)
  PROVE  /\ p \o q \in Seq(S) /\ Len(p \o q) = Len(p) + Len(q)
         /\ Len(p) \in Nat /\ Len(q) \in Nat
         /\ \A i \in 1..Len(p) : (p \o q)[i] = p[i]
         /\ \A i \in 1..Len(q) : (p \o q)[Len(p) + i] = q[i]
OBVIOUS

LEMMA Parts ==
  ASSUME NEW s \in Seq(Nat)
  PROVE  /\ Full(s) \in Nat /\ Full(s) * Size \in Nat
         /\ Full(s) * Size <= Len(s) /\ Len(s) - Full(s) * Size < Size
<1> DEFINE n == Len(s)
           f == n \div Size
           r == n % Size
<1>1. n \in Nat /\ Size \in Nat /\ Size > 0
  BY SizeAssumption
<1>2. f \in Int /\ r \in 0..(Size - 1) /\ Size * f + r = n
  <2> HIDE DEF n
  <2>1. QED
    BY <1>1, Division
<1>3. f \in Nat
  <2> HIDE DEF n
  <2>1. QED
    BY <1>1
<1> HIDE DEF f, n, r
<1>4. f * Size = Size * f /\ f * Size \in Nat
  BY <1>1, <1>3
<1>5. QED
  BY <1>1, <1>2, <1>3, <1>4 DEF Full, f, n

LEMMA PartOf ==
  ASSUME NEW s \in Seq(Nat), NEW i \in 1..Full(s)
  PROVE  /\ (i - 1) * Size + 1 \in Nat \ {0} /\ i * Size \in Nat /\ i * Size <= Len(s)
         /\ i * Size = (i - 1) * Size + Size
         /\ SubSeq(s, (i - 1) * Size + 1, i * Size) \in Block
<1>1. Full(s) \in Nat /\ Full(s) * Size <= Len(s) /\ Size \in Nat \ {0} /\ Len(s) \in Nat
  BY Parts, Sizes
<1>2. i \in Nat /\ i - 1 \in Nat /\ i <= Full(s)
  BY <1>1
<1>3. i * Size <= Full(s) * Size /\ i * Size \in Nat /\ Full(s) * Size \in Nat
  BY <1>1, <1>2, Orders
<1>4. (i - 1) * Size \in Nat /\ i * Size = (i - 1) * Size + Size
  BY <1>1, <1>2
<1> DEFINE a == (i - 1) * Size + 1
           b == i * Size
<1>5. a \in Nat \ {0} /\ b \in Nat /\ b <= Len(s) /\ b - a + 1 = Size
  <2> DEFINE c == (i - 1) * Size
             d == Full(s) * Size
  <2>1. /\ c \in Nat /\ a = c + 1 /\ b = c + Size /\ b <= d /\ d <= Len(s)
        /\ b \in Nat /\ d \in Nat /\ Len(s) \in Nat /\ Size \in Nat
    BY <1>1, <1>3, <1>4
  <2> HIDE DEF a, b, c, d
  <2>2. QED
    BY <2>1
<1> HIDE DEF a, b
<1>6. SubSeq(s, a, b) \in Seq(Nat) /\ Len(SubSeq(s, a, b)) = b - a + 1
  BY <1>1, <1>5, SMTT(30)
<1>7. SubSeq(s, a, b) \in Block
  BY <1>5, <1>6 DEF Block
<1>8. QED
  BY <1>3, <1>4, <1>5, <1>7 DEF a, b

(* What Feed does.                                                         *)
LEMMA FeedStep ==
  ASSUME Typing, Feed
  PROVE  \E s \in Seq(Nat), t \in Seq(Nat), u \in Seq(Nat), p \in Seq(Block) :
           /\ feeder /\ Len(rxData) >= Chunk
           /\ t = SubSeq(rxData, 1, Chunk) /\ Len(t) = Chunk
           /\ s = block \o t /\ Len(s) = Len(block) + Chunk
           /\ rxData' = SubSeq(rxData, Chunk + 1, Len(rxData)) /\ rxData' \in Seq(Nat)
           /\ Len(rxData') = Len(rxData) - Chunk
           /\ Len(p) = Full(s) /\ queue' = queue \o p
           /\ \A i \in 1..Full(s) : p[i] = SubSeq(s, (i - 1) * Size + 1, i * Size)
           /\ u = SubSeq(s, Full(s) * Size + 1, Len(s)) /\ Len(u) = Len(s) - Full(s) * Size
           /\ block' = IF flag THEN u ELSE <<>>
           /\ feeder' = flag
           /\ UNCHANGED <<flag, now, held, output, search, blocks, snr, result, running,
                          script, told, peak>>
<1> DEFINE t == SubSeq(rxData, 1, Chunk)
           s == block \o t
           p == [i \in 1..Full(s) |-> SubSeq(s, (i - 1) * Size + 1, i * Size)]
           u == SubSeq(s, Full(s) * Size + 1, Len(s))
<1>1. /\ feeder /\ Len(rxData) >= Chunk
      /\ rxData' = SubSeq(rxData, Chunk + 1, Len(rxData))
      /\ queue' = queue \o p
      /\ block' = IF flag THEN u ELSE <<>>
      /\ feeder' = flag
      /\ UNCHANGED <<flag, now, held, output, search, blocks, snr, result, running,
                     script, told, peak>>
  BY DEF Feed, receiver, caller
<1>2. /\ rxData \in Seq(Nat) /\ block \in Seq(Nat) /\ Chunk \in Nat \ {0}
      /\ Chunk <= Len(rxData) /\ Len(rxData) \in Nat
  BY <1>1, Sizes DEF Typing
<1>3. t \in Seq(Nat) /\ Len(t) = Chunk
      /\ SubSeq(rxData, Chunk + 1, Len(rxData)) \in Seq(Nat)
      /\ Len(SubSeq(rxData, Chunk + 1, Len(rxData))) = Len(rxData) - Chunk
  BY <1>2
<1>4. s \in Seq(Nat) /\ Len(s) = Len(block) + Chunk
  <2> HIDE DEF t
  <2>1. Len(block \o t) = Len(block) + Len(t) /\ block \o t \in Seq(Nat)
    BY <1>2, <1>3, Catenated
  <2>2. QED
    BY <1>3, <2>1
<1> HIDE DEF t, s
<1>5. p \in Seq(Block) /\ Len(p) = Full(s)
      /\ \A i \in 1..Full(s) : p[i] = SubSeq(s, (i - 1) * Size + 1, i * Size)
  <2>1. Full(s) \in Nat
    BY <1>4, Parts
  <2>2. \A i \in 1..Full(s) : SubSeq(s, (i - 1) * Size + 1, i * Size) \in Block
    BY <1>4, PartOf
  <2> DEFINE f == Full(s)
             P(i) == SubSeq(s, (i - 1) * Size + 1, i * Size)
  <2>3. f \in Nat /\ (\A i \in 1..f : P(i) \in Block) /\ p = [i \in 1..f |-> P(i)]
    BY <2>1, <2>2
  <2> HIDE DEF f, P
  <2>4. p \in Seq(Block) /\ Len(p) = f /\ \A i \in 1..f : p[i] = P(i)
    <3> HIDE DEF p
    <3>1. QED
      BY <2>3
  <2>5. QED
    BY <2>4 DEF f, P
<1>6. u \in Seq(Nat) /\ Len(u) = Len(s) - Full(s) * Size
  <2> DEFINE a == Full(s) * Size
  <2>1. a \in Nat /\ a <= Len(s) /\ Len(s) \in Nat
    BY <1>4, Parts
  <2> HIDE DEF a
  <2>2. SubSeq(s, a + 1, Len(s)) \in Seq(Nat) /\ Len(SubSeq(s, a + 1, Len(s))) = Len(s) - a
    BY <1>4, <2>1
  <2>3. QED
    BY <2>2 DEF a
<1>7. t = SubSeq(rxData, 1, Chunk) /\ s = block \o t
      /\ u = SubSeq(s, Full(s) * Size + 1, Len(s))
  BY DEF t, s
<1> HIDE DEF p, u
<1>8. QED
  BY <1>1, <1>3, <1>4, <1>5, <1>6, <1>7, Zenon

LEMMA TypingFeed ==
  ASSUME Typing, Feed
  PROVE  Typing'
<1>1. PICK s \in Seq(Nat), u \in Seq(Nat), p \in Seq(Block) :
        /\ rxData' \in Seq(Nat) /\ Len(rxData') = Len(rxData) - Chunk
        /\ queue' = queue \o p
        /\ Len(u) = Len(s) - Full(s) * Size
        /\ block' = IF flag THEN u ELSE <<>>
        /\ feeder' = flag
        /\ UNCHANGED <<flag, now, held, output, search, blocks, snr, result, running,
                       script, told, peak>>
  BY FeedStep, ZenonT(30)
<1>2. Len(rxData') <= Capacity
  BY <1>1, Sizes DEF Typing
<1>3. queue' \in Seq(Block)
  BY <1>1 DEF Typing
<1>4. block' \in Seq(Nat) /\ Len(block') < Size
  <2>1. Len(u) < Size /\ <<>> \in Seq(Nat) /\ Len(<<>>) < Size
    BY <1>1, Parts, Sizes
  <2>2. CASE flag
    BY <1>1, <2>1, <2>2
  <2>3. CASE ~flag
    BY <1>1, <2>1, <2>3
  <2>4. QED
    BY <2>2, <2>3
<1>5. QED
  BY <1>1, <1>2, <1>3, <1>4 DEF Typing

LEMMA HeadTail ==
  ASSUME NEW S, NEW q \in Seq(S), q # <<>>
  PROVE  /\ Head(q) = q[1] /\ q[1] \in S /\ Len(q) \in Nat \ {0}
         /\ Tail(q) \in Seq(S) /\ Len(Tail(q)) = Len(q) - 1
         /\ \A i \in 1..Len(Tail(q)) : Tail(q)[i] = q[i + 1]
OBVIOUS

LEMMA Appended ==
  ASSUME NEW S, NEW q \in Seq(S), NEW m \in S
  PROVE  /\ Append(q, m) \in Seq(S) /\ Len(Append(q, m)) = Len(q) + 1
         /\ Len(q) \in Nat
         /\ \A i \in 1..Len(q) : Append(q, m)[i] = q[i]
         /\ Append(q, m)[Len(q) + 1] = m
OBVIOUS

LEMMA Extended ==
  ASSUME NEW p \in Seq(Nat), NEW s \in Seq(Nat), NEW r \in Nat, r <= Len(s)
  PROVE  /\ p \o SubSeq(s, 1, r) \in Seq(Nat) /\ Len(p \o SubSeq(s, 1, r)) = Len(p) + r
         /\ \A i \in 1..Len(p) : (p \o SubSeq(s, 1, r))[i] = p[i]
         /\ \A i \in 1..r : (p \o SubSeq(s, 1, r))[Len(p) + i] = s[i]
<1> DEFINE t == SubSeq(s, 1, r)
<1>1. t \in Seq(Nat) /\ Len(t) = r /\ \A i \in 1..r : t[i] = s[i]
  OBVIOUS
<1> HIDE DEF t
<1>2. p \o t \in Seq(Nat) /\ Len(p \o t) = Len(p) + r
  <2>1. t \in Seq(Nat)
    BY <1>1
  <2>2. p \o t \in Seq(Nat)
    BY <2>1
  <2>3. Len(p \o t) = Len(p) + Len(t)
    BY <2>1
  <2>4. QED
    BY <1>1, <2>2, <2>3
<1>3. \A i \in 1..Len(p) : (p \o t)[i] = p[i]
  BY <1>1
<1>4. ASSUME NEW i \in 1..r PROVE (p \o t)[Len(p) + i] = s[i]
  <2>1. Len(p) + i \in 1..(Len(p) + Len(t)) /\ ~(Len(p) + i <= Len(p))
        /\ (Len(p) + i) - Len(p) = i
    BY <1>1
  <2>2. (p \o t)[Len(p) + i] = t[i]
    BY <1>1, <2>1
  <2>3. QED
    BY <1>1, <2>2
<1>5. QED
  BY <1>2, <1>3, <1>4 DEF t

(* What Project adds to the result.                                        *)
LEMMA Projected ==
  ASSUME Typing, NEW s \in Seq(Nat)
  PROVE  /\ Project(s) \in Seq(Nat)
         /\ Len(Project(s)) = IF Len(s) < Points - Len(result) THEN Len(result) + Len(s)
                                                               ELSE Points
         /\ \A i \in 1..Len(result) : Project(s)[i] = result[i]
         /\ \A i \in 1..(Len(Project(s)) - Len(result)) : Project(s)[Len(result) + i] = s[i]
<1>1. /\ result \in Seq(Nat) /\ Len(result) <= Points /\ Points \in Nat /\ Len(result) \in Nat
      /\ Len(s) \in Nat
  BY Sizes DEF Typing
<1>2. CASE Len(s) < Points - Len(result)
  <2>1. Project(s) = result \o s
    BY <1>2 DEF Project
  <2>2. QED
    BY <1>1, <1>2, <2>1, Catenated
<1>3. CASE ~(Len(s) < Points - Len(result))
  <2> DEFINE r == Points - Len(result)
  <2>1. r \in Nat /\ r <= Len(s) /\ Len(result) + r = Points
    BY <1>1, <1>3
  <2>2. Project(s) = result \o SubSeq(s, 1, r)
    BY <1>3 DEF Project
  <2> HIDE DEF r
  <2>3. /\ Project(s) \in Seq(Nat) /\ Len(Project(s)) = Len(result) + r
        /\ \A i \in 1..Len(result) : Project(s)[i] = result[i]
        /\ \A i \in 1..r : Project(s)[Len(result) + i] = s[i]
    BY <1>1, <2>1, <2>2, Extended
  <2>4. Len(Project(s)) - Len(result) = r
    BY <1>1, <2>1, <2>3
  <2>5. QED
    BY <1>3, <2>1, <2>3, <2>4
<1>4. QED
  BY <1>2, <1>3

LEMMA ProjectedType ==
  ASSUME Typing, NEW s \in Seq(Nat)
  PROVE  Project(s) \in Seq(Nat) /\ Len(Project(s)) <= Points
<1>1. Points \in Nat /\ Len(result) \in Nat /\ Len(s) \in Nat
  BY Sizes DEF Typing
<1> DEFINE n == Len(result)
           m == Len(s)
           p == Len(Project(s))
<1>2. p = IF m < Points - n THEN n + m ELSE Points
  BY Projected
<1> HIDE DEF n, m, p
<1>3. p <= Points
  BY <1>1, <1>2 DEF n, m
<1>4. QED
  BY <1>3, Projected DEF p

(* The rest of the preamble's block and of the one before, and the last.   *)
LEMMA Remains ==
  ASSUME Typing, Len(blocks) = 4, \A i \in 1..4 : blocks[i] \in Block,
         NEW idx \in 0..(Size - 1)
  PROVE  /\ Rest(idx) \in Seq(Nat) /\ Len(Rest(idx)) = (Size - idx - 1) + Size + Size
         /\ SubSeq(blocks[2], idx + 2, Size) \in Seq(Nat)
         /\ Len(SubSeq(blocks[2], idx + 2, Size)) = Size - idx - 1
         /\ blocks[3] \in Seq(Nat) /\ Len(blocks[3]) = Size
         /\ blocks[4] \in Seq(Nat) /\ Len(blocks[4]) = Size
         /\ blocks[2] \in Seq(Nat) /\ Len(blocks[2]) = Size
<1> DEFINE a == blocks[2]
           b == blocks[3]
           c == blocks[4]
           t == SubSeq(a, idx + 2, Size)
<1>1. /\ a \in Seq(Nat) /\ Len(a) = Size /\ b \in Seq(Nat) /\ Len(b) = Size
      /\ c \in Seq(Nat) /\ Len(c) = Size
  BY DEF Block
<1> HIDE DEF a, b, c
<1>2. t \in Seq(Nat) /\ Len(t) = Size - idx - 1
  <2>1. Size \in Nat \ {0} /\ idx + 2 \in Nat \ {0} /\ idx + 1 <= Size
    BY Sizes
  <2>2. QED
    BY <1>1, <2>1, SMTT(30)
<1> HIDE DEF t
<1>3. t \o b \in Seq(Nat) /\ Len(t \o b) = (Size - idx - 1) + Size
  <2>1. t \o b \in Seq(Nat) /\ Len(t \o b) = Len(t) + Len(b)
    BY <1>1, <1>2, Catenated, ZenonT(30)
  <2>2. QED
    BY <1>1, <1>2, <2>1
<1>4. (t \o b) \o c \in Seq(Nat) /\ Len((t \o b) \o c) = (Size - idx - 1) + Size + Size
  <2>1. (t \o b) \o c \in Seq(Nat) /\ Len((t \o b) \o c) = Len(t \o b) + Len(c)
    BY <1>1, <1>3, Catenated, ZenonT(30)
  <2>2. QED
    BY <1>1, <1>3, <2>1
<1>5. Rest(idx) = (t \o b) \o c
  BY DEF Rest, t, a, b, c
<1>6. QED
  BY <1>1, <1>2, <1>4, <1>5 DEF t, a, b, c

LEMMA TypingTake ==
  ASSUME Typing, Take
  PROVE  Typing'
<1>1. /\ queue # <<>> /\ queue' = Tail(queue) /\ blocks' = Append(blocks, Head(queue))
      /\ search' \in {"decide", "listen"}
      /\ snr' = "zero" \/ snr' = snr
      /\ UNCHANGED <<receiver, rxData, block, caller, output, flag, feeder, result, peak>>
  BY DEF Take, Search
<1>2. queue \in Seq(Block) /\ blocks \in Seq(Seq(Nat)) /\ Block \subseteq Seq(Nat)
  BY DEF Typing, Block
<1>3. queue' \in Seq(Block) /\ Head(queue) \in Block
  BY <1>1, <1>2, HeadTail
<1>4. blocks' \in Seq(Seq(Nat))
  <2>1. Head(queue) \in Seq(Nat)
    BY <1>2, <1>3
  <2>2. QED
    BY <1>1, <1>2, <2>1, Appended
<1>5. snr' \in {"threshold", "zero", "found"} /\ search' \in Searches
  BY <1>1 DEF Typing, Searches
<1>6. QED
  BY <1>1, <1>3, <1>4, <1>5 DEF Typing, receiver, caller

LEMMA TypingCopy ==
  ASSUME Typing, Copy \/ CopyMore
  PROVE  Typing'
<1>1. CASE Copy
  <2>1. /\ blocks # <<>> /\ result' = Project(Head(blocks)) /\ blocks' = <<>>
        /\ search' = "copy"
        /\ UNCHANGED <<receiver, rxData, block, caller, output, flag, feeder, queue, snr, peak>>
    BY <1>1 DEF Copy, Search
  <2>2. Head(blocks) \in Seq(Nat) /\ blocks' \in Seq(Seq(Nat))
    BY <2>1, HeadTail DEF Typing
  <2>3. result' \in Seq(Nat) /\ Len(result') <= Points
    BY <2>1, <2>2, ProjectedType
  <2>4. QED
    BY <2>1, <2>2, <2>3 DEF Typing, Searches, receiver, caller
<1>2. CASE CopyMore
  <2>1. /\ queue # <<>> /\ queue' = Tail(queue) /\ result' = Project(Head(queue))
        /\ search' = "copy"
        /\ UNCHANGED <<receiver, rxData, block, caller, output, flag, feeder, blocks, snr, peak>>
    BY <1>2 DEF CopyMore, Search
  <2>2. Head(queue) \in Block /\ queue' \in Seq(Block)
    BY <2>1, HeadTail DEF Typing
  <2>3. Head(queue) \in Seq(Nat)
    BY <2>2 DEF Block
  <2>4. result' \in Seq(Nat) /\ Len(result') <= Points
    BY <2>1, <2>3, ProjectedType
  <2>5. QED
    BY <2>1, <2>2, <2>4 DEF Typing, Searches, receiver, caller
<1>3. QED
  BY <1>1, <1>2

LEMMA TypingFound ==
  ASSUME Typing, Phases, Found
  PROVE  Typing'
<1>1. PICK idx \in 0..(Size - 1) :
        /\ search = "decide" /\ search' = "copy" /\ snr' = "found"
        /\ peak' = blocks[3][idx + 1] /\ blocks' = <<Rest(idx)>>
        /\ UNCHANGED <<receiver, rxData, block, caller, output, flag, feeder, queue, result>>
  BY DEF Found, Search
<1>2. Len(blocks) = 4 /\ \A i \in 1..4 : blocks[i] \in Block
  BY <1>1 DEF Phases
<1>3. Rest(idx) \in Seq(Nat) /\ blocks[3] \in Seq(Nat) /\ Len(blocks[3]) = Size
  BY <1>2, Remains
<1>4. peak' \in Nat
  <2>1. idx + 1 \in 1..Len(blocks[3])
    BY <1>3, Sizes
  <2>2. QED
    BY <1>1, <1>3, <2>1
<1>5. blocks' \in Seq(Seq(Nat))
  <2> DEFINE r == Rest(idx)
             S == Seq(Nat)
  <2>1. r \in S /\ blocks' = <<r>>
    BY <1>1, <1>3
  <2> HIDE DEF r, S
  <2>2. blocks' \in Seq(S)
    BY <2>1
  <2>3. QED
    BY <2>2 DEF S
<1>6. QED
  BY <1>1, <1>4, <1>5 DEF Typing, Searches, receiver, caller

LEMMA TypingSearcher ==
  ASSUME Typing, Phases, Searcher
  PROVE  Typing'
<1>1. CASE GiveUp \/ Copied
  BY <1>1 DEF GiveUp, Copied, Search, Typing, Searches, receiver, caller
<1>2. CASE NotFound
  <2>1. /\ search = "decide" /\ search' = "listen" /\ blocks' = Tail(blocks)
        /\ UNCHANGED <<receiver, rxData, block, caller, output, flag, feeder, queue, snr,
                       result, peak>>
    BY <1>2 DEF NotFound, Search
  <2>2. blocks # <<>>
    <3>1. Len(blocks) = 4 /\ Len(<<>>) = 0
      BY <2>1 DEF Phases
    <3>2. QED
      BY <3>1
  <2>3. blocks' \in Seq(Seq(Nat))
    BY <2>1, <2>2, HeadTail DEF Typing
  <2>4. QED
    BY <2>1, <2>3 DEF Typing, Searches, receiver, caller
<1>3. CASE End
  <2>1. /\ search' = "none" /\ output' = FALSE /\ queue' = <<>> /\ blocks' = <<>>
        /\ UNCHANGED <<receiver, rxData, block, caller, flag, feeder, snr, result, peak>>
    BY <1>3 DEF End, Search, Gone
  <2>2. queue' \in Seq(Block) /\ blocks' \in Seq(Seq(Nat))
    BY <2>1
  <2>3. QED
    BY <2>1, <2>2 DEF Typing, Searches, receiver, caller
<1>4. QED
  BY <1>1, <1>2, <1>3, TypingTake, TypingFound, TypingCopy DEF Searcher

LEMMA TypingReceiver ==
  ASSUME Typing, Receive \/ Store
  PROVE  Typing'
<1>1. CASE Receive
  <2>1. /\ now' = (now + 1) % Numbers
        /\ held' = <<now>> \/ held' = <<>>
        /\ UNCHANGED <<store, feeding, queue, search, blocks, snr, result, caller, peak>>
    BY <1>1 DEF Receive
  <2>2. now' \in 0..(Numbers - 1)
    <3>1. now + 1 \in Int /\ Numbers \in Nat /\ Numbers > 0
      BY SizeAssumption DEF Typing
    <3>2. QED
      BY <2>1, <3>1, Division
  <2>3. held' \in Seq(Nat) /\ Len(held') <= 1
    <3>1. now \in Nat
      BY SizeAssumption DEF Typing
    <3>2. /\ <<now>> \in Seq(Nat) /\ Len(<<now>>) <= 1
          /\ <<>> \in Seq(Nat) /\ Len(<<>>) <= 1
      BY <3>1
    <3>3. QED
      BY <2>1, <3>2
  <2>4. QED
    BY <2>1, <2>2, <2>3 DEF Typing, store, feeding, caller
<1>2. CASE Store
  <2>1. /\ held # <<>> /\ Len(rxData) < Capacity /\ rxData' = rxData \o held /\ held' = <<>>
        /\ UNCHANGED <<now, output, feeding, queue, search, blocks, snr, result, caller, peak>>
    BY <1>2 DEF Store
  <2>2. rxData \in Seq(Nat) /\ held \in Seq(Nat) /\ Len(held) <= 1
    BY DEF Typing
  <2>3. Len(rxData') = Len(rxData) + Len(held) /\ rxData' \in Seq(Nat)
        /\ Len(rxData) \in Nat /\ Len(held) \in Nat
    BY <2>1, <2>2, Catenated
  <2>4. Len(rxData') <= Capacity
    BY <2>1, <2>2, <2>3, Sizes
  <2>5. held' \in Seq(Nat) /\ Len(held') <= 1
    BY <2>1
  <2>6. QED
    BY <2>1, <2>3, <2>4, <2>5 DEF Typing, feeding, caller
<1>3. QED
  BY <1>1, <1>2

LEMMA TypingScript ==
  ASSUME Typing, Clear \/ Open \/ Start \/ Started \/ Wait \/ Stop \/ Joined
  PROVE  Typing'
<1>1. CASE Clear
  <2>1. /\ script' = "cleared" /\ rxData' = <<>> /\ told' = FALSE
        /\ UNCHANGED <<receiver, peak, output, feeding, queue, search, blocks, snr, running,
                       result>>
    BY <1>1 DEF Clear, Script, Unstarted
  <2>2. rxData' \in Seq(Nat) /\ Len(rxData') <= Capacity
    BY <2>1, Sizes
  <2>3. QED
    BY <2>1, <2>2 DEF Typing, receiver, feeding
<1>2. CASE Start
  <2>1. /\ script' = "starting" /\ result' = <<>> /\ snr' = "threshold" /\ running' = TRUE
        /\ search' = "listen" /\ blocks' = <<>> /\ queue' = <<>>
        /\ flag' = TRUE /\ feeder' = TRUE /\ block' = <<>>
        /\ UNCHANGED <<receiver, peak, store, told>>
    BY <1>2 DEF Start, Script
  <2>2. /\ result' \in Seq(Nat) /\ Len(result') <= Points /\ blocks' \in Seq(Seq(Nat))
        /\ queue' \in Seq(Block) /\ block' \in Seq(Nat) /\ Len(block') < Size
    BY <2>1, Sizes
  <2>3. QED
    BY <2>1, <2>2 DEF Typing, Searches, Calling, receiver, store
<1>3. CASE Open \/ Started
  BY <1>3 DEF Open, Started, Script, Unstarted, Typing, Calling, receiver, store, feeding
<1>4. CASE Stop \/ Joined
  BY <1>4 DEF Stop, Joined, Script, Unstarted, Typing, Calling, receiver, store, feeding
<1>5. CASE Wait
  <2>1. /\ script' = script /\ told' = (snr # "zero")
        /\ UNCHANGED <<receiver, peak, store, feeding, queue, search, blocks, snr, running,
                       result>>
    BY <1>5 DEF Wait, Script, Unstarted
  <2>2. told' \in BOOLEAN
    BY <2>1
  <2>3. QED
    BY <2>1, <2>2 DEF Typing, receiver, store, feeding
<1>6. QED
  BY <1>1, <1>2, <1>3, <1>4, <1>5

LEMMA TypingStep ==
  ASSUME Typing, Phases, [Next]_vars
  PROVE  Typing'
<1>1. CASE UNCHANGED vars
  BY <1>1 DEF Typing, vars, receiver, store, feeding, caller
<1>2. CASE Next
  BY <1>2, TypingReceiver, TypingFeed, TypingSearcher, TypingScript DEF Next
<1>3. QED
  BY <1>1, <1>2

-----------------------------------------------------------------------------
(* What the threads have at hand, and what they told. *)

Others == Receive \/ Store \/ Feed

Small == Clear \/ Open \/ Started \/ Wait \/ Stop \/ Joined

LEMMA OthersStep ==
  ASSUME Others
  PROVE  UNCHANGED <<output, flag, search, blocks, snr, result, caller, peak>>
BY DEF Others, Receive, Store, Feed, store, feeding, caller

LEMMA SmallStep ==
  ASSUME Small
  PROVE  /\ UNCHANGED <<now, held, flag, feeder, block, queue, search, blocks, snr, result, peak>>
         /\ \/ script = "idle" /\ script' = "cleared" /\ ~running
               /\ rxData' = <<>> /\ told' = FALSE /\ UNCHANGED <<output, running>>
            \/ script = "cleared" /\ script' = "open"
               /\ output' = TRUE /\ UNCHANGED <<rxData, told, running>>
            \/ script = "starting" /\ script' = "started" /\ snr = "zero"
               /\ UNCHANGED <<rxData, output, told, running>>
            \/ script = "started" /\ script' = "started" /\ told' = (snr # "zero")
               /\ UNCHANGED <<rxData, output, running>>
            \/ script = "started" /\ script' = "stopping"
               /\ UNCHANGED <<rxData, output, told>>
            \/ script = "stopping" /\ script' = "idle" /\ search = "none"
               /\ UNCHANGED <<rxData, output, told, running>>
<1>1. CASE Clear
  BY <1>1 DEF Clear, Script, Unstarted, receiver, feeding
<1>2. CASE Open
  BY <1>2 DEF Open, Script, Unstarted, receiver, feeding
<1>3. CASE Started
  BY <1>3 DEF Started, Script, Unstarted, receiver, store, feeding
<1>4. CASE Wait
  BY <1>4 DEF Wait, Script, Unstarted, receiver, store, feeding
<1>5. CASE Stop
  BY <1>5 DEF Stop, Script, receiver, store, feeding
<1>6. CASE Joined
  BY <1>6 DEF Joined, Script, Unstarted, receiver, store, feeding
<1>7. QED
  BY <1>1, <1>2, <1>3, <1>4, <1>5, <1>6 DEF Small

LEMMA NotEmpty ==
  ASSUME NEW s, Len(s) # 0
  PROVE  s # <<>>
OBVIOUS

LEMMA UpToFour ==
  ASSUME NEW n \in Nat, NEW m \in Nat, n <= 3, m = n + 1
  PROVE  m <= 4 /\ (n = 3 => m = 4) /\ (n # 3 => m <= 3)
OBVIOUS

LEMMA PhasesStep ==
  ASSUME Typing, Listening, Phases, [Next]_vars
  PROVE  Phases'
<1>1. CASE Others
  <2>1. UNCHANGED <<output, flag, search, blocks, script>>
    BY <1>1, OthersStep DEF caller
  <2>2. QED
    BY <2>1 DEF Phases
<1>2. CASE Small
  <2>1. UNCHANGED <<flag, search, blocks>> /\ output' \in {output, TRUE}
    BY <1>2, SmallStep
  <2>2. search \in {"listen", "decide", "copy"} => output'
    BY <2>1 DEF Phases
  <2>3. script' = "open" => output'
    BY <1>2, SmallStep
  <2>4. QED
    BY <2>1, <2>2, <2>3 DEF Phases
<1>3. CASE Start
  <2>1. search' = "listen" /\ blocks' = <<>> /\ flag' = TRUE /\ output' = output
        /\ script = "open" /\ script' = "starting"
    BY <1>3 DEF Start, Script, store
  <2>2. Len(blocks') = 0 /\ 1..Len(blocks') = {}
    BY <2>1
  <2>3. output
    BY <2>1 DEF Phases
  <2>4. QED
    BY <2>1, <2>2, <2>3 DEF Phases
<1>4. CASE Searcher
  <2>0. script' = script /\ script # "open"
    <3>1. search # "none" /\ script' = script
      BY <1>4 DEF Searcher, Take, Found, GiveUp, NotFound, Copy, CopyMore, Copied, End,
                  Search, caller
    <3>2. QED
      BY <3>1 DEF Listening, Calling
  <2>1. CASE Take
    <3>1. /\ search = "listen" /\ search' = (IF Len(blocks) = 3 THEN "decide" ELSE "listen")
          /\ queue # <<>> /\ blocks' = Append(blocks, Head(queue)) /\ UNCHANGED <<output, flag>>
      BY <2>1 DEF Take, Search
    <3>2. Head(queue) \in Block /\ Head(queue) \in Seq(Nat)
      <4>1. Head(queue) \in Block
        BY <3>1, HeadTail DEF Typing
      <4>2. QED
        BY <4>1 DEF Block
    <3>3. /\ Len(blocks') = Len(blocks) + 1 /\ Len(blocks) \in Nat
          /\ \A i \in 1..Len(blocks) : blocks'[i] = blocks[i]
          /\ blocks'[Len(blocks) + 1] = Head(queue)
      BY <3>1, <3>2, Appended DEF Typing
    <3>4. Len(blocks) <= 3 /\ output /\ flag /\ \A i \in 1..Len(blocks) : blocks[i] \in Block
      BY <3>1 DEF Phases
    <3>5. \A i \in 1..Len(blocks') : blocks'[i] \in Block
      BY <3>2, <3>3, <3>4
    <3>6. Len(blocks') <= 4 /\ (Len(blocks) = 3 => Len(blocks') = 4)
          /\ (Len(blocks) # 3 => Len(blocks') <= 3)
      <4> DEFINE n == Len(blocks)
             m == Len(blocks')
      <4>1. n \in Nat /\ n <= 3 /\ m = n + 1
        BY <3>3, <3>4
      <4> HIDE DEF n, m
      <4>2. m \in Nat
        BY <4>1
      <4>3. m <= 4 /\ (n = 3 => m = 4) /\ (n # 3 => m <= 3)
        BY <4>1, <4>2, UpToFour
      <4>4. QED
        BY <4>3 DEF n, m
    <3>7. QED
      BY <2>0, <3>1, <3>4, <3>5, <3>6 DEF Phases
  <2>2. CASE Found
    <3>1. /\ search = "decide" /\ search' = "copy" /\ Len(blocks') = 1
          /\ UNCHANGED <<output, flag>>
      BY <2>2 DEF Found, Search
    <3>2. QED
      BY <2>0, <3>1 DEF Phases
  <2>3. CASE GiveUp
    BY <2>0, <2>3 DEF GiveUp, Search, Phases
  <2>4. CASE NotFound
    <3>1. /\ search = "decide" /\ search' = "listen" /\ blocks' = Tail(blocks)
          /\ UNCHANGED <<output, flag>>
      BY <2>4 DEF NotFound, Search
    <3>2. Len(blocks) = 4 /\ output /\ flag /\ \A i \in 1..Len(blocks) : blocks[i] \in Block
      BY <3>1 DEF Phases
    <3>3. blocks # <<>>
      <4>1. Len(blocks) # 0
        BY <3>2
      <4>2. QED
        BY <4>1, NotEmpty
    <3>4. Len(blocks') = 3 /\ \A i \in 1..3 : blocks'[i] = blocks[i + 1]
      <4>1. Len(blocks') = Len(blocks) - 1
        BY <3>1, <3>3, HeadTail DEF Typing
      <4>2. \A i \in 1..Len(blocks') : blocks'[i] = blocks[i + 1]
        BY <3>1, <3>3, HeadTail DEF Typing
      <4>3. Len(blocks') = 3
        BY <3>2, <4>1
      <4>4. QED
        BY <4>2, <4>3
    <3>5. \A i \in 1..Len(blocks') : blocks'[i] \in Block
      BY <3>2, <3>4
    <3>6. Len(blocks') = 3 /\ output' /\ flag'
      BY <3>1, <3>2, <3>4
    <3>7. QED
      BY <2>0, <3>1, <3>5, <3>6 DEF Phases
  <2>5. CASE Copy
    <3>1. /\ search = "copy" /\ search' = "copy" /\ blocks' = <<>> /\ UNCHANGED <<output, flag>>
      BY <2>5 DEF Copy, Search
    <3>2. Len(blocks') = 0
      BY <3>1
    <3>3. QED
      BY <2>0, <3>1, <3>2 DEF Phases
  <2>6. CASE CopyMore
    BY <2>0, <2>6 DEF CopyMore, Search, Phases
  <2>7. CASE Copied
    BY <2>0, <2>7 DEF Copied, Search, Phases
  <2>8. CASE End
    <3>1. search' = "none" /\ blocks' = <<>>
      BY <2>8 DEF End, Search, Gone
    <3>2. Len(blocks') = 0
      BY <3>1
    <3>3. QED
      BY <2>0, <3>1, <3>2 DEF Phases
  <2>9. QED
    BY <1>4, <2>1, <2>2, <2>3, <2>4, <2>5, <2>6, <2>7, <2>8 DEF Searcher
<1>5. CASE UNCHANGED vars
  <2>1. UNCHANGED <<output, flag, search, blocks, script>>
    BY <1>5 DEF vars, store, feeding, caller
  <2>2. QED
    BY <2>1 DEF Phases
<1>6. QED
  BY <1>1, <1>2, <1>3, <1>4, <1>5 DEF Next, Others, Small

LEMMA ReportsStep ==
  ASSUME Typing, Listening, Phases, Reports, Consecutive, [Next]_vars
  PROVE  Reports'
<1>1. CASE Others \/ UNCHANGED vars
  <2>1. UNCHANGED <<search, snr, result, script, told, peak>>
    BY <1>1, OthersStep DEF vars, caller
  <2>2. Complete' = Complete
    BY <2>1 DEF Complete, Expected
  <2>3. QED
    BY <2>1, <2>2 DEF Reports
<1>2. CASE Small
  <2>1. UNCHANGED <<search, snr, result, peak>>
    BY <1>2, SmallStep
  <2>2. Complete' = Complete
    BY <2>1 DEF Complete, Expected
  <2>3. script' = "started" => snr # "threshold"
    BY <1>2, SmallStep DEF Reports
  <2>4. told' => snr = "found" /\ script' \notin {"cleared", "open", "starting"}
    <3>1. CASE script = "started" /\ script' = "started" /\ told' = (snr # "zero")
      <4>1. snr # "threshold" /\ snr \in {"threshold", "zero", "found"}
        BY <3>1 DEF Reports, Typing
      <4>2. QED
        BY <3>1, <4>1
    <3>2. CASE UNCHANGED told /\ script' \in {"open", "started", "stopping", "idle"}
               /\ (script' = "open" => script = "cleared")
      BY <3>2 DEF Reports
    <3>3. CASE told' = FALSE
      BY <3>3
    <3>4. QED
      BY <1>2, SmallStep, <3>1, <3>2, <3>3
  <2>5. QED
    BY <2>1, <2>2, <2>3, <2>4 DEF Reports
<1>3. CASE Start
  <2>1. /\ script = "open" /\ script' = "starting" /\ result' = <<>> /\ snr' = "threshold"
        /\ search' = "listen" /\ told' = told
    BY <1>3 DEF Start, Script
  <2>2. QED
    BY <2>1 DEF Reports
<1>4. CASE Searcher
  <2>1. CASE Take
    <3>1. /\ search = "listen" /\ search' \in {"decide", "listen"}
          /\ search' = "decide" => snr' = "zero"
          /\ snr' \in {snr, "zero"} /\ UNCHANGED <<result, script, told>>
      BY <2>1 DEF Take, Search, caller
    <3>2. QED
      BY <3>1 DEF Reports
  <2>2. CASE Found
    <3>1. /\ search = "decide" /\ search' = "copy" /\ snr' = "found"
          /\ UNCHANGED <<script, told>>
      BY <2>2 DEF Found, Search, caller
    <3>2. QED
      BY <3>1 DEF Reports
  <2>3. CASE GiveUp \/ NotFound
    <3>1. /\ search = "decide" /\ search' \in {"join", "listen"}
          /\ UNCHANGED <<snr, result, script, told>>
      BY <2>3 DEF GiveUp, NotFound, Search, caller
    <3>2. QED
      BY <3>1 DEF Reports
  <2>4. CASE Copy \/ CopyMore
    <3>1. /\ search = "copy" /\ search' = "copy"
          /\ UNCHANGED <<snr, script, told>>
      BY <2>4 DEF Copy, CopyMore, Search, caller
    <3>2. QED
      BY <3>1 DEF Reports
  <2>5. CASE Copied
    <3>1. /\ search = "copy" /\ search' = "join" /\ Len(result) = Points
          /\ UNCHANGED <<snr, result, script, told, peak>>
      BY <2>5 DEF Copied, Search, caller
    <3>2. \A i \in 1..Len(result) : result[i] = Expected(i)
      BY <3>1 DEF Consecutive
    <3>3. Complete'
      BY <3>1, <3>2 DEF Complete, Expected
    <3>4. QED
      BY <3>1, <3>3 DEF Reports
  <2>6. CASE End
    <3>1. /\ search = "join" /\ search' = "none"
          /\ UNCHANGED <<snr, result, script, told, peak>>
      BY <2>6 DEF End, Search, caller
    <3>2. Complete' = Complete
      BY <3>1 DEF Complete, Expected
    <3>3. QED
      BY <3>1, <3>2 DEF Reports
  <2>7. QED
    BY <1>4, <2>1, <2>2, <2>3, <2>4, <2>5, <2>6 DEF Searcher
<1>5. QED
  BY <1>1, <1>2, <1>3, <1>4 DEF Next, Others, Small

-----------------------------------------------------------------------------
(* Consecutive parts. *)

LEMMA Distances ==
  ASSUME NEW b \in Int, NEW n \in Int, NEW i \in Int
  PROVE  /\ b + Size * (n - i + 1) \in Int
         /\ b + Size * ((n - 1) - i + 1) = b + Size * (n - (i + 1) + 1)
         /\ b + Size * (n - 1 + 1) = b + Size * n
<1>1. Size \in Int
  BY Sizes
<1>2. (n - 1) - i + 1 = n - (i + 1) + 1 /\ n - 1 + 1 = n /\ n - i + 1 \in Int
  OBVIOUS
<1> DEFINE x == n - i + 1
<1>3. x \in Int
  BY <1>2
<1> HIDE DEF x
<1>4. b + Size * x \in Int
  BY <1>1, <1>3
<1>5. QED
  BY <1>2, <1>4 DEF x

LEMMA RunsShift ==
  ASSUME NEW n \in Int, NEW q \in Seq(Seq(Nat)), NEW b \in Int, NEW l \in Int, Runs(n, q, b, l)
  PROVE  Runs((n + 1) % Numbers, q, b + 1, l + 1)
<1> SUFFICES ASSUME NEW i \in 1..Len(q)
             PROVE  Run((n + 1) % Numbers, q[i], (b + 1) + Size * (Len(q) - i + 1), l + 1)
  BY DEF Runs
<1> DEFINE d == b + Size * (Len(q) - i + 1)
<1>1. d \in Int /\ (b + 1) + Size * (Len(q) - i + 1) = d + 1
  <2>1. Len(q) \in Int /\ i \in Int
    OBVIOUS
  <2>2. b + Size * (Len(q) - i + 1) \in Int
    BY <2>1, Distances, Zenon
  <2>3. (b + 1) + Size * (Len(q) - i + 1) = (b + Size * (Len(q) - i + 1)) + 1
    <3> DEFINE x == Len(q) - i + 1
    <3>1. x \in Int /\ Size \in Int
      BY <2>1, Sizes
    <3> HIDE DEF x
    <3>2. (b + 1) + Size * x = (b + Size * x) + 1
      BY <3>1
    <3>3. QED
      BY <3>2 DEF x
  <2>4. QED
    BY <2>2, <2>3
<1>2. Run(n, q[i], d, l) /\ q[i] \in Seq(Nat)
  BY DEF Runs
<1> HIDE DEF d
<1>3. QED
  BY <1>1, <1>2, RunShift

LEMMA RunsLower ==
  ASSUME NEW n \in Int, NEW q \in Seq(Seq(Nat)), NEW b \in Int, NEW l \in Int, NEW m \in Int,
         m <= l, Runs(n, q, b, l)
  PROVE  Runs(n, q, b, m)
<1> SUFFICES ASSUME NEW i \in 1..Len(q)
             PROVE  Run(n, q[i], b + Size * (Len(q) - i + 1), m)
  BY DEF Runs
<1> DEFINE d == b + Size * (Len(q) - i + 1)
<1>1. d \in Int
  <2>1. Len(q) \in Int /\ i \in Int
    OBVIOUS
  <2>2. QED
    BY <2>1, Distances, Zenon
<1>2. Run(n, q[i], d, l) /\ q[i] \in Seq(Nat)
  BY DEF Runs
<1> HIDE DEF d
<1>3. Run(n, q[i], d, m)
  BY <1>1, <1>2, RunLower
<1>4. QED
  BY <1>3 DEF d

LEMMA RunsEmpty ==
  ASSUME NEW n, NEW b, NEW l
  PROVE  Runs(n, <<>>, b, l)
BY DEF Runs

LEMMA RunsAppend ==
  ASSUME NEW n \in Int, NEW q \in Seq(Seq(Nat)), NEW s \in Seq(Nat), NEW b \in Int, NEW l \in Int,
         Runs(n, q, b + Size, l), Run(n, s, b + Size, l)
  PROVE  Runs(n, Append(q, s), b, l)
<1> DEFINE p == Append(q, s)
           m == Len(q)
<1>1. Len(p) = m + 1 /\ m \in Nat /\ (\A i \in 1..m : p[i] = q[i]) /\ p[m + 1] = s
  BY Appended
<1> SUFFICES ASSUME NEW i \in 1..(m + 1)
             PROVE  Run(n, p[i], b + Size * ((m + 1) - i + 1), l)
  BY <1>1 DEF Runs
<1>2. CASE i \in 1..m
  <2>1. Run(n, q[i], (b + Size) + Size * (m - i + 1), l)
    BY <1>2 DEF Runs
  <2>2. b + Size * ((m + 1) - i + 1) = (b + Size) + Size * (m - i + 1)
    <3> DEFINE x == m - i + 1
    <3>1. x \in Int /\ (m + 1) - i + 1 = x + 1 /\ Size \in Int
      BY <1>1, Sizes
    <3> HIDE DEF x
    <3>2. b + Size * (x + 1) = (b + Size) + Size * x
      BY <3>1
    <3>3. QED
      BY <3>1, <3>2 DEF x
  <2>3. QED
    BY <1>1, <1>2, <2>1, <2>2
<1>3. CASE i = m + 1
  <2>1. b + Size * ((m + 1) - (m + 1) + 1) = b + Size
    <3>1. m \in Int /\ Size \in Int
      BY <1>1, Sizes
    <3>2. (m + 1) - (m + 1) + 1 = 1 /\ Size * 1 = Size
      BY <3>1
    <3>3. QED
      BY <3>2
  <2>2. QED
    BY <1>1, <1>3, <2>1
<1>4. QED
  BY <1>1, <1>2, <1>3

LEMMA RunsHeadTail ==
  ASSUME NEW n \in Int, NEW q \in Seq(Seq(Nat)), q # <<>>, NEW b \in Int, NEW l \in Int,
         Runs(n, q, b, l)
  PROVE  /\ Run(n, Head(q), b + Size * Len(q), l)
         /\ Runs(n, Tail(q), b, l)
<1> DEFINE t == Tail(q)
           m == Len(q)
<1>1. /\ Head(q) = q[1] /\ m \in Nat \ {0} /\ Len(t) = m - 1
      /\ \A i \in 1..Len(t) : t[i] = q[i + 1]
  BY HeadTail
<1>2. \A i \in 1..m : Run(n, q[i], b + Size * (m - i + 1), l)
  BY DEF Runs
<1> HIDE DEF t, m
<1>3. Run(n, Head(q), b + Size * m, l)
  <2>1. 1 \in 1..m /\ b + Size * (m - 1 + 1) = b + Size * m
    BY <1>1, Distances
  <2>2. QED
    BY <1>1, <1>2, <2>1
<1>4. ASSUME NEW i \in 1..(m - 1)
      PROVE  Run(n, t[i], b + Size * ((m - 1) - i + 1), l)
  <2>1. i + 1 \in 1..m /\ t[i] = q[i + 1]
    BY <1>1
  <2>2. b + Size * ((m - 1) - i + 1) = b + Size * (m - (i + 1) + 1)
    BY <1>1, Distances
  <2>3. Run(n, q[i + 1], b + Size * (m - (i + 1) + 1), l)
    BY <1>2, <2>1
  <2>4. QED
    BY <2>1, <2>2, <2>3
<1>5. QED
  BY <1>1, <1>3, <1>4 DEF Runs, t, m

LEMMA RunsJoin ==
  ASSUME NEW n \in Int, NEW q \in Seq(Seq(Nat)), NEW p \in Seq(Seq(Nat)), NEW b \in Int,
         NEW l \in Int, Runs(n, q, b + Size * Len(p), l), Runs(n, p, b, l)
  PROVE  Runs(n, q \o p, b, l)
<1> DEFINE x == Len(q)
           y == Len(p)
           r == q \o p
<1>1. /\ Len(r) = x + y /\ x \in Nat /\ y \in Nat
      /\ \A i \in 1..x : r[i] = q[i]
      /\ \A i \in 1..y : r[x + i] = p[i]
  BY Catenated
<1>2. /\ \A i \in 1..x : Run(n, q[i], (b + Size * y) + Size * (x - i + 1), l)
      /\ \A i \in 1..y : Run(n, p[i], b + Size * (y - i + 1), l)
  BY DEF Runs
<1> HIDE DEF x, y, r
<1> SUFFICES ASSUME NEW i \in 1..(x + y)
             PROVE  Run(n, r[i], b + Size * ((x + y) - i + 1), l)
  BY <1>1 DEF Runs, r
<1>3. CASE i \in 1..x
  <2>1. (b + Size * y) + Size * (x - i + 1) = b + Size * ((x + y) - i + 1)
    <3> DEFINE z == x - i + 1
    <3>1. z \in Int /\ (x + y) - i + 1 = y + z /\ Size \in Int /\ y \in Int
      BY <1>1, Sizes
    <3> HIDE DEF z
    <3>2. Size * (y + z) = Size * y + Size * z /\ Size * y \in Int /\ Size * z \in Int
      BY <3>1
    <3>3. QED
      BY <3>1, <3>2 DEF z
  <2>2. QED
    BY <1>1, <1>2, <1>3, <2>1
<1>4. CASE i \notin 1..x
  <2> DEFINE j == i - x
  <2>1. j \in 1..y /\ i = x + j /\ (x + y) - i + 1 = y - j + 1
    BY <1>1, <1>4
  <2> HIDE DEF j
  <2>2. QED
    BY <1>1, <1>2, <2>1
<1>5. QED
  BY <1>3, <1>4

(* The blocks that Feed takes out of the samples.                          *)
LEMMA RunsParts ==
  ASSUME NEW n \in Int, NEW s \in Seq(Nat), NEW d \in Int, NEW l \in Int, Run(n, s, d, l),
         NEW p, Len(p) = Full(s),
         \A i \in 1..Full(s) : p[i] = SubSeq(s, (i - 1) * Size + 1, i * Size)
  PROVE  Runs(n, p, d - Full(s) * Size, l)
<1> DEFINE f == Full(s)
<1>1. f \in Nat /\ f * Size \in Nat /\ Size \in Nat
  BY Parts, Sizes
<1> SUFFICES ASSUME NEW i \in 1..f
             PROVE  Run(n, p[i], (d - f * Size) + Size * (f - i + 1), l)
  BY DEF Runs
<1> DEFINE x == (i - 1) * Size
           y == i * Size
<1>2. /\ x + 1 \in Nat \ {0} /\ y \in Nat /\ y <= Len(s) /\ y = x + Size
      /\ p[i] = SubSeq(s, x + 1, y)
  BY PartOf
<1>3. x \in Int
  BY <1>1
<1>4. (d - f * Size) + Size * (f - i + 1) = d - (x + 1) + 1
  <2>1. Size * (f - i + 1) = f * Size - (i - 1) * Size
    <3>1. f \in Int /\ i - 1 \in Int /\ f - i + 1 = f - (i - 1) /\ Size \in Int
      BY <1>1
    <3> DEFINE j == i - 1
    <3> HIDE DEF j, f
    <3>2. Size * (f - j) = f * Size - j * Size
      BY <3>1 DEF j
    <3>3. QED
      BY <3>1, <3>2 DEF j
  <2> DEFINE g == f * Size
             h == Size * (f - i + 1)
  <2>2. g \in Int /\ x \in Int /\ h = g - x
    BY <1>1, <1>3, <2>1
  <2> HIDE DEF g, h, x
  <2>3. (d - g) + h = d - (x + 1) + 1
    BY <2>2
  <2>4. QED
    BY <2>3 DEF g, h
<1>5. Run(n, SubSeq(s, x + 1, y), d - (x + 1) + 1, l)
  <2> HIDE DEF x, y
  <2>1. (x + 1) - 1 <= y
    BY <1>1, <1>2, <1>3
  <2>2. QED
    BY <1>2, <1>3, <2>1, RunCut
<1>6. QED
  BY <1>2, <1>4, <1>5

-----------------------------------------------------------------------------
(* The samples stay consecutive. *)

(* The samples at hand begin at these distances.                           *)
LEMMA Places ==
  ASSUME Typing
  PROVE  /\ now \in Int /\ Len(held) \in Nat /\ Len(rxData) \in Nat
         /\ Stored \in Nat /\ Gathered \in Nat /\ Queued \in Nat
         /\ Oldest \in Int /\ Uncopied \in Nat
         /\ Stored <= Gathered /\ Gathered <= Queued
         /\ Queued = Gathered + Size * Len(queue)
         /\ Queued <= Oldest + 1 /\ Queued <= Uncopied
         /\ queue \in Seq(Seq(Nat)) /\ blocks \in Seq(Seq(Nat))
<1>1. /\ now \in Int /\ Len(held) \in Nat /\ Len(rxData) \in Nat
      /\ Len(block) \in Nat /\ Len(queue) \in Nat /\ Len(blocks) \in Nat
      /\ blocks \in Seq(Seq(Nat))
  BY Sizes DEF Typing
<1>2. queue \in Seq(Seq(Nat))
  <2>1. Block \subseteq Seq(Nat) /\ queue \in Seq(Block)
    BY DEF Block, Typing
  <2> DEFINE S == Seq(Nat)
  <2>2. Block \subseteq S
    BY <2>1
  <2> HIDE DEF S
  <2>3. queue \in Seq(S)
    BY <2>1, <2>2
  <2>4. QED
    BY <2>3 DEF S
<1>3. Stored \in Nat /\ Gathered \in Nat /\ Stored <= Gathered
  BY <1>1 DEF Stored, Gathered
<1>4. Size * Len(queue) \in Nat /\ Size * Len(blocks) \in Nat
  BY <1>1, Sizes
<1>5. Queued \in Nat /\ Gathered <= Queued /\ Queued = Gathered + Size * Len(queue)
  BY <1>3, <1>4 DEF Queued
<1>6. Oldest \in Int /\ Queued <= Oldest + 1
  BY <1>4, <1>5 DEF Oldest
<1>7. Uncopied \in Nat /\ Queued <= Uncopied
  <2>1. CASE blocks = <<>>
    BY <1>5, <2>1 DEF Uncopied
  <2>2. CASE blocks # <<>>
    <3>1. blocks[1] \in Seq(Nat)
      BY <1>1, <2>2, HeadTail
    <3> DEFINE b == Len(blocks[1])
    <3>2. b \in Nat
      BY <3>1
    <3>3. Uncopied = Queued + b
      BY <2>2 DEF Uncopied
    <3> HIDE DEF b
    <3>4. QED
      BY <1>5, <3>2, <3>3
  <2>3. QED
    BY <2>1, <2>2
<1>8. QED
  BY <1>1, <1>2, <1>3, <1>5, <1>6, <1>7

LEMMA Followed ==
  ASSUME Typing, Receive, output, NEW l \in Int, Arrived(l), Passed(l)
  PROVE  /\ now' = (now + 1) % Numbers
         /\ Stored' = Stored + 1 /\ Gathered' = Gathered + 1 /\ Queued' = Queued + 1
         /\ Run(now', held', Len(held'), l + 1) /\ Run(now', rxData', Stored', l + 1)
         /\ Run(now', block', Gathered', l + 1) /\ Runs(now', queue', Gathered', l + 1)
<1>1. /\ held = <<>> /\ now' = (now + 1) % Numbers /\ held' = <<now>>
      /\ UNCHANGED <<rxData, block, queue>>
  BY DEF Receive, store, feeding
<1>2. Len(held) = 0 /\ Len(held') = 1
  BY <1>1
<1>3. Stored' = Stored + 1
  BY <1>1, <1>2, Places DEF Stored
<1>4. Gathered' = Gathered + 1
  <2>1. Len(block) \in Nat
    BY DEF Typing
  <2>2. QED
    BY <1>1, <1>3, <2>1, Places, SMTT(30) DEF Gathered
<1>5. Queued' = Queued + 1
  <2>1. Queued' = Gathered' + Size * Len(queue) /\ Queued = Gathered + Size * Len(queue)
    BY <1>1 DEF Queued
  <2> DEFINE x == Size * Len(queue)
  <2>2. x \in Nat
    <3>1. Len(queue) \in Nat
      BY DEF Typing
    <3>2. QED
      BY <3>1, Sizes
  <2> HIDE DEF x
  <2>3. Gathered + 1 + x = (Gathered + x) + 1
    BY <2>2, Places
  <2>4. QED
    BY <1>4, <2>1, <2>3 DEF x
<1>6. Run(now', held', Len(held'), l + 1)
  <2>1. now \in 0..(Numbers - 1)
    BY DEF Typing
  <2>2. QED
    BY <1>1, <1>2, <2>1, RunNew
<1>7. Run(now', rxData', Stored', l + 1)
  <2>1. rxData \in Seq(Nat) /\ Run(now, rxData, Stored, l)
    BY DEF Typing, Arrived
  <2>2. QED
    BY <1>1, <1>3, <2>1, Places, RunShift, SMTT(30)
<1>8. Run(now', block', Gathered', l + 1) /\ Runs(now', queue', Gathered', l + 1)
  <2>1. block \in Seq(Nat) /\ Run(now, block, Gathered, l) /\ Runs(now, queue, Gathered, l)
    BY DEF Typing, Passed
  <2>2. Run((now + 1) % Numbers, block, Gathered + 1, l + 1)
    BY <2>1, Places, RunShift, SMTT(30)
  <2>3. Runs((now + 1) % Numbers, queue, Gathered + 1, l + 1)
    BY <2>1, Places, RunsShift, SMTT(30)
  <2>4. QED
    BY <1>1, <1>4, <2>2, <2>3
<1>9. QED
  BY <1>1, <1>3, <1>4, <1>5, <1>6, <1>7, <1>8

LEMMA OnReceive ==
  ASSUME Typing, Listening, Phases, Consecutive, Receive
  PROVE  Consecutive'
<1>1. UNCHANGED <<output, rxData, block, queue, search, blocks, snr, result, script, peak>>
  BY DEF Receive, store, feeding, caller
<1>2. script' = "cleared" => Stored' <= 1
  <2> SUFFICES ASSUME script = "cleared"
               PROVE  Stored' <= 1
    BY <1>1
  <2>1. ~output
    BY DEF Listening, Calling
  <2>2. held' = held
    BY <2>1 DEF Receive
  <2>3. QED
    BY <1>1, <2>2 DEF Stored, Consecutive
<1>3. script' = "open" => Arrived(Stored - 1)'
  <2> SUFFICES ASSUME script = "open"
               PROVE  Arrived(Stored - 1)'
    BY <1>1
  <2>1. output /\ Arrived(Stored - 1)
    BY DEF Phases, Consecutive
  <2> DEFINE l == Stored - 1
  <2>2. now' = (now + 1) % Numbers /\ held = <<>> /\ held' = <<now>>
    BY <2>1 DEF Receive
  <2>3. Len(held) = 0 /\ Len(held') = 1
    BY <2>2
  <2>4. l \in Int /\ Stored' = Stored + 1 /\ Stored' - 1 = l + 1
    BY <1>1, <2>3, Places DEF Stored
  <2>5. Run(now', held', Len(held'), l + 1)
    <3>1. now \in 0..(Numbers - 1)
      BY DEF Typing
    <3>2. QED
      BY <2>2, <2>3, <3>1, RunNew
  <2>6. Run(now', rxData', Stored', l + 1)
    <3>1. rxData \in Seq(Nat) /\ Run(now, rxData, Stored, l)
      BY <2>1 DEF Typing, Arrived
    <3> HIDE DEF l
    <3>2. QED
      BY <1>1, <2>2, <2>4, <3>1, Places, RunShift, SMTT(30)
  <2>7. QED
    BY <2>4, <2>5, <2>6 DEF Arrived
<1>4. search' \in {"listen", "decide"} =>
        Arrived(Oldest)' /\ Passed(Oldest)' /\ Searched(Oldest)'
  <2> SUFFICES ASSUME search \in {"listen", "decide"}
               PROVE  Arrived(Oldest)' /\ Passed(Oldest)' /\ Searched(Oldest)'
    BY <1>1
  <2>1. output /\ Arrived(Oldest) /\ Passed(Oldest) /\ Searched(Oldest)
    BY DEF Phases, Consecutive
  <2>2. Oldest \in Int
    BY Places
  <2>3. /\ now' = (now + 1) % Numbers /\ Queued' = Queued + 1
        /\ Run(now', held', Len(held'), Oldest + 1) /\ Run(now', rxData', Stored', Oldest + 1)
        /\ Run(now', block', Gathered', Oldest + 1) /\ Runs(now', queue', Gathered', Oldest + 1)
    BY <2>1, <2>2, Followed
  <2>4. Oldest' = Oldest + 1
    <3> DEFINE x == Size * Len(blocks)
    <3>1. x \in Nat
      <4>1. Len(blocks) \in Nat
        BY DEF Typing
      <4>2. QED
        BY <4>1, Sizes
    <3>2. Oldest' = Queued' + x - 1 /\ Oldest = Queued + x - 1
      BY <1>1 DEF Oldest
    <3>3. Queued' = Queued + 1 /\ Queued \in Nat
      BY <2>3, Places
    <3> HIDE DEF x
    <3>4. QED
      BY <3>1, <3>2, <3>3
  <2>5. Runs(now', blocks', Queued', Oldest')
    <3>1. Runs(now, blocks, Queued, Oldest)
      BY <2>1 DEF Searched
    <3>2. Runs((now + 1) % Numbers, blocks, Queued + 1, Oldest + 1)
      BY <3>1, Places, RunsShift
    <3>3. QED
      BY <1>1, <2>3, <2>4, <3>2
  <2>6. QED
    BY <2>3, <2>4, <2>5 DEF Arrived, Passed, Searched
<1>5. ASSUME search = "copy"
      PROVE  /\ Arrived(Uncopied)' /\ Passed(Uncopied)'
             /\ blocks # <<>> => Run(now, blocks[1], Uncopied, Uncopied)' /\ result = <<>>
             /\ \A i \in 1..Len(result) : result[i] = Expected(i)
             /\ Len(result) < Points => (now' - Uncopied') % Numbers = Expected(Len(result) + 1)
  <2>1. /\ output /\ Arrived(Uncopied) /\ Passed(Uncopied)
        /\ blocks # <<>> => Run(now, blocks[1], Uncopied, Uncopied) /\ result = <<>>
        /\ \A i \in 1..Len(result) : result[i] = Expected(i)
        /\ Len(result) < Points => (now - Uncopied) % Numbers = Expected(Len(result) + 1)
    BY <1>5 DEF Phases, Consecutive
  <2>2. /\ now' = (now + 1) % Numbers /\ Queued' = Queued + 1
        /\ Run(now', held', Len(held'), Uncopied + 1) /\ Run(now', rxData', Stored', Uncopied + 1)
        /\ Run(now', block', Gathered', Uncopied + 1)
        /\ Runs(now', queue', Gathered', Uncopied + 1)
    <3>1. Uncopied \in Int
      BY Places
    <3>2. QED
      BY <2>1, <3>1, Followed
  <2>3. Uncopied' = Uncopied + 1
    <3>1. CASE blocks = <<>>
      BY <1>1, <2>2, <3>1, Places DEF Uncopied
    <3>2. CASE blocks # <<>>
      <4> DEFINE x == Len(blocks[1])
      <4>1. x \in Nat
        <5>1. blocks[1] \in Seq(Nat)
          BY <3>2, HeadTail DEF Typing
        <5>2. QED
          BY <5>1
      <4>2. Uncopied = Queued + x /\ Uncopied' = Queued' + x
        BY <1>1, <3>2 DEF Uncopied
      <4>3. Queued' = Queued + 1 /\ Queued \in Nat
        BY <2>2, Places
      <4> HIDE DEF x
      <4>4. QED
        BY <4>1, <4>2, <4>3
    <3>3. QED
      BY <3>1, <3>2
  <2>4. ASSUME blocks # <<>>
        PROVE  Run(now', blocks[1], Uncopied', Uncopied')
    <3>1. blocks[1] \in Seq(Nat)
      BY <2>4, HeadTail DEF Typing
    <3>2. Run(now, blocks[1], Uncopied, Uncopied)
      BY <2>1, <2>4
    <3>3. Uncopied \in Int /\ now \in Int
      BY Places
    <3>4. Run((now + 1) % Numbers, blocks[1], Uncopied + 1, Uncopied + 1)
      BY <3>1, <3>2, <3>3, RunShift
    <3>5. QED
      BY <2>2, <2>3, <3>4
  <2>5. (now' - Uncopied') % Numbers = (now - Uncopied) % Numbers
    <3> DEFINE a == now + 1
               j == 0 - (Uncopied + 1)
               m == a % Numbers
    <3>1. a \in Int /\ j \in Int /\ a + j = now - Uncopied /\ Uncopied \in Int
      BY Places, SMTT(30)
    <3>2. Numbers \in Nat /\ Numbers > 0
      BY SizeAssumption
    <3>3. m \in Int
      <4> HIDE DEF a
      <4>1. QED
        BY <3>1, <3>2, Division
    <3>4. (m + j) % Numbers = (a + j) % Numbers
      <4> HIDE DEF a, j
      <4>1. QED
        BY <3>1, <3>2, Ahead
    <3>5. now' - Uncopied' = m + j
      <4>1. now' = m /\ Uncopied' = Uncopied + 1
        BY <2>2, <2>3
      <4> HIDE DEF m
      <4>2. QED
        BY <3>1, <3>3, <4>1
    <3>6. QED
      BY <3>1, <3>4, <3>5
  <2>6. Run(now, blocks[1], Uncopied, Uncopied)' = Run(now', blocks[1], Uncopied', Uncopied')
    BY <1>1
  <2>7. QED
    BY <1>1, <2>1, <2>2, <2>3, <2>4, <2>5, <2>6 DEF Arrived, Passed
<1>6. UNCHANGED <<result, blocks, search>> /\ \A i : Expected(i)' = Expected(i)
  BY <1>1 DEF Expected
<1>7. QED
  BY <1>2, <1>3, <1>4, <1>5, <1>6 DEF Consecutive

LEMMA OnStore ==
  ASSUME Typing, Consecutive, Store
  PROVE  Consecutive'
<1>1. /\ held # <<>> /\ rxData' = rxData \o held /\ held' = <<>>
      /\ UNCHANGED <<now, block, queue, search, blocks, result, script, peak>>
  BY DEF Store, feeding, caller
<1>2. held \in Seq(Nat) /\ rxData \in Seq(Nat)
  BY DEF Typing
<1>3. /\ Len(held') = 0 /\ Len(rxData') = Len(rxData) + Len(held)
      /\ Len(held) \in Nat /\ Len(rxData) \in Nat
  <2>1. Len(rxData \o held) = Len(rxData) + Len(held)
    BY <1>2, Catenated
  <2>2. QED
    BY <1>1, <1>2, <2>1
<1>4. Stored' = Stored
  BY <1>3 DEF Stored
<1>5. Gathered' = Gathered /\ Queued' = Queued
  BY <1>1, <1>4 DEF Gathered, Queued
<1>6. Oldest' = Oldest /\ Uncopied' = Uncopied
  BY <1>1, <1>5 DEF Oldest, Uncopied
<1>7. ASSUME NEW l \in Int, Arrived(l)
      PROVE  Run(now', held', Len(held'), l) /\ Run(now', rxData', Stored', l)
  <2>1. Run(now, held, Len(held), l) /\ Run(now, rxData, Stored, l)
    BY <1>7 DEF Arrived
  <2>2. Stored \in Int /\ Stored - Len(rxData) = Len(held) /\ now \in Int
    BY <1>3, Places DEF Stored
  <2>3. Run(now, rxData \o held, Stored, l)
    BY <1>2, <2>1, <2>2, RunJoin
  <2>4. Run(now, <<>>, Len(held'), l)
    BY RunEmpty
  <2>5. QED
    BY <1>1, <1>4, <2>3, <2>4
<1>8. script' = "cleared" => Stored' <= 1
  BY <1>1, <1>4 DEF Consecutive
<1>9. script' = "open" => Arrived(Stored - 1)'
  <2> SUFFICES ASSUME script = "open"
               PROVE  Arrived(Stored - 1)'
    BY <1>1
  <2> DEFINE l == Stored - 1
  <2>1. l \in Int /\ Arrived(l) /\ Stored' - 1 = l
    BY <1>4, Places DEF Consecutive
  <2> HIDE DEF l
  <2>2. Run(now', held', Len(held'), l) /\ Run(now', rxData', Stored', l)
    BY <1>7, <2>1
  <2>3. QED
    BY <2>1, <2>2 DEF Arrived
<1>10. search' \in {"listen", "decide"} =>
         Arrived(Oldest)' /\ Passed(Oldest)' /\ Searched(Oldest)'
  <2> SUFFICES ASSUME search \in {"listen", "decide"}
               PROVE  Arrived(Oldest)' /\ Passed(Oldest)' /\ Searched(Oldest)'
    BY <1>1
  <2>1. Arrived(Oldest) /\ Passed(Oldest) /\ Searched(Oldest) /\ Oldest \in Int
    BY Places DEF Consecutive
  <2>2. Run(now', held', Len(held'), Oldest) /\ Run(now', rxData', Stored', Oldest)
    BY <1>7, <2>1
  <2>3. QED
    BY <1>1, <1>5, <1>6, <2>1, <2>2 DEF Arrived, Passed, Searched
<1>11. ASSUME search = "copy"
       PROVE  /\ Arrived(Uncopied)' /\ Passed(Uncopied)'
              /\ blocks # <<>> => Run(now', blocks[1], Uncopied', Uncopied') /\ result = <<>>
              /\ \A i \in 1..Len(result) : result[i] = Expected(i)
              /\ Len(result) < Points => (now' - Uncopied') % Numbers = Expected(Len(result) + 1)
  <2>1. /\ Arrived(Uncopied) /\ Passed(Uncopied) /\ Uncopied \in Int
        /\ blocks # <<>> => Run(now, blocks[1], Uncopied, Uncopied) /\ result = <<>>
        /\ \A i \in 1..Len(result) : result[i] = Expected(i)
        /\ Len(result) < Points => (now - Uncopied) % Numbers = Expected(Len(result) + 1)
    BY <1>11, Places DEF Consecutive
  <2>2. Run(now', held', Len(held'), Uncopied) /\ Run(now', rxData', Stored', Uncopied)
    BY <1>7, <2>1
  <2>3. QED
    BY <1>1, <1>5, <1>6, <2>1, <2>2 DEF Arrived, Passed
<1>12. UNCHANGED <<result, blocks, search, now>> /\ \A i : Expected(i)' = Expected(i)
  BY <1>1 DEF Expected
<1>13. Run(now, blocks[1], Uncopied, Uncopied)' = Run(now', blocks[1], Uncopied', Uncopied')
  BY <1>1
<1>14. QED
  BY <1>8, <1>9, <1>10, <1>11, <1>12, <1>13 DEF Consecutive

LEMMA Fed ==
  ASSUME Typing, Feed, flag
  PROVE  /\ Gathered' \in Nat /\ Queued' = Queued
         /\ \A l \in Int : Arrived(l) /\ Passed(l) =>
              /\ Run(now, held, Len(held), l) /\ Run(now, rxData', Stored', l)
              /\ Run(now, block', Gathered', l) /\ Runs(now, queue', Gathered', l)
<1>1. PICK s \in Seq(Nat), t \in Seq(Nat), u \in Seq(Nat), p \in Seq(Block) :
        /\ Len(rxData) >= Chunk
        /\ t = SubSeq(rxData, 1, Chunk) /\ Len(t) = Chunk
        /\ s = block \o t /\ Len(s) = Len(block) + Chunk
        /\ rxData' = SubSeq(rxData, Chunk + 1, Len(rxData))
        /\ Len(rxData') = Len(rxData) - Chunk
        /\ Len(p) = Full(s) /\ queue' = queue \o p
        /\ \A i \in 1..Full(s) : p[i] = SubSeq(s, (i - 1) * Size + 1, i * Size)
        /\ u = SubSeq(s, Full(s) * Size + 1, Len(s)) /\ Len(u) = Len(s) - Full(s) * Size
        /\ block' = u /\ held' = held
  BY FeedStep, ZenonT(30)
<1> DEFINE f == Full(s)
           x == f * Size
           y == Size * Len(queue)
<1>2. /\ f \in Nat /\ x \in Nat /\ x <= Len(s) /\ Chunk \in Nat \ {0}
      /\ Len(queue) \in Nat /\ Len(s) \in Nat
  <2>1. f \in Nat /\ x \in Nat /\ x <= Len(s)
    BY Parts
  <2>2. Len(queue) \in Nat /\ Len(s) \in Nat
    BY DEF Typing
  <2>3. QED
    BY <2>1, <2>2, Sizes
<1>3. y \in Nat /\ Size * f = x
  BY <1>2, Sizes
<1>4. Stored' = Stored - Chunk
  <2> DEFINE a == Len(held)
             b == Len(rxData)
             c == Len(rxData')
             d == Len(held')
  <2>1. a \in Nat /\ b \in Nat /\ c = b - Chunk /\ d = a /\ Chunk \in Nat
    BY <1>1, <1>2, Places
  <2>2. Stored = a + b /\ Stored' = d + c
    BY DEF Stored
  <2> HIDE DEF a, b, c, d
  <2>3. QED
    BY <2>1, <2>2
<1>5. Gathered' = Gathered - x /\ Gathered' \in Nat /\ Gathered \in Nat /\ Stored \in Nat
      /\ Gathered - Len(block) = Stored /\ Gathered - Chunk \in Int
  <2> DEFINE b == Len(block)
             c == Len(block')
  <2>1. b \in Nat /\ c = (b + Chunk) - x /\ x <= b + Chunk
    BY <1>1, <1>2 DEF Typing
  <2>2. Gathered = Stored + b /\ Gathered' = Stored' + c
    BY DEF Gathered
  <2>3. Stored - Chunk \in Nat /\ Stored \in Nat
    BY <1>1, <1>2, Places DEF Stored
  <2> HIDE DEF b, c, x
  <2>4. /\ Gathered' = Gathered - x /\ Gathered' \in Nat /\ Gathered \in Nat
        /\ Gathered - b = Stored /\ Gathered - Chunk \in Int
    BY <1>2, <1>4, <2>1, <2>2, <2>3
  <2>5. QED
    BY <2>3, <2>4 DEF b
<1>6. Queued' = Queued
  <2>1. Len(queue') = Len(queue) + f
    <3>1. queue \in Seq(Block)
      BY DEF Typing
    <3>2. Len(queue \o p) = Len(queue) + Len(p)
      BY <3>1, Catenated
    <3>3. QED
      BY <1>1, <3>2
  <2>2. Size * (Len(queue) + f) = y + x
    <3> DEFINE n == Len(queue)
    <3>1. Size \in Nat /\ n \in Nat /\ f \in Nat
      BY <1>2, Sizes
    <3> HIDE DEF n, f
    <3>2. Size * (n + f) = Size * n + f * Size
      BY <3>1
    <3>3. QED
      BY <3>2 DEF n
  <2>3. Queued' = Gathered' + (y + x) /\ Queued = Gathered + y
    BY <2>1, <2>2 DEF Queued
  <2> HIDE DEF x, y
  <2>4. QED
    BY <1>2, <1>3, <1>5, <2>3
<1>7. ASSUME NEW l \in Int, Arrived(l), Passed(l)
      PROVE  /\ Run(now, held, Len(held), l) /\ Run(now, rxData', Stored', l)
             /\ Run(now, block', Gathered', l) /\ Runs(now, queue', Gathered', l)
  <2>1. /\ Run(now, held, Len(held), l) /\ Run(now, rxData, Stored, l)
        /\ Run(now, block, Gathered, l) /\ Runs(now, queue, Gathered, l)
        /\ rxData \in Seq(Nat) /\ block \in Seq(Nat) /\ now \in Int /\ Len(rxData) \in Nat
    BY <1>7, Places DEF Arrived, Passed, Typing
  <2>2. Run(now, rxData', Stored', l)
    <3> DEFINE a == Chunk + 1
               b == Len(rxData)
    <3>1. a \in Nat \ {0} /\ b \in Int /\ a - 1 <= b /\ b <= Len(rxData)
          /\ Stored - a + 1 = Stored - Chunk /\ Stored \in Int
      BY <1>1, <1>2, <1>5, <2>1
    <3>2. rxData' = SubSeq(rxData, a, b)
      BY <1>1
    <3> HIDE DEF a, b
    <3>3. Run(now, SubSeq(rxData, a, b), Stored - a + 1, l)
      BY <2>1, <3>1, RunCut
    <3>4. QED
      BY <1>4, <3>1, <3>2, <3>3
  <2>3. Run(now, t, Stored, l)
    <3>1. /\ 1 \in Nat \ {0} /\ Chunk \in Int /\ 1 - 1 <= Chunk /\ Chunk <= Len(rxData)
          /\ Stored \in Int /\ Stored - 1 + 1 = Stored
      BY <1>1, <1>2, <1>5, <2>1
    <3>2. Run(now, SubSeq(rxData, 1, Chunk), Stored - 1 + 1, l)
      BY <2>1, <3>1, RunCut
    <3>3. QED
      BY <1>1, <3>1, <3>2
  <2>4. Run(now, s, Gathered, l)
    <3>1. Gathered \in Int /\ Run(now, t, Gathered - Len(block), l)
      BY <1>5, <2>3
    <3>2. Run(now, block \o t, Gathered, l)
      BY <2>1, <3>1, RunJoin
    <3>3. QED
      BY <1>1, <3>2
  <2>5. Run(now, u, Gathered', l)
    <3> DEFINE a == x + 1
               b == Len(s)
    <3>1. a \in Nat \ {0} /\ b \in Int /\ a - 1 <= b /\ b <= Len(s)
          /\ Gathered - a + 1 = Gathered - x /\ Gathered \in Int
      <4> HIDE DEF x
      <4>1. QED
        BY <1>2, <1>5
    <3>2. u = SubSeq(s, a, b)
      BY <1>1
    <3> HIDE DEF a, b
    <3>3. Run(now, SubSeq(s, a, b), Gathered - a + 1, l)
      BY <2>1, <2>4, <3>1, RunCut
    <3>4. QED
      BY <1>5, <3>1, <3>2, <3>3
  <2>6. Runs(now, queue', Gathered', l)
    <3> DEFINE g == Gathered - x
    <3>1. g \in Int /\ g + Size * Len(p) = Gathered /\ Gathered' = g /\ Gathered \in Int
      <4>1. Size * Len(p) = x
        BY <1>1, <1>3
      <4> HIDE DEF x
      <4>2. QED
        BY <1>2, <1>5, <4>1
    <3>2. Runs(now, p, g, l)
      <4>1. Len(p) = Full(s)
            /\ \A i \in 1..Full(s) : p[i] = SubSeq(s, (i - 1) * Size + 1, i * Size)
        BY <1>1
      <4>2. Runs(now, p, Gathered - Full(s) * Size, l)
        BY <2>1, <2>4, <3>1, <4>1, RunsParts
      <4>3. QED
        BY <4>2
    <3>3. p \in Seq(Seq(Nat)) /\ queue \in Seq(Seq(Nat))
      <4>1. Block \subseteq Seq(Nat)
        BY DEF Block
      <4> DEFINE S == Seq(Nat)
      <4>2. Block \subseteq S
        BY <4>1
      <4> HIDE DEF S
      <4>3. p \in Seq(S)
        BY <4>2
      <4>4. QED
        BY <4>3, Places DEF S
    <3> HIDE DEF g
    <3>4. Runs(now, queue, g + Size * Len(p), l)
      BY <2>1, <3>1
    <3>5. Runs(now, queue \o p, g, l)
      BY <2>1, <3>1, <3>2, <3>3, <3>4, RunsJoin
    <3>6. QED
      BY <1>1, <3>1, <3>5
  <2>7. QED
    BY <1>1, <2>1, <2>2, <2>5, <2>6
<1>8. QED
  BY <1>5, <1>6, <1>7

LEMMA OnFeed ==
  ASSUME Typing, Listening, Phases, Consecutive, Feed
  PROVE  Consecutive'
<1>1. feeder /\ UNCHANGED <<now, held, search, blocks, result, script, peak>>
  BY DEF Feed, receiver, caller
<1>2. script \in Calling /\ search # "none"
  BY <1>1 DEF Listening
<1>3. script' \notin {"cleared", "open"}
  BY <1>1, <1>2 DEF Calling
<1>4. CASE flag
  <2>1. Queued' = Queued
    BY <1>4, Fed
  <2>2. Oldest' = Oldest /\ Uncopied' = Uncopied
    BY <1>1, <2>1 DEF Oldest, Uncopied
  <2>3. search' \in {"listen", "decide"} =>
          Arrived(Oldest)' /\ Passed(Oldest)' /\ Searched(Oldest)'
    <3> SUFFICES ASSUME search \in {"listen", "decide"}
                 PROVE  Arrived(Oldest)' /\ Passed(Oldest)' /\ Searched(Oldest)'
      BY <1>1
    <3>1. Arrived(Oldest) /\ Passed(Oldest) /\ Searched(Oldest) /\ Oldest \in Int
      BY Places DEF Consecutive
    <3>2. /\ Run(now, held, Len(held), Oldest) /\ Run(now, rxData', Stored', Oldest)
          /\ Run(now, block', Gathered', Oldest) /\ Runs(now, queue', Gathered', Oldest)
      BY <1>4, <3>1, Fed
    <3>3. QED
      BY <1>1, <2>1, <2>2, <3>1, <3>2 DEF Arrived, Passed, Searched
  <2>4. ASSUME search = "copy"
        PROVE  /\ Arrived(Uncopied)' /\ Passed(Uncopied)'
               /\ blocks # <<>> => Run(now, blocks[1], Uncopied', Uncopied') /\ result = <<>>
               /\ \A i \in 1..Len(result) : result[i] = Expected(i)
               /\ Len(result) < Points => (now - Uncopied') % Numbers = Expected(Len(result) + 1)
    <3>1. /\ Arrived(Uncopied) /\ Passed(Uncopied) /\ Uncopied \in Int
          /\ blocks # <<>> => Run(now, blocks[1], Uncopied, Uncopied) /\ result = <<>>
          /\ \A i \in 1..Len(result) : result[i] = Expected(i)
          /\ Len(result) < Points => (now - Uncopied) % Numbers = Expected(Len(result) + 1)
      BY <2>4, Places DEF Consecutive
    <3>2. /\ Run(now, held, Len(held), Uncopied) /\ Run(now, rxData', Stored', Uncopied)
          /\ Run(now, block', Gathered', Uncopied) /\ Runs(now, queue', Gathered', Uncopied)
      BY <1>4, <3>1, Fed
    <3>3. QED
      BY <1>1, <2>1, <2>2, <3>1, <3>2 DEF Arrived, Passed
  <2>5. UNCHANGED <<result, blocks, search, now>> /\ \A i : Expected(i)' = Expected(i)
    BY <1>1 DEF Expected
  <2>6. Run(now, blocks[1], Uncopied, Uncopied)' = Run(now, blocks[1], Uncopied', Uncopied')
    BY <1>1
  <2>7. QED
    BY <1>3, <2>3, <2>4, <2>5, <2>6 DEF Consecutive
<1>5. CASE ~flag
  <2>1. search' \notin {"listen", "decide", "copy"}
    BY <1>1, <1>5 DEF Phases
  <2>2. QED
    BY <1>3, <2>1 DEF Consecutive
<1>6. QED
  BY <1>4, <1>5

-----------------------------------------------------------------------------
(* The searching thread takes them in their order. *)

(* What is in front of the queue does not change.                          *)
LEMMA Kept ==
  ASSUME Searcher
  PROVE  UNCHANGED <<now, held, rxData, block, script, Stored, Gathered>>
<1>1. UNCHANGED <<now, held, rxData, block, script>>
  BY DEF Searcher, Take, Found, GiveUp, NotFound, Copy, CopyMore, Copied, End, Search,
         receiver, caller
<1>2. QED
  BY <1>1 DEF Stored, Gathered

LEMMA Taken ==
  ASSUME Typing, queue # <<>>, queue' = Tail(queue), Gathered' = Gathered
  PROVE  /\ Queued' = Queued - Size /\ Head(queue) \in Seq(Nat) /\ Len(Head(queue)) = Size
         /\ \A l \in Int : Passed(l) =>
              Run(now, Head(queue), Queued, l) /\ Runs(now, queue', Gathered, l)
<1>1. Len(Tail(queue)) = Len(queue) - 1 /\ Len(queue) \in Nat /\ Head(queue) \in Block
  BY HeadTail DEF Typing
<1>2. Queued' = Queued - Size
  <2> DEFINE n == Len(queue)
  <2>1. n \in Nat /\ Size \in Nat /\ Gathered \in Nat
    BY <1>1, Sizes, Places
  <2>2. Queued' = Gathered + Size * (n - 1) /\ Queued = Gathered + Size * n
    BY <1>1 DEF Queued
  <2> HIDE DEF n
  <2>3. Size * (n - 1) = Size * n - Size /\ Size * n \in Int
    BY <2>1
  <2>4. QED
    BY <2>1, <2>2, <2>3
<1>3. ASSUME NEW l \in Int, Passed(l)
      PROVE  Run(now, Head(queue), Queued, l) /\ Runs(now, queue', Gathered, l)
  <2>1. Runs(now, queue, Gathered, l) /\ queue \in Seq(Seq(Nat)) /\ now \in Int
        /\ Gathered \in Int /\ Queued = Gathered + Size * Len(queue)
    BY <1>3, Places DEF Passed
  <2>2. Run(now, Head(queue), Gathered + Size * Len(queue), l)
        /\ Runs(now, Tail(queue), Gathered, l)
    BY <2>1, RunsHeadTail
  <2>3. QED
    BY <2>1, <2>2
<1>4. QED
  BY <1>1, <1>2, <1>3 DEF Block

LEMMA OnTake ==
  ASSUME Typing, Listening, Phases, Consecutive, Take
  PROVE  Consecutive'
<1>1. /\ search = "listen" /\ search' \in {"decide", "listen"}
      /\ queue # <<>> /\ queue' = Tail(queue) /\ blocks' = Append(blocks, Head(queue))
  BY DEF Take, Search
<1>2. UNCHANGED <<now, held, rxData, block, script, Stored, Gathered>>
  BY Kept DEF Searcher
<1>3. script' \notin {"cleared", "open"}
  BY <1>1, <1>2 DEF Listening, Calling
<1>4. Arrived(Oldest) /\ Passed(Oldest) /\ Searched(Oldest) /\ Oldest \in Int
  BY <1>1, Places DEF Consecutive
<1>5. /\ Queued' = Queued - Size /\ Head(queue) \in Seq(Nat)
      /\ Run(now, Head(queue), Queued, Oldest) /\ Runs(now, queue', Gathered, Oldest)
  BY <1>1, <1>2, <1>4, Taken
<1>6. /\ Len(blocks') = Len(blocks) + 1 /\ Len(blocks) \in Nat /\ blocks \in Seq(Seq(Nat))
      /\ Queued \in Nat /\ Size \in Nat /\ now \in Int
  <2>1. blocks \in Seq(Seq(Nat))
    BY DEF Typing
  <2>2. Len(blocks') = Len(blocks) + 1
    BY <1>1, <1>5, <2>1, Appended
  <2>3. QED
    BY <2>1, <2>2, Places, Sizes
<1>7. Oldest' = Oldest
  <2> DEFINE n == Len(blocks)
  <2>1. n \in Nat /\ Oldest' = Queued' + Size * (n + 1) - 1 /\ Oldest = Queued + Size * n - 1
    BY <1>6 DEF Oldest
  <2> HIDE DEF n
  <2>2. Size * (n + 1) = Size * n + Size /\ Size * n \in Nat
    BY <1>6, <2>1
  <2>3. QED
    BY <1>5, <1>6, <2>1, <2>2
<1>8. Runs(now, blocks', Queued', Oldest)
  <2> DEFINE b == Queued - Size
  <2>1. b \in Int /\ b + Size = Queued
    BY <1>6
  <2>2. Runs(now, blocks, Queued, Oldest)
    BY <1>4 DEF Searched
  <2> HIDE DEF b
  <2>3. Runs(now, blocks, b + Size, Oldest) /\ Run(now, Head(queue), b + Size, Oldest)
    BY <1>5, <2>1, <2>2
  <2>4. Runs(now, Append(blocks, Head(queue)), b, Oldest)
    BY <1>4, <1>5, <1>6, <2>1, <2>3, RunsAppend
  <2>5. QED
    BY <1>1, <1>5, <2>4 DEF b
<1>9. Arrived(Oldest)' /\ Passed(Oldest)' /\ Searched(Oldest)'
  BY <1>2, <1>4, <1>5, <1>7, <1>8 DEF Arrived, Passed, Searched
<1>10. QED
  BY <1>1, <1>3, <1>9 DEF Consecutive

LEMMA OnNotFound ==
  ASSUME Typing, Listening, Phases, Consecutive, NotFound
  PROVE  Consecutive'
<1>1. /\ search = "decide" /\ search' = "listen" /\ blocks' = Tail(blocks) /\ queue' = queue
  BY DEF NotFound, Search
<1>2. UNCHANGED <<now, held, rxData, block, script, Stored, Gathered>>
  BY Kept DEF Searcher
<1>3. script' \notin {"cleared", "open"}
  BY <1>1, <1>2 DEF Listening, Calling
<1>4. Arrived(Oldest) /\ Passed(Oldest) /\ Searched(Oldest) /\ Oldest \in Int
  BY <1>1, Places DEF Consecutive
<1>5. Queued' = Queued
  BY <1>1, <1>2 DEF Queued
<1>6. blocks # <<>> /\ Len(blocks) = 4
  <2>1. Len(blocks) = 4
    BY <1>1 DEF Phases
  <2>2. Len(blocks) # 0
    BY <2>1
  <2>3. QED
    BY <2>1, <2>2, NotEmpty
<1>7. Len(blocks') = 3
  <2>1. Len(Tail(blocks)) = Len(blocks) - 1
    BY <1>6, HeadTail DEF Typing
  <2>2. QED
    BY <1>1, <1>6, <2>1
<1>8. Oldest' \in Int /\ Oldest' <= Oldest
  <2>1. Oldest' = Queued + Size * 3 - 1 /\ Oldest = Queued + Size * 4 - 1
    BY <1>5, <1>6, <1>7 DEF Oldest
  <2>2. Queued \in Nat /\ Size \in Nat
    BY Places, Sizes
  <2>3. QED
    BY <2>1, <2>2
<1>9. Runs(now, Tail(blocks), Queued, Oldest)
  <2>1. Runs(now, blocks, Queued, Oldest)
    BY <1>4 DEF Searched
  <2>2. QED
    BY <1>4, <1>6, <2>1, Places, RunsHeadTail
<1>10. /\ held \in Seq(Nat) /\ rxData \in Seq(Nat) /\ block \in Seq(Nat)
       /\ queue \in Seq(Seq(Nat)) /\ Tail(blocks) \in Seq(Seq(Nat))
       /\ now \in Int /\ Len(held) \in Int /\ Stored \in Int /\ Gathered \in Int /\ Queued \in Int
  <2>1. Tail(blocks) \in Seq(Seq(Nat))
    BY <1>6, HeadTail DEF Typing
  <2>2. held \in Seq(Nat) /\ rxData \in Seq(Nat) /\ block \in Seq(Nat)
    BY DEF Typing
  <2>3. QED
    BY <2>1, <2>2, Places
<1>11. /\ Run(now, held, Len(held), Oldest') /\ Run(now, rxData, Stored, Oldest')
       /\ Run(now, block, Gathered, Oldest')
  BY <1>4, <1>8, <1>10, RunLower DEF Arrived, Passed
<1>12. /\ Runs(now, queue, Gathered, Oldest') /\ Runs(now, Tail(blocks), Queued, Oldest')
  BY <1>4, <1>8, <1>9, <1>10, RunsLower DEF Passed
<1>13. Arrived(Oldest)' /\ Passed(Oldest)' /\ Searched(Oldest)'
  BY <1>1, <1>2, <1>5, <1>11, <1>12 DEF Arrived, Passed, Searched
<1>14. QED
  BY <1>1, <1>3, <1>13 DEF Consecutive

(* The samples from the first one of the preamble on, of four blocks.      *)
LEMMA RunRest ==
  ASSUME Typing, Len(blocks) = 4, \A i \in 1..4 : blocks[i] \in Block,
         Runs(now, blocks, Queued, Oldest), NEW idx \in 0..(Size - 1)
  PROVE  /\ Oldest = Queued + 4 * Size - 1
         /\ Run(now, Rest(idx), Queued + 3 * Size - idx - 1, Queued + 3 * Size - idx - 1)
         /\ blocks[3][idx + 1] = (now - (Queued + 2 * Size - idx)) % Numbers
<1> DEFINE a == SubSeq(blocks[2], idx + 2, Size)
           b == blocks[3]
           c == blocks[4]
           d == Queued + 3 * Size - idx - 1
<1>1. /\ Size \in Nat \ {0} /\ Queued \in Nat /\ now \in Int /\ idx \in Nat /\ idx < Size
      /\ Oldest \in Int
  BY Sizes, Places
<1>2. Oldest = Queued + 4 * Size - 1
  BY <1>1 DEF Oldest
<1>3. /\ Run(now, blocks[2], Queued + 3 * Size, Oldest)
      /\ Run(now, blocks[3], Queued + 2 * Size, Oldest)
      /\ Run(now, blocks[4], Queued + Size, Oldest)
  <2>1. /\ Run(now, blocks[2], Queued + Size * (4 - 2 + 1), Oldest)
        /\ Run(now, blocks[3], Queued + Size * (4 - 3 + 1), Oldest)
        /\ Run(now, blocks[4], Queued + Size * (4 - 4 + 1), Oldest)
    BY DEF Runs
  <2>2. /\ Size * (4 - 2 + 1) = 3 * Size /\ Size * (4 - 3 + 1) = 2 * Size
        /\ Size * (4 - 4 + 1) = Size
    BY <1>1
  <2>3. QED
    BY <2>1, <2>2
<1>4. /\ a \in Seq(Nat) /\ Len(a) = Size - idx - 1
      /\ b \in Seq(Nat) /\ Len(b) = Size /\ c \in Seq(Nat) /\ Len(c) = Size
      /\ blocks[2] \in Seq(Nat) /\ Len(blocks[2]) = Size
  BY Remains
<1>5. d \in Int /\ d <= Oldest
  BY <1>1, <1>2
<1>6. Run(now, a, d, d)
  <2> DEFINE x == Queued + 3 * Size
             y == idx + 2
  <2>1. x \in Int /\ y \in Nat \ {0} /\ y - 1 <= Size /\ Size <= Len(blocks[2]) /\ Size \in Int
        /\ x - y + 1 = d
    BY <1>1, <1>4
  <2>2. Run(now, blocks[2], x, Oldest)
    BY <1>3
  <2>3. a = SubSeq(blocks[2], y, Size)
    OBVIOUS
  <2> HIDE DEF a, d, x, y
  <2>4. Run(now, SubSeq(blocks[2], y, Size), x - y + 1, Oldest)
    BY <1>1, <1>4, <2>1, <2>2, RunCut
  <2>5. Run(now, a, d, Oldest)
    BY <2>1, <2>3, <2>4
  <2>6. QED
    BY <1>1, <1>4, <1>5, <2>5, RunLower
<1>7. Run(now, b, Queued + 2 * Size, d) /\ Run(now, c, Queued + Size, d)
  <2>1. Queued + 2 * Size \in Int /\ Queued + Size \in Int
    BY <1>1
  <2> HIDE DEF d
  <2>2. QED
    BY <1>1, <1>3, <1>4, <1>5, <2>1, RunLower
<1>8. Run(now, (a \o b) \o c, d, d)
  <2>1. d - Len(a) = Queued + 2 * Size
    BY <1>1, <1>4
  <2>2. Run(now, a \o b, d, d)
    <3> HIDE DEF a, b, d
    <3>1. QED
      BY <1>1, <1>4, <1>5, <1>6, <1>7, <2>1, RunJoin
  <2>3. a \o b \in Seq(Nat) /\ Len(a \o b) = Len(a) + Len(b)
    BY <1>4, Catenated, SMTT(30)
  <2>4. d - Len(a \o b) = Queued + Size
    <3>1. Len(a \o b) = (Size - idx - 1) + Size
      <4> HIDE DEF a, b
      <4>1. QED
        BY <1>4, <2>3
    <3> DEFINE y == Len(a \o b)
    <3>2. y = (Size - idx - 1) + Size
      BY <3>1
    <3> HIDE DEF a, b, y
    <3>3. d - y = Queued + Size
      BY <1>1, <3>2
    <3>4. QED
      BY <3>3 DEF y
  <2> HIDE DEF a, b, c, d
  <2>5. QED
    BY <1>1, <1>4, <1>5, <1>7, <2>2, <2>3, <2>4, RunJoin
<1>9. Rest(idx) = (a \o b) \o c
  BY DEF Rest
<1>10. b[idx + 1] = (now - (Queued + 2 * Size - idx)) % Numbers
  <2> DEFINE x == Queued + 2 * Size
             k == idx + 1
  <2>1. /\ x \in Int /\ k \in 1..Len(b) /\ x - k + 1 <= Oldest
        /\ x - k + 1 = Queued + 2 * Size - idx
    BY <1>1, <1>2, <1>4
  <2>2. Run(now, b, x, Oldest)
    BY <1>3
  <2>3. b \in Seq(Nat) /\ now \in Int /\ Oldest \in Int
    BY <1>1, <1>4
  <2> HIDE DEF b, x, k
  <2>4. x \in Int /\ k \in 1..Len(b) /\ x - k + 1 <= Oldest
    BY <2>1
  <2>5. b[k] = (now - (x - k + 1)) % Numbers
    BY <2>2, <2>3, <2>4 DEF Run
  <2>6. QED
    BY <2>1, <2>5 DEF k
<1>11. QED
  BY <1>2, <1>8, <1>9, <1>10

(* The preamble found begins where the result is to begin.                 *)
LEMMA Anchor ==
  ASSUME NEW n \in Int, NEW q \in Int, NEW idx \in Int
  PROVE  (n - (q + 3 * Size - idx - 1)) % Numbers
           = (((n - (q + 2 * Size - idx)) % Numbers) + Numbers - Size + 1) % Numbers
<1> DEFINE a == n - (q + 2 * Size - idx)
           p == a % Numbers
           j == Numbers - Size + 1
           e == n - (q + 3 * Size - idx - 1)
<1>1. Numbers \in Nat /\ Numbers > 0 /\ Size \in Nat
  BY SizeAssumption
<1>2. a \in Int /\ j \in Int /\ e \in Int /\ a + j = Numbers * 1 + e
  BY <1>1
<1>3. (p + j) % Numbers = (a + j) % Numbers
  <2>1. p = a % Numbers
    OBVIOUS
  <2> HIDE DEF a, j
  <2>2. ((a % Numbers) + j) % Numbers = (a + j) % Numbers
    BY <1>1, <1>2, Ahead
  <2>3. QED
    BY <2>1, <2>2
<1>4. (Numbers * 1 + e) % Numbers = e % Numbers
  <2>1. e \in Int /\ 1 \in Int
    BY <1>2
  <2> HIDE DEF e
  <2>2. QED
    BY <1>1, <2>1, Periodic, Zenon
<1>5. p + Numbers - Size + 1 = p + j
  <2>1. p \in Int
    <3> HIDE DEF a
    <3>1. p = a % Numbers
      BY DEF a
    <3>2. QED
      BY <1>1, <1>2, <3>1, Division
  <2>2. QED
    BY <1>1, <2>1
<1>6. QED
  BY <1>2, <1>3, <1>4, <1>5

LEMMA OnFound ==
  ASSUME Typing, Listening, Phases, Reports, Consecutive, Found
  PROVE  Consecutive'
<1>1. PICK idx \in 0..(Size - 1) :
        /\ search = "decide" /\ search' = "copy" /\ peak' = blocks[3][idx + 1]
        /\ blocks' = <<Rest(idx)>> /\ UNCHANGED <<queue, result>>
  BY DEF Found, Search
<1>2. UNCHANGED <<now, held, rxData, block, script, Stored, Gathered>>
  BY Kept DEF Searcher
<1>3. script' \notin {"cleared", "open"}
  BY <1>1, <1>2 DEF Listening, Calling
<1>4. Arrived(Oldest) /\ Passed(Oldest) /\ Runs(now, blocks, Queued, Oldest)
  BY <1>1 DEF Consecutive, Searched
<1>5. Len(blocks) = 4 /\ \A i \in 1..4 : blocks[i] \in Block
  BY <1>1 DEF Phases
<1> DEFINE d == Queued + 3 * Size - idx - 1
<1>6. /\ Oldest = Queued + 4 * Size - 1 /\ Run(now, Rest(idx), d, d)
      /\ peak' = (now - (Queued + 2 * Size - idx)) % Numbers
  BY <1>1, <1>4, <1>5, RunRest
<1>7. Rest(idx) \in Seq(Nat) /\ Len(Rest(idx)) = (Size - idx - 1) + Size + Size
  BY <1>5, Remains
<1>8. /\ Queued \in Nat /\ Size \in Nat \ {0} /\ idx \in Nat /\ now \in Int /\ d \in Int
      /\ d <= Oldest /\ Oldest \in Int /\ idx < Size
  <2>1. Queued \in Nat /\ Size \in Nat \ {0} /\ now \in Int /\ Oldest \in Int
    BY Places, Sizes
  <2>2. Oldest = Queued + 4 * Size - 1
    BY <1>6
  <2>3. QED
    BY <2>1, <2>2
<1>9. Queued' = Queued
  BY <1>1, <1>2 DEF Queued
<1>10. Uncopied' = d /\ blocks' # <<>> /\ blocks'[1] = Rest(idx)
  <2> DEFINE r == Rest(idx)
             x == Len(r)
  <2>1. blocks' = <<r>> /\ x = (Size - idx - 1) + Size + Size
    BY <1>1, <1>7
  <2> HIDE DEF r
  <2>2. blocks' # <<>> /\ blocks'[1] = r
    BY <2>1
  <2>3. Uncopied' = Queued + x
    BY <1>9, <2>2 DEF Uncopied
  <2> HIDE DEF x
  <2>4. Queued + x = d
    BY <1>8, <2>1
  <2>5. QED
    BY <2>2, <2>3, <2>4 DEF r
<1>11. result' = <<>> /\ Len(result') = 0
  BY <1>1 DEF Reports
<1>12. /\ held \in Seq(Nat) /\ rxData \in Seq(Nat) /\ block \in Seq(Nat)
       /\ queue \in Seq(Seq(Nat)) /\ Len(held) \in Int /\ Stored \in Int /\ Gathered \in Int
  BY Places DEF Typing
<1> HIDE DEF d
<1>13. /\ Run(now, held, Len(held), d) /\ Run(now, rxData, Stored, d)
       /\ Run(now, block, Gathered, d)
  BY <1>4, <1>8, <1>12, RunLower DEF Arrived, Passed
<1>14. Runs(now, queue, Gathered, d)
  BY <1>4, <1>8, <1>12, RunsLower DEF Passed
<1>15. Arrived(Uncopied)' /\ Passed(Uncopied)'
  BY <1>1, <1>2, <1>10, <1>13, <1>14 DEF Arrived, Passed
<1>16. (now' - Uncopied') % Numbers = (peak' + Numbers - Size + 1) % Numbers
  <2>1. (now - d) % Numbers = (peak' + Numbers - Size + 1) % Numbers
    <3>1. Queued \in Int /\ idx \in Int
      BY <1>8
    <3>2. now \in Int /\ peak' = (now - (Queued + 2 * Size - idx)) % Numbers
      BY <1>6, <1>8
    <3>3. (now - (Queued + 3 * Size - idx - 1)) % Numbers
            = (peak' + Numbers - Size + 1) % Numbers
      <4>1. (now - (Queued + 3 * Size - idx - 1)) % Numbers
              = (((now - (Queued + 2 * Size - idx)) % Numbers) + Numbers - Size + 1) % Numbers
        BY <3>1, <3>2, Anchor
      <4>2. QED
        BY <3>2, <4>1
    <3>4. QED
      BY <3>3 DEF d
  <2>2. QED
    BY <1>2, <1>10, <2>1
<1>17. Run(now, blocks[1], Uncopied, Uncopied)'
  BY <1>2, <1>6, <1>10
<1>18. Len(result)' + 1 = 1
  BY <1>11
<1>19. Expected(Len(result) + 1)' = (peak' + Numbers - Size + 1) % Numbers
  BY <1>18 DEF Expected
<1>20. \A i \in 1..Len(result') : FALSE
  BY <1>11
<1>21. QED
  BY <1>1, <1>3, <1>11, <1>15, <1>16, <1>17, <1>19, <1>20 DEF Consecutive

(* What is projected continues the result.                                 *)
LEMMA Continued ==
  ASSUME Typing, NEW s \in Seq(Nat), NEW u \in Int, Run(now, s, u, u),
         Len(result) < Points, (now - u) % Numbers = Expected(Len(result) + 1),
         \A i \in 1..Len(result) : result[i] = Expected(i)
  PROVE  /\ \A i \in 1..Len(Project(s)) : Project(s)[i] = Expected(i)
         /\ Len(Project(s)) < Points =>
              (now - (u - Len(s))) % Numbers = Expected(Len(Project(s)) + 1)
<1> DEFINE r == Project(s)
           m == Len(result)
           n == Len(s)
           e == peak + Numbers - Size + (m + 1)
<1>1. /\ Numbers \in Nat /\ Numbers > 0 /\ Size \in Nat /\ Points \in Nat /\ now \in Int
      /\ m \in Nat /\ n \in Nat /\ peak \in Nat /\ m < Points
  BY SizeAssumption DEF Typing
<1>2. /\ Len(r) = IF n < Points - m THEN m + n ELSE Points
      /\ \A i \in 1..m : r[i] = result[i]
      /\ \A i \in 1..(Len(r) - m) : r[m + i] = s[i]
  BY Projected
<1>3. e \in Int /\ now - u \in Int /\ (now - u) % Numbers = e % Numbers
  BY <1>1 DEF Expected
<1>4. ASSUME NEW j \in Int
      PROVE  (now - (u - j)) % Numbers = Expected(m + 1 + j)
  <2>1. ((now - u) + j) % Numbers = (e + j) % Numbers
    <3> DEFINE x == now - u
    <3>1. x \in Int /\ e \in Int /\ x % Numbers = e % Numbers
      BY <1>3
    <3> HIDE DEF x, e
    <3>2. (x + j) % Numbers = (e + j) % Numbers
      BY <1>1, <3>1, Congruent, SMTT(30)
    <3>3. QED
      BY <3>2 DEF x
  <2>2. (now - u) + j = now - (u - j) /\ e + j = peak + Numbers - Size + (m + 1 + j)
    BY <1>1
  <2> HIDE DEF e, m
  <2>3. QED
    BY <2>1, <2>2 DEF Expected
<1>5. Len(r) \in Nat /\ m <= Len(r) /\ Len(r) <= m + n
  <2> DEFINE y == Len(r)
  <2>1. y = IF n < Points - m THEN m + n ELSE Points
    BY <1>2
  <2> HIDE DEF y, m, n
  <2>2. y \in Nat /\ m <= y /\ y <= m + n
    BY <1>1, <2>1
  <2>3. QED
    BY <2>2 DEF y
<1>6. ASSUME NEW i \in 1..Len(r)
      PROVE  r[i] = Expected(i)
  <2>1. CASE i \in 1..m
    BY <1>2, <2>1
  <2>2. CASE i \notin 1..m
    <3> DEFINE k == i - m
    <3>1. /\ k \in 1..(Len(r) - m) /\ k \in 1..n /\ i = m + k /\ k - 1 \in Int
          /\ u - k + 1 <= u /\ u - k + 1 = u - (k - 1) /\ m + 1 + (k - 1) = i
      <4> DEFINE y == Len(r)
      <4>1. y \in Nat /\ m <= y /\ y <= m + n /\ i \in 1..y
        BY <1>5
      <4> HIDE DEF y, m, n
      <4>2. /\ k \in 1..(y - m) /\ k \in 1..n /\ i = m + k /\ k - 1 \in Int
            /\ u - k + 1 <= u /\ u - k + 1 = u - (k - 1) /\ m + 1 + (k - 1) = i
        BY <1>1, <2>2, <4>1
      <4>3. QED
        BY <4>2 DEF y
    <3> HIDE DEF k
    <3>2. r[i] = s[k]
      BY <1>2, <3>1
    <3>3. s[k] = (now - (u - k + 1)) % Numbers
      BY <3>1 DEF Run
    <3>4. (now - (u - (k - 1))) % Numbers = Expected(m + 1 + (k - 1))
      BY <1>4, <3>1
    <3> HIDE DEF m, n, r, e
    <3>5. QED
      BY <3>1, <3>2, <3>3, <3>4
  <2>3. QED
    BY <2>1, <2>2
<1>7. ASSUME Len(r) < Points
      PROVE  (now - (u - n)) % Numbers = Expected(Len(r) + 1)
  <2>1. Len(r) + 1 = m + 1 + n /\ n \in Int
    <3> DEFINE y == Len(r)
    <3>1. y < Points /\ y = IF n < Points - m THEN m + n ELSE Points
      BY <1>2, <1>7
    <3> HIDE DEF y, m, n
    <3>2. y + 1 = m + 1 + n /\ n \in Int
      BY <1>1, <3>1
    <3>3. QED
      BY <3>2 DEF y
  <2>2. (now - (u - n)) % Numbers = Expected(m + 1 + n)
    BY <1>4, <2>1
  <2>3. QED
    BY <2>1, <2>2
<1>8. QED
  BY <1>6, <1>7

LEMMA Room ==
  ASSUME Typing
  PROVE  /\ held \in Seq(Nat) /\ rxData \in Seq(Nat) /\ block \in Seq(Nat)
         /\ queue \in Seq(Seq(Nat)) /\ Len(held) \in Int /\ Stored \in Int /\ Gathered \in Int
         /\ Queued \in Int /\ Uncopied \in Int /\ now \in Int
BY Places DEF Typing

LEMMA OnCopy ==
  ASSUME Typing, Listening, Phases, Consecutive, Copy
  PROVE  Consecutive'
<1>1. /\ search = "copy" /\ search' = "copy" /\ blocks # <<>> /\ blocks' = <<>>
      /\ result' = Project(Head(blocks)) /\ UNCHANGED <<queue, peak>>
  BY DEF Copy, Search
<1>2. UNCHANGED <<now, held, rxData, block, script, Stored, Gathered>>
  BY Kept DEF Searcher
<1>3. script' \notin {"cleared", "open"}
  BY <1>1, <1>2 DEF Listening, Calling
<1> DEFINE b == blocks[1]
<1>4. Head(blocks) = b /\ b \in Seq(Nat) /\ Len(b) \in Nat
  <2>1. Head(blocks) = b /\ b \in Seq(Nat)
    BY <1>1, HeadTail DEF Typing
  <2> HIDE DEF b
  <2>2. QED
    BY <2>1
<1>5. /\ Arrived(Uncopied) /\ Passed(Uncopied) /\ Run(now, b, Uncopied, Uncopied)
      /\ result = <<>> /\ \A i \in 1..Len(result) : result[i] = Expected(i)
      /\ Len(result) < Points => (now - Uncopied) % Numbers = Expected(Len(result) + 1)
  BY <1>1 DEF Consecutive
<1>6. Len(result) < Points
  <2>1. Len(result) = 0
    BY <1>5
  <2>2. QED
    BY <2>1, SizeAssumption
<1>7. Uncopied = Queued + Len(b) /\ Queued' = Queued /\ Uncopied' = Queued
  <2>1. Uncopied = Queued + Len(b)
    BY <1>1 DEF Uncopied
  <2>2. Queued' = Queued
    BY <1>1, <1>2 DEF Queued
  <2>3. Uncopied' = Queued' + 0
    BY <1>1 DEF Uncopied
  <2>4. Queued + 0 = Queued
    BY Room
  <2>5. QED
    BY <2>1, <2>2, <2>3, <2>4
<1>8. Queued <= Uncopied /\ Uncopied - Len(b) = Queued
  BY <1>4, <1>7, Room, SMTT(30)
<1> HIDE DEF b
<1>9. /\ \A i \in 1..Len(result') : result'[i] = Expected(i)
      /\ Len(result') < Points => (now - Queued) % Numbers = Expected(Len(result') + 1)
  <2>1. /\ \A i \in 1..Len(Project(b)) : Project(b)[i] = Expected(i)
        /\ Len(Project(b)) < Points =>
             (now - (Uncopied - Len(b))) % Numbers = Expected(Len(Project(b)) + 1)
    BY <1>4, <1>5, <1>6, Room, Continued
  <2>2. QED
    BY <1>1, <1>4, <1>8, <2>1
<1>10. /\ Run(now, held, Len(held), Queued) /\ Run(now, rxData, Stored, Queued)
       /\ Run(now, block, Gathered, Queued)
  BY <1>5, <1>8, Room, RunLower DEF Arrived, Passed
<1>11. Runs(now, queue, Gathered, Queued)
  BY <1>5, <1>8, Room, RunsLower DEF Passed
<1>12. Arrived(Uncopied)' /\ Passed(Uncopied)'
  BY <1>1, <1>2, <1>7, <1>10, <1>11 DEF Arrived, Passed
<1>13. \A i : Expected(i)' = Expected(i)
  BY <1>1 DEF Expected
<1>14. /\ \A i \in 1..Len(result') : result'[i] = Expected(i)'
       /\ Len(result') < Points => (now' - Uncopied') % Numbers = Expected(Len(result) + 1)'
  <2>1. Expected(Len(result) + 1)' = Expected(Len(result') + 1)
    BY <1>1 DEF Expected
  <2>2. QED
    BY <1>2, <1>7, <1>9, <1>13, <2>1
<1>15. QED
  BY <1>1, <1>3, <1>12, <1>14 DEF Consecutive

LEMMA OnCopyMore ==
  ASSUME Typing, Listening, Phases, Consecutive, CopyMore
  PROVE  Consecutive'
<1>1. /\ search = "copy" /\ search' = "copy" /\ blocks = <<>> /\ blocks' = <<>>
      /\ queue # <<>> /\ queue' = Tail(queue) /\ Len(result) < Points
      /\ result' = Project(Head(queue)) /\ peak' = peak
  BY DEF CopyMore, Search
<1>2. UNCHANGED <<now, held, rxData, block, script, Stored, Gathered>>
  BY Kept DEF Searcher
<1>3. script' \notin {"cleared", "open"}
  BY <1>1, <1>2 DEF Listening, Calling
<1>4. /\ Arrived(Uncopied) /\ Passed(Uncopied)
      /\ \A i \in 1..Len(result) : result[i] = Expected(i)
      /\ (now - Uncopied) % Numbers = Expected(Len(result) + 1)
  BY <1>1 DEF Consecutive
<1>5. Uncopied = Queued /\ Uncopied' = Queued' /\ Queued \in Int
  <2>1. Queued' = Queued - Size /\ Queued \in Int /\ Size \in Int
    BY <1>1, <1>2, Taken, Room, Sizes
  <2>2. Queued' \in Int
    BY <2>1
  <2>3. Uncopied = Queued + 0 /\ Uncopied' = Queued' + 0
    BY <1>1 DEF Uncopied
  <2>4. \A n \in Int : n + 0 = n
    OBVIOUS
  <2>5. Queued + 0 = Queued /\ Queued' + 0 = Queued'
    BY <2>1, <2>2, <2>4
  <2>6. QED
    BY <2>1, <2>3, <2>5
<1> DEFINE b == Head(queue)
<1>6. /\ Queued' = Queued - Size /\ b \in Seq(Nat) /\ Len(b) = Size
      /\ Run(now, b, Queued, Queued) /\ Runs(now, Tail(queue), Gathered, Queued)
  BY <1>1, <1>2, <1>4, <1>5, Taken
<1> HIDE DEF b
<1>7. Queued' \in Int /\ Queued' <= Queued
  BY <1>5, <1>6, Sizes
<1>8. /\ \A i \in 1..Len(result') : result'[i] = Expected(i)
      /\ Len(result') < Points => (now - Queued') % Numbers = Expected(Len(result') + 1)
  <2>1. (now - Queued) % Numbers = Expected(Len(result) + 1)
    BY <1>4, <1>5
  <2>2. /\ \A i \in 1..Len(Project(b)) : Project(b)[i] = Expected(i)
        /\ Len(Project(b)) < Points =>
             (now - (Queued - Len(b))) % Numbers = Expected(Len(Project(b)) + 1)
    BY <1>1, <1>4, <1>5, <1>6, <2>1, Continued
  <2>3. QED
    BY <1>1, <1>6, <2>2 DEF b
<1>9. /\ Run(now, held, Len(held), Queued') /\ Run(now, rxData, Stored, Queued')
      /\ Run(now, block, Gathered, Queued')
  BY <1>4, <1>5, <1>7, Room, RunLower DEF Arrived, Passed
<1>10. Runs(now, queue', Gathered, Queued')
  <2>1. Tail(queue) \in Seq(Seq(Nat))
    BY <1>1, Room, HeadTail
  <2>2. QED
    BY <1>1, <1>5, <1>6, <1>7, <2>1, Room, RunsLower
<1>11. Arrived(Uncopied)' /\ Passed(Uncopied)'
  BY <1>2, <1>5, <1>9, <1>10 DEF Arrived, Passed
<1>12. /\ \A i \in 1..Len(result') : result'[i] = Expected(i)'
       /\ Len(result') < Points => (now' - Uncopied') % Numbers = Expected(Len(result) + 1)'
  <2>1. Expected(Len(result) + 1)' = Expected(Len(result') + 1)
        /\ \A i : Expected(i)' = Expected(i)
    BY <1>1 DEF Expected
  <2>2. QED
    BY <1>2, <1>5, <1>8, <2>1
<1>13. QED
  BY <1>1, <1>3, <1>11, <1>12 DEF Consecutive

LEMMA OnStart ==
  ASSUME Typing, Consecutive, Start
  PROVE  Consecutive'
<1>1. /\ script = "open" /\ script' = "starting" /\ search' = "listen" /\ blocks' = <<>>
      /\ queue' = <<>> /\ block' = <<>> /\ UNCHANGED <<now, held, rxData>>
  BY DEF Start, Script, receiver, store
<1>2. Stored' = Stored /\ Stored \in Nat
  BY <1>1, Places DEF Stored
<1>3. Len(block') = 0 /\ Len(queue') = 0 /\ Len(blocks') = 0 /\ Size * 0 = 0
  BY <1>1, Sizes
<1>4. Gathered' = Stored /\ Queued' = Stored /\ Oldest' = Stored - 1
  <2>1. Gathered' = Stored
    BY <1>2, <1>3 DEF Gathered
  <2>2. Queued' = Stored
    BY <1>2, <1>3, <2>1 DEF Queued
  <2>3. QED
    BY <1>2, <1>3, <2>1, <2>2 DEF Oldest
<1>5. Arrived(Stored - 1)
  BY <1>1 DEF Consecutive
<1>6. Arrived(Oldest)' /\ Passed(Oldest)' /\ Searched(Oldest)'
  <2>1. Arrived(Oldest)'
    BY <1>1, <1>2, <1>4, <1>5 DEF Arrived
  <2>2. Passed(Oldest)'
    <3>1. Run(now', block', Gathered', Oldest') /\ Runs(now', queue', Gathered', Oldest')
      BY <1>1, RunEmpty, RunsEmpty
    <3>2. QED
      BY <3>1 DEF Passed
  <2>3. Searched(Oldest)'
    <3>1. Runs(now', blocks', Queued', Oldest')
      BY <1>1, RunsEmpty
    <3>2. QED
      BY <3>1 DEF Searched
  <2>4. QED
    BY <2>1, <2>2, <2>3
<1>7. QED
  BY <1>1, <1>6 DEF Consecutive

(* Nothing that has been copied or thrown away, and nothing else, moves.   *)
LEMMA OnNothing ==
  ASSUME Consecutive,
         UNCHANGED <<now, held, rxData, block, queue, search, blocks, result, peak>>,
         script' \in {"cleared", "open"} => script' = script
  PROVE  Consecutive'
<1>1. UNCHANGED <<Stored, Gathered, Queued, Oldest, Uncopied>>
  BY DEF Stored, Gathered, Queued, Oldest, Uncopied
<1>2. /\ Arrived(Stored - 1)' = Arrived(Stored - 1)
      /\ Arrived(Oldest)' = Arrived(Oldest) /\ Passed(Oldest)' = Passed(Oldest)
      /\ Searched(Oldest)' = Searched(Oldest)
      /\ Arrived(Uncopied)' = Arrived(Uncopied) /\ Passed(Uncopied)' = Passed(Uncopied)
      /\ Run(now, blocks[1], Uncopied, Uncopied)' = Run(now, blocks[1], Uncopied, Uncopied)
      /\ Expected(Len(result) + 1)' = Expected(Len(result) + 1)
      /\ \A i : Expected(i)' = Expected(i)
  BY <1>1 DEF Arrived, Passed, Searched, Expected
<1>3. QED
  BY <1>1, <1>2 DEF Consecutive

LEMMA OnSmall ==
  ASSUME Typing, Listening, Consecutive, Small
  PROVE  Consecutive'
<1>1. UNCHANGED <<now, held, block, queue, search, blocks, result, peak>>
  BY SmallStep
<1>2. CASE script = "idle" /\ script' = "cleared" /\ rxData' = <<>>
  <2>1. search' = "none"
    BY <1>1, <1>2 DEF Listening, Calling
  <2>2. Stored' <= 1
    <3>1. Len(rxData') = 0 /\ Len(held') <= 1 /\ Len(held') \in Nat
      BY <1>1, <1>2 DEF Typing
    <3>2. QED
      BY <3>1 DEF Stored
  <2>3. QED
    BY <1>2, <2>1, <2>2 DEF Consecutive
<1>3. CASE script = "cleared" /\ script' = "open" /\ rxData' = rxData
  <2>1. search' = "none"
    BY <1>1, <1>3 DEF Listening, Calling
  <2>2. Stored' = Stored /\ Stored <= 1 /\ Stored \in Nat
    BY <1>1, <1>3, Places DEF Stored, Consecutive
  <2>3. Arrived(Stored - 1)'
    <3>1. \A k \in 1..Len(held') : ~(Len(held') - k + 1 <= Stored' - 1)
      BY <1>1, <2>2, Places
    <3>2. \A k \in 1..Len(rxData') : ~(Stored' - k + 1 <= Stored' - 1)
      <4> SUFFICES ASSUME NEW k \in 1..Len(rxData')
                   PROVE  ~(Stored' - k + 1 <= Stored' - 1)
        OBVIOUS
      <4>1. Len(rxData) <= Stored /\ Len(rxData) \in Nat
        BY Places DEF Stored
      <4>2. QED
        BY <1>3, <2>2, <4>1
    <3>3. QED
      BY <3>1, <3>2 DEF Arrived, Run
  <2>4. QED
    BY <1>3, <2>1, <2>3 DEF Consecutive
<1>4. CASE script' \in {"started", "stopping", "idle"} /\ rxData' = rxData
  BY <1>1, <1>4, OnNothing
<1>5. QED
  BY <1>2, <1>3, <1>4, SmallStep

LEMMA ConsecutiveStep ==
  ASSUME Typing, Listening, Phases, Reports, Consecutive, [Next]_vars
  PROVE  Consecutive'
<1>1. CASE Searcher
  <2>1. CASE GiveUp \/ Copied \/ End
    <3>1. search' \in {"join", "none"}
      BY <2>1 DEF GiveUp, Copied, End, Search
    <3>2. search # "none" /\ script' = script
      BY <2>1 DEF GiveUp, Copied, End, Search, caller
    <3>3. script' \notin {"cleared", "open"}
      BY <3>2 DEF Listening, Calling
    <3>4. QED
      BY <3>1, <3>3 DEF Consecutive
  <2>2. QED
    BY <1>1, <2>1, OnTake, OnFound, OnNotFound, OnCopy, OnCopyMore DEF Searcher
<1>2. CASE UNCHANGED vars
  <2>1. UNCHANGED <<now, held, rxData, block, queue, search, blocks, result, peak, script>>
    BY <1>2 DEF vars, receiver, store, feeding, caller
  <2>2. QED
    BY <2>1, OnNothing
<1>3. QED
  BY <1>1, <1>2, OnReceive, OnStore, OnFeed, OnStart, OnSmall DEF Next, Small

-----------------------------------------------------------------------------
(* The theorems. *)

Signal == Typing /\ Listening /\ Phases /\ Reports /\ Consecutive

LEMMA SignalInitially ==
  ASSUME Init
  PROVE  Signal
<1>1. /\ now = 0 /\ held = <<>> /\ rxData = <<>> /\ block = <<>> /\ queue = <<>>
      /\ blocks = <<>> /\ result = <<>> /\ search = "none" /\ script = "idle" /\ snr = "zero"
      /\ output = FALSE /\ flag = FALSE /\ feeder = FALSE /\ running = FALSE /\ told = FALSE
      /\ peak = 0
  BY DEF Init
<1>2. /\ <<>> \in Seq(Nat) /\ <<>> \in Seq(Block) /\ <<>> \in Seq(Seq(Nat)) /\ Len(<<>>) = 0
      /\ 0 \in Nat
  OBVIOUS
<1>3. 0 \in 0..(Numbers - 1) /\ 0 <= Capacity /\ 0 < Size /\ 0 <= Points
  BY SizeAssumption
<1>4. Typing
  <2>1. /\ now \in 0..(Numbers - 1) /\ held \in Seq(Nat) /\ Len(held) <= 1
        /\ rxData \in Seq(Nat) /\ Len(rxData) <= Capacity
        /\ block \in Seq(Nat) /\ Len(block) < Size
    BY <1>1, <1>2, <1>3
  <2>2. /\ queue \in Seq(Block) /\ blocks \in Seq(Seq(Nat))
        /\ result \in Seq(Nat) /\ Len(result) <= Points
    BY <1>1, <1>2, <1>3
  <2>3. QED
    BY <1>1, <1>2, <2>1, <2>2 DEF Typing, Searches
<1>5. Listening /\ Phases /\ Reports /\ Consecutive
  BY <1>1, <1>2, Initially DEF Phases, Reports, Consecutive
<1>6. QED
  BY <1>4, <1>5 DEF Signal

LEMMA SignalStep ==
  ASSUME Signal, [Next]_vars
  PROVE  Signal'
BY TypingStep, Stepwise, PhasesStep, ReportsStep, ConsecutiveStep DEF Signal

LEMMA SignalAlways == Spec => []Signal
BY SignalInitially, SignalStep, PTL DEF Spec

(* The result is never written past its end, and no more than four blocks  *)
(* are kept (preamble.cpp: project_block writes what there is room for,    *)
(* and annotated is shifted).                                              *)
THEOREM TypeCorrect == Spec => []TypeOK
<1>1. Signal => TypeOK
  <2> SUFFICES ASSUME Signal
               PROVE  TypeOK
    OBVIOUS
  <2>1. ASSUME NEW i \in 1..Len(queue)
        PROVE  Len(queue[i]) = Size
    <3>1. queue[i] \in Block
      BY DEF Signal, Typing
    <3>2. QED
      BY <3>1 DEF Block
  <2>2. QED
    BY <2>1 DEF Signal, Typing, Phases, TypeOK
<1>2. QED
  BY <1>1, SignalAlways, PTL

(* When a script has stopped listening, it has all samples from the        *)
(* beginning of the preamble on, without a gap and without any left over   *)
(* from before it started; or nothing, if no wait told it of a preamble    *)
(* (preamble.cpp and host_luaext.h: what reader_stop_preamble gives back). *)
THEOREM SignalWhole == Spec => []ResultIsTheSignal
<1>1. Signal => ResultIsTheSignal
  <2> SUFFICES ASSUME Signal, script = "idle"
               PROVE  \/ result = [i \in 1..Points |-> (peak + Numbers - Size + i) % Numbers]
                      \/ result = <<>> /\ ~told
    BY DEF ResultIsTheSignal
  <2>1. search = "none"
    BY DEF Signal, Listening, Calling
  <2>2. Complete \/ (result = <<>> /\ snr # "found")
    BY <2>1 DEF Signal, Reports
  <2>3. CASE Complete
    <3>1. result \in Seq(Nat)
      BY DEF Signal, Typing
    <3>2. Len(result) = Points /\ \A i \in 1..Points : result[i] = Expected(i)
      BY <2>3 DEF Complete
    <3>3. result = [i \in 1..Points |-> result[i]]
      BY <3>1, <3>2
    <3>4. result = [i \in 1..Points |-> Expected(i)]
      BY <3>2, <3>3, Zenon
    <3>5. QED
      BY <3>4 DEF Expected
  <2>4. CASE result = <<>> /\ snr # "found"
    BY <2>4 DEF Signal, Reports
  <2>5. QED
    BY <2>2, <2>3, <2>4
<1>2. QED
  BY <1>1, SignalAlways, PTL
=============================================================================

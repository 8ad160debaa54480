---------------------------- MODULE SoftIOProofs ----------------------------
(***************************************************************************)
(* Theorems about SoftIO, for rings, buffers, packets and programs of any  *)
(* size.  What they rest on:                                               *)
(*                                                                         *)
(* - Typed (Places, Memory, Traffic, Rings, Wire): where each end is, what *)
(*   kind of message may be under way between whom, and how many bytes.    *)
(* - Awaits: what is in the ring of an end is, head by head, what is under *)
(*   way for it, answers first.  A full ring breaks it, hence RingsSuffice *)
(*   and Asking, which counts the requests of an end.                      *)
(* - StreamsIntact and Ready: the two fifos and the messages between hold  *)
(*   each stream in order, wherever a byte is when a message is handled.   *)
(* - Booked and Reserved: what is under way weighs no more than the rings  *)
(*   allow for, so that it fits in siorx.                                  *)
(* - Throttled: a program that reckons with the board's fifo never has     *)
(*   more of its stream on the way than that holds.                        *)
(*                                                                         *)
(* RingsSuffice, ReadsFit and BuffersSuffice say what the code relies on   *)
(* and tests nowhere.  Each theorem names the weakest one it needs.        *)
(***************************************************************************)
EXTENDS SoftIO, SequenceTheorems, WellFoundedInduction, TLAPS

-----------------------------------------------------------------------------
(* Induction on a set of numbers, from the library's theorem on            *)
(* well-founded relations.                                                 *)

(* A set of natural numbers that is not empty has a least element.         *)
LEMMA LeastElement ==
  ASSUME NEW T, T \subseteq Nat, T # {}
  PROVE  \E n \in T : \A m \in T : n <= m
<1> DEFINE R == OpToRel(<, Nat)
<1>1. IsWellFoundedOn(R, Nat)
  BY NatLessThanWellFounded
<1>2. \A m, n \in Nat : m < n => <<m, n>> \in R
  BY DEF OpToRel
<1> HIDE DEF R
<1>3. PICK n \in T : \A m \in T : <<m, n>> \notin R
  BY <1>1, WFMin
<1>4. \A m \in T : ~(m < n)
  BY <1>2, <1>3
<1>5. QED
  BY <1>3, <1>4

(* A set that holds 0, and with every number the next, holds all numbers.  *)
LEMMA Induction ==
  ASSUME NEW T, T \subseteq Nat, 0 \in T, \A n \in T : n + 1 \in T
  PROVE  T = Nat
<1> SUFFICES ASSUME Nat \ T # {} PROVE FALSE
  OBVIOUS
<1>1. PICK n \in Nat \ T : \A m \in Nat \ T : n <= m
  BY LeastElement
<1>2. n - 1 \in Nat /\ n - 1 \notin Nat \ T
  BY <1>1
<1>3. QED
  BY <1>1, <1>2

-----------------------------------------------------------------------------
(* Concatenation is associative.                                           *)
LEMMA Associative ==
  \A S : \A a, b, c \in Seq(S) : (a \o b) \o c = a \o (b \o c)
  BY ConcatAssociative

(* The same under a name that the provers leave alone, for the steps where *)
(* many sequences are about.                                               *)
Cat(a, b) == a \o b

(* Concatenation under that name stays in the set, and is associative.     *)
LEMMA CatAssociative ==
  \A S : \A a, b, c \in Seq(S) :
    Cat(a, b) \in Seq(S) /\ Cat(Cat(a, b), c) = Cat(a, Cat(b, c))
  BY ConcatAssociative, SMTT(30) DEF Cat

(* The end of one sequence becomes the start of the next.                  *)
LEMMA CatMoves ==
  \A S : \A a, b, c, d \in Seq(S) :
    Cat(Cat(a, Cat(b, d)), c) = Cat(Cat(a, b), Cat(d, c))
<1> TAKE S
<1> TAKE a, b, c, d \in Seq(S)
<1>1. Cat(a, Cat(b, d)) = Cat(Cat(a, b), d)
  BY CatAssociative
<1>2. Cat(a, b) \in Seq(S)
  BY CatAssociative
<1>3. Cat(Cat(Cat(a, b), d), c) = Cat(Cat(a, b), Cat(d, c))
  BY <1>2, CatAssociative
<1>4. QED
  BY <1>1, <1>3

(* The length of two sequences, one behind the other.                      *)
LEMMA BothLengths ==
  \A S : \A a, b \in Seq(S) : Len(a \o b) = Len(a) + Len(b)
  OBVIOUS

(* A sequence over a set is one over every larger set, the empty one over  *)
(* all of them.                                                            *)
LEMMA LargerSet ==
  /\ \A A, B : A \subseteq B => \A s \in Seq(A) : s \in Seq(B)
  /\ \A A : <<>> \in Seq(A)
  OBVIOUS

(* Flatten, whose recursive function is there for every list: g[i] is the  *)
(* first i sequences of ss, one behind the other.                          *)

Prefixes(ss, g, n) ==
  g = [i \in 0..n |-> IF i = 0 THEN <<>> ELSE g[i - 1] \o ss[i]]

(* Prefixes, one at a time.                                                *)
LEMMA PrefixesAt ==
  ASSUME NEW ss, NEW g, NEW n \in Nat, Prefixes(ss, g, n)
  PROVE  /\ g[0] = <<>>
         /\ \A i \in 1..n : g[i] = g[i - 1] \o ss[i]
<1>1. g = [i \in 0..n |-> IF i = 0 THEN <<>> ELSE g[i - 1] \o ss[i]]
  BY DEF Prefixes
<1>2. \A i \in 0..n : g[i] = IF i = 0 THEN <<>> ELSE g[i - 1] \o ss[i]
  <2> TAKE i \in 0..n
  <2> QED
    BY <1>1
<1>3. 0 \in 0..n /\ \A i \in 1..n : i \in 0..n /\ i # 0
  OBVIOUS
<1>4. QED
  BY <1>2, <1>3, Zenon

(* One prefix more.                                                        *)
LEMMA PrefixesMore ==
  ASSUME NEW ss, NEW g, NEW n \in Nat, Prefixes(ss, g, n)
  PROVE  \E h : Prefixes(ss, h, n + 1)
<1> DEFINE h == [i \in 0..(n + 1) |-> IF i = n + 1 THEN g[n] \o ss[n + 1] ELSE g[i]]
<1>1. g[0] = <<>> /\ \A i \in 1..n : g[i] = g[i - 1] \o ss[i]
  BY PrefixesAt
<1>2. h[0] = g[0]
  BY SMT
<1>3. ASSUME NEW i \in 1..n PROVE h[i] = h[i - 1] \o ss[i]
  <2>1. h[i] = g[i] /\ h[i - 1] = g[i - 1]
    BY <1>3, SMT
  <2>2. QED
    BY <2>1, <1>1, <1>3
<1>4. h[n + 1] = h[(n + 1) - 1] \o ss[n + 1]
  BY SMT
<1>5. h = [i \in 0..(n + 1) |-> h[i]]
  OBVIOUS
<1> HIDE DEF h
<1>6. ASSUME NEW i \in 0..(n + 1)
      PROVE  h[i] = IF i = 0 THEN <<>> ELSE h[i - 1] \o ss[i]
  <2>1. i = 0 \/ i \in 1..n \/ i = n + 1
    BY <1>6
  <2>2. i = n + 1 => i # 0
    BY SMT
  <2>3. i \in 1..n => i # 0
    BY SMT
  <2>4. QED
    BY <2>1, <2>2, <2>3, <1>1, <1>2, <1>3, <1>4
<1>7. h = [i \in 0..(n + 1) |-> IF i = 0 THEN <<>> ELSE h[i - 1] \o ss[i]]
  BY <1>5, <1>6
<1>8. QED
  BY <1>7 DEF Prefixes

(* The prefixes of every list exist.                                       *)
LEMMA PrefixesExist ==
  ASSUME NEW ss, NEW n \in Nat
  PROVE  \E g : Prefixes(ss, g, n)
<1> DEFINE T == {k \in Nat : \E g : Prefixes(ss, g, k)}
<1>1. 0 \in T
  <2>1. Prefixes(ss, [i \in 0..0 |-> <<>>], 0)
    BY DEF Prefixes
  <2>2. QED
    BY <2>1
<1>2. ASSUME NEW k \in T PROVE k + 1 \in T
  <2>1. PICK g : Prefixes(ss, g, k)
    OBVIOUS
  <2>2. \E h : Prefixes(ss, h, k + 1)
    BY <2>1, PrefixesMore
  <2>3. QED
    BY <2>2
<1>3. T \subseteq Nat
  OBVIOUS
<1>4. n \in T
  <2> HIDE DEF T
  <2>1. T = Nat
    BY <1>1, <1>2, <1>3, Induction
  <2>2. QED
    BY <2>1
<1>5. QED
  BY <1>4

(* Flatten is the last of them.                                            *)
LEMMA FlattenIsPrefix ==
  ASSUME NEW ss, NEW n \in Nat, Len(ss) = n
  PROVE  \E g : Prefixes(ss, g, n) /\ Flatten(ss) = g[n]
<1> DEFINE g == CHOOSE g : g = [i \in 0..Len(ss) |->
                                 IF i = 0 THEN <<>> ELSE g[i - 1] \o ss[i]]
<1>1. Prefixes(ss, g, Len(ss))
  BY PrefixesExist DEF Prefixes
<1>2. Flatten(ss) = g[Len(ss)]
  BY DEF Flatten
<1> HIDE DEF g
<1>3. Prefixes(ss, g, n) /\ Flatten(ss) = g[n]
  BY <1>1, <1>2
<1>4. QED
  BY <1>3

Agree(ss, tt, n) == \A i \in 1..n : ss[i] = tt[i]

(* It depends on the sequences up to it alone.                             *)
LEMMA PrefixesAgree ==
  \A ss, tt, g, h : \A n, m \in Nat :
    n <= m /\ Prefixes(ss, g, n) /\ Prefixes(tt, h, m) /\ Agree(ss, tt, n)
      => g[n] = h[n]
<1> SUFFICES ASSUME NEW ss, NEW tt, NEW g, NEW h, NEW n \in Nat, NEW m \in Nat, n <= m,
                    Prefixes(ss, g, n), Prefixes(tt, h, m),
                    \A i \in 1..n : ss[i] = tt[i]
             PROVE  g[n] = h[n]
  BY DEF Agree
<1> DEFINE T == {k \in Nat : k <= n => g[k] = h[k]}
<1>1. g[0] = <<>> /\ \A i \in 1..n : g[i] = g[i - 1] \o ss[i]
  BY PrefixesAt
<1>2. h[0] = <<>> /\ \A i \in 1..m : h[i] = h[i - 1] \o tt[i]
  BY PrefixesAt
<1>3. 0 \in T
  BY <1>1, <1>2
<1>4. ASSUME NEW k \in T PROVE k + 1 \in T
  <2> SUFFICES ASSUME k + 1 <= n PROVE g[k + 1] = h[k + 1]
    OBVIOUS
  <2>1. k + 1 \in 1..n /\ k + 1 \in 1..m /\ (k + 1) - 1 = k /\ k <= n
    OBVIOUS
  <2>2. g[k] = h[k]
    BY <2>1
  <2>3. g[k + 1] = g[(k + 1) - 1] \o ss[k + 1] /\ h[k + 1] = h[(k + 1) - 1] \o tt[k + 1]
    BY <1>1, <1>2, <2>1
  <2>4. QED
    BY <2>1, <2>2, <2>3
<1>5. T \subseteq Nat
  OBVIOUS
<1>6. n \in T
  <2> HIDE DEF T
  <2>1. T = Nat
    BY <1>3, <1>4, <1>5, Induction
  <2>2. QED
    BY <2>1
<1>7. QED
  BY <1>6

(* Nothing flattens to nothing.                                            *)
LEMMA FlattenEmpty ==
  ASSUME NEW ss, Len(ss) = 0
  PROVE  Flatten(ss) = <<>>
<1>1. PICK g : Prefixes(ss, g, 0) /\ Flatten(ss) = g[0]
  BY FlattenIsPrefix
<1>2. 0 \in Nat
  OBVIOUS
<1>3. g[0] = <<>>
  BY <1>1, <1>2, PrefixesAt, Zenon
<1>4. QED
  BY <1>1, <1>3

(* Elements of the sequences are elements of the whole.                    *)
LEMMA FlattenType ==
  ASSUME NEW S, NEW ss, NEW n \in Nat, Len(ss) = n, \A i \in 1..n : ss[i] \in Seq(S)
  PROVE  Flatten(ss) \in Seq(S)
<1>1. PICK g : Prefixes(ss, g, n) /\ Flatten(ss) = g[n]
  BY FlattenIsPrefix
<1>3. g[0] = <<>> /\ \A i \in 1..n : g[i] = g[i - 1] \o ss[i]
  BY <1>1, PrefixesAt
<1> DEFINE T == {k \in Nat : k <= n => g[k] \in Seq(S)}
<1>4. 0 \in T
  <2>1. <<>> \in Seq(S) /\ 0 \in Nat
    OBVIOUS
  <2>2. QED
    BY <2>1, <1>3, Zenon
<1>5. ASSUME NEW k \in T PROVE k + 1 \in T
  <2> SUFFICES ASSUME k + 1 <= n PROVE g[k + 1] \in Seq(S)
    OBVIOUS
  <2>1. k + 1 \in 1..n /\ (k + 1) - 1 = k /\ k <= n
    OBVIOUS
  <2>2. g[k] \in Seq(S) /\ ss[k + 1] \in Seq(S)
    BY <2>1
  <2>3. g[k + 1] = g[k] \o ss[k + 1]
    BY <1>3, <2>1
  <2>4. QED
    BY <2>2, <2>3
<1>6. T \subseteq Nat
  OBVIOUS
<1>7. n \in T
  <2> HIDE DEF T
  <2>1. T = Nat
    BY <1>4, <1>5, <1>6, Induction
  <2>2. QED
    BY <2>1
<1>8. QED
  BY <1>1, <1>7

(* A sequence more at the end.                                             *)
LEMMA FlattenLast ==
  ASSUME NEW ss, NEW tt, NEW n \in Nat, Len(ss) = n, Len(tt) = n + 1,
         Agree(ss, tt, n)
  PROVE  Flatten(tt) = Flatten(ss) \o tt[n + 1]
<1>1. PICK g : Prefixes(ss, g, n) /\ Flatten(ss) = g[n]
  BY FlattenIsPrefix
<1>2. n + 1 \in Nat /\ n <= n + 1 /\ n + 1 \in 1..(n + 1) /\ (n + 1) - 1 = n
  OBVIOUS
<1>3. PICK h : Prefixes(tt, h, n + 1) /\ Flatten(tt) = h[n + 1]
  BY <1>2, FlattenIsPrefix, Zenon
<1>4. g[n] = h[n]
  <2>1. PICK m \in Nat : m = n + 1
    OBVIOUS
  <2>2. Prefixes(tt, h, m) /\ n <= m
    BY <1>3, <2>1
  <2>3. QED
    BY <1>1, <2>2, PrefixesAgree, SMT
<1>5. h[n + 1] = h[(n + 1) - 1] \o tt[n + 1]
  BY <1>2, <1>3, PrefixesAt, Zenon
<1>6. QED
  BY <1>1, <1>2, <1>3, <1>4, <1>5, Zenon

Listed(ss, n, S) == \A i \in 1..n : ss[i] \in Seq(S)
Behind(tt, ss, n) == \A i \in 1..n : tt[i] = ss[i + 1]

(* The first sequence, and the rest.                                       *)
LEMMA FlattenFirst ==
  ASSUME NEW S, NEW ss, NEW tt, NEW n \in Nat, Len(tt) = n, Len(ss) = n + 1,
         Listed(ss, n + 1, S), Behind(tt, ss, n)
  PROVE  Flatten(ss) = ss[1] \o Flatten(tt)
<1>1. n + 1 \in Nat
  OBVIOUS
<1>2. PICK g : Prefixes(ss, g, n + 1) /\ Flatten(ss) = g[n + 1]
  BY <1>1, FlattenIsPrefix, Zenon
<1>3. PICK h : Prefixes(tt, h, n) /\ Flatten(tt) = h[n]
  BY FlattenIsPrefix
<1>4. g[0] = <<>> /\ \A i \in 1..(n + 1) : g[i] = g[i - 1] \o ss[i]
  BY <1>1, <1>2, PrefixesAt, Zenon
<1>5. h[0] = <<>> /\ \A i \in 1..n : h[i] = h[i - 1] \o tt[i]
  BY <1>3, PrefixesAt, Zenon
<1> DEFINE T == {k \in Nat : k <= n => h[k] \in Seq(S) /\ g[k + 1] = ss[1] \o h[k]}
<1>6. 0 \in T
  <2>1. 1 \in 1..(n + 1) /\ 1 - 1 = 0 /\ 0 + 1 = 1 /\ 0 \in Nat
    OBVIOUS
  <2>2. ss[1] \in Seq(S) /\ g[1] = g[1 - 1] \o ss[1]
    BY <2>1, <1>4, Zenon DEF Listed
  <2>3. g[1] = ss[1] \o h[0]
    BY <2>1, <2>2, <1>4, <1>5, SMTT(30)
  <2>4. h[0] \in Seq(S)
    BY <1>5
  <2>5. QED
    BY <2>1, <2>3, <2>4
<1>7. ASSUME NEW k \in T PROVE k + 1 \in T
  <2>1. k \in Nat /\ k + 1 \in Nat
    OBVIOUS
  <2>2. k <= n => h[k] \in Seq(S) /\ g[k + 1] = ss[1] \o h[k]
    OBVIOUS
  <2>3. ASSUME k + 1 <= n
        PROVE  h[k + 1] \in Seq(S) /\ g[(k + 1) + 1] = ss[1] \o h[k + 1]
    <3> HIDE DEF T
    <3>1. /\ k + 1 \in 1..n /\ (k + 1) - 1 = k /\ k <= n
          /\ (k + 1) + 1 \in 1..(n + 1) /\ ((k + 1) + 1) - 1 = k + 1
          /\ 1 \in 1..(n + 1)
      BY <2>1, <2>3
    <3>2. PICK a, b, c : a = ss[1] /\ b = h[k] /\ c = ss[(k + 1) + 1]
      OBVIOUS
    <3>3. a \in Seq(S) /\ c \in Seq(S)
      BY <3>1, <3>2 DEF Listed
    <3>4. tt[k + 1] = c
      BY <3>1, <3>2 DEF Behind
    <3>5. b \in Seq(S) /\ g[k + 1] = a \o b
      BY <2>2, <3>1, <3>2
    <3>6. g[(k + 1) + 1] = g[k + 1] \o c /\ h[k + 1] = b \o c
      BY <3>1, <3>2, <3>4, <1>4, <1>5
    <3>7. (a \o b) \o c = a \o (b \o c)
      BY <3>3, <3>5, Associative, SMTT(30)
    <3>8. b \o c \in Seq(S)
      BY <3>3, <3>5
    <3>9. QED
      BY <3>2, <3>5, <3>6, <3>7, <3>8
  <2>4. QED
    BY <2>1, <2>3
<1>8. T \subseteq Nat
  OBVIOUS
<1>9. n \in T
  <2> HIDE DEF T
  <2>1. T = Nat
    BY <1>6, <1>7, <1>8, Induction
  <2>2. QED
    BY <2>1
<1>10. g[n + 1] = ss[1] \o h[n]
  <2>1. n <= n
    OBVIOUS
  <2>2. QED
    BY <2>1, <1>9, Zenon
<1>11. QED
  BY <1>2, <1>3, <1>10

-----------------------------------------------------------------------------
(* What the messages of a list add to a flattened list.                    *)

(* The parts of the messages in ms, one behind the other.                  *)
Parts(part, ms) == Flatten([i \in 1..Len(ms) |-> part[ms[i]]])

(* They consist of what each part consists of.                             *)
LEMMA PartsType ==
  ASSUME NEW M, NEW S, NEW part \in [M -> Seq(S)], NEW ms \in Seq(M)
  PROVE  Parts(part, ms) \in Seq(S)
<1> DEFINE ss == [i \in 1..Len(ms) |-> part[ms[i]]]
<1>1. PICK n \in Nat : n = Len(ms)
  OBVIOUS
<1>2. Len(ss) = n /\ \A i \in 1..n : ss[i] \in Seq(S)
  BY <1>1
<1>3. Parts(part, ms) = Flatten(ss)
  BY DEF Parts
<1> HIDE DEF ss
<1>4. QED
  BY <1>2, <1>3, FlattenType

(* No messages, no parts.                                                  *)
LEMMA PartsEmpty ==
  ASSUME NEW part
  PROVE  Parts(part, <<>>) = <<>>
<1> DEFINE ss == [i \in 1..Len(<<>>) |-> part[<<>>[i]]]
<1>1. Len(ss) = 0
  OBVIOUS
<1>2. Parts(part, <<>>) = Flatten(ss)
  BY DEF Parts
<1> HIDE DEF ss
<1>3. QED
  BY <1>1, <1>2, FlattenEmpty

(* One message more adds its part at the end.                              *)
LEMMA PartsAppend ==
  ASSUME NEW M, NEW S, NEW part \in [M -> Seq(S)], NEW ms \in Seq(M), NEW m \in M
  PROVE  Parts(part, Append(ms, m)) = Parts(part, ms) \o part[m]
<1> DEFINE ss == [i \in 1..Len(ms) |-> part[ms[i]]]
           es == Append(ms, m)
           tt == [i \in 1..Len(es) |-> part[es[i]]]
<1>1. PICK n \in Nat : n = Len(ms)
  OBVIOUS
<1>2. Len(es) = n + 1 /\ es[n + 1] = m /\ \A i \in 1..n : es[i] = ms[i]
  BY <1>1
<1>3. Len(ss) = n /\ Len(tt) = n + 1
  BY <1>1, <1>2
<1>4. Agree(ss, tt, n)
  BY <1>1, <1>2 DEF Agree
<1>5. tt[n + 1] = part[m]
  BY <1>2
<1>6. Parts(part, ms) = Flatten(ss) /\ Parts(part, es) = Flatten(tt)
  BY DEF Parts
<1> HIDE DEF ss, tt
<1>7. Flatten(tt) = Flatten(ss) \o tt[n + 1]
  BY <1>3, <1>4, FlattenLast
<1>8. QED
  BY <1>5, <1>6, <1>7

(* The first message's part comes first.                                   *)
LEMMA PartsTail ==
  ASSUME NEW M, NEW S, NEW part \in [M -> Seq(S)], NEW ms \in Seq(M), ms # <<>>
  PROVE  Parts(part, ms) = part[Head(ms)] \o Parts(part, Tail(ms))
<1> DEFINE ss == [i \in 1..Len(ms) |-> part[ms[i]]]
           es == Tail(ms)
           tt == [i \in 1..Len(es) |-> part[es[i]]]
<1>0. es \in Seq(M) /\ Len(es) \in Nat
  OBVIOUS
<1>1. PICK n \in Nat : n = Len(es)
  BY <1>0
<1>2. Len(ms) = n + 1 /\ ms[1] = Head(ms) /\ \A i \in 1..n : es[i] = ms[i + 1]
  BY <1>1
<1>3. Len(ss) = n + 1 /\ Len(tt) = n
  BY <1>1, <1>2
<1>4. Listed(ss, n + 1, S)
  BY <1>2 DEF Listed
<1>5. Behind(tt, ss, n)
  BY <1>1, <1>2 DEF Behind
<1>6. ss[1] = part[Head(ms)]
  BY <1>2
<1>7. Parts(part, ms) = Flatten(ss) /\ Parts(part, es) = Flatten(tt)
  BY DEF Parts
<1> HIDE DEF ss, tt
<1>8. Flatten(ss) = ss[1] \o Flatten(tt)
  BY <1>3, <1>4, <1>5, FlattenFirst, ZenonT(40)
<1>9. QED
  BY <1>6, <1>7, <1>8

-----------------------------------------------------------------------------
(* Messages.                                                               *)

Message == [type : Types, ret : BOOLEAN, len : 0..FifoLength, data : Seq(Values \cup Nat)]

AnswerPart  == [m \in Message |-> IF m.ret THEN <<m>> ELSE <<>>]
RequestPart == [m \in Message |-> IF m.ret THEN <<>> ELSE <<m>>]
CargoPart   == [m \in Message |-> Cargo(m)]
BytePart    == [m \in Message |-> Encoding(m)]

(* A message is a natural number of bytes.                                 *)
LEMMA SizeType ==
  ASSUME NEW m \in Message
  PROVE  Size(m) \in Nat /\ Len(Encoding(m)) = Size(m) /\ Encoding(m) \in Seq(Message)
<1>1. HeadBytes \in Nat /\ AckBytes \in Nat /\ SumBytes \in Nat
  BY SizeAssumption
<1>2. Len(m.data) \in Nat /\ m.type \in Types /\ m.ret \in BOOLEAN
  BY DEF Message
<1>3. Size(m) \in Nat
  BY <1>1, <1>2, SMTT(30) DEF Size, Types
<1>4. QED
  BY <1>3 DEF Encoding

(* The four lists that are made from messages are such parts.              *)
LEMMA PartTypes ==
  /\ AnswerPart \in [Message -> Seq(Message)]
  /\ RequestPart \in [Message -> Seq(Message)]
  /\ CargoPart \in [Message -> Seq(Values \cup Nat)]
  /\ BytePart \in [Message -> Seq(Message)]
<1>1. AnswerPart \in [Message -> Seq(Message)]
  BY DEF AnswerPart
<1>2. RequestPart \in [Message -> Seq(Message)]
  BY DEF RequestPart
<1>3. CargoPart \in [Message -> Seq(Values \cup Nat)]
  <2>1. ASSUME NEW m \in Message PROVE Cargo(m) \in Seq(Values \cup Nat)
    <3>1. m.data \in Seq(Values \cup Nat)
      BY DEF Message
    <3>2. QED
      BY <3>1 DEF Cargo
  <2>2. QED
    BY <2>1 DEF CargoPart
<1>4. BytePart \in [Message -> Seq(Message)]
  BY SizeType DEF BytePart
<1>5. QED
  BY <1>1, <1>2, <1>3, <1>4

(* The same, list by list.                                                 *)
LEMMA ListsAreParts ==
  ASSUME NEW ms \in Seq(Message)
  PROVE  /\ Answers(ms) = Parts(AnswerPart, ms)
         /\ Requests(ms) = Parts(RequestPart, ms)
         /\ Carried(ms) = Parts(CargoPart, ms)
         /\ Bytes(ms) = Len(Parts(BytePart, ms))
<1>1. \A i \in 1..Len(ms) : ms[i] \in Message
  OBVIOUS
<1>2. [i \in 1..Len(ms) |-> IF ms[i].ret THEN <<ms[i]>> ELSE <<>>]
        = [i \in 1..Len(ms) |-> AnswerPart[ms[i]]]
  BY <1>1 DEF AnswerPart
<1>3. [i \in 1..Len(ms) |-> IF ms[i].ret THEN <<>> ELSE <<ms[i]>>]
        = [i \in 1..Len(ms) |-> RequestPart[ms[i]]]
  BY <1>1 DEF RequestPart
<1>4. [i \in 1..Len(ms) |-> Cargo(ms[i])] = [i \in 1..Len(ms) |-> CargoPart[ms[i]]]
  BY <1>1 DEF CargoPart
<1>5. [i \in 1..Len(ms) |-> Encoding(ms[i])] = [i \in 1..Len(ms) |-> BytePart[ms[i]]]
  BY <1>1 DEF BytePart
<1>6. QED
  BY <1>2, <1>3, <1>4, <1>5 DEF Answers, Requests, Carried, Bytes, Parts

(* What they consist of.                                                   *)
LEMMA ListTypes ==
  ASSUME NEW ms \in Seq(Message)
  PROVE  /\ Answers(ms) \in Seq(Message)
         /\ Requests(ms) \in Seq(Message)
         /\ Carried(ms) \in Seq(Values \cup Nat)
         /\ Bytes(ms) \in Nat
<1>1. Parts(AnswerPart, ms) \in Seq(Message)
  BY PartTypes, PartsType
<1>2. Parts(RequestPart, ms) \in Seq(Message)
  BY PartTypes, PartsType
<1>3. Parts(CargoPart, ms) \in Seq(Values \cup Nat)
  BY PartTypes, PartsType
<1>4. Parts(BytePart, ms) \in Seq(Message)
  BY PartTypes, PartsType
<1>5. QED
  BY <1>1, <1>2, <1>3, <1>4, ListsAreParts

(* Without messages there is nothing in them.                              *)
LEMMA ListsEmpty ==
  /\ Answers(<<>>) = <<>>
  /\ Requests(<<>>) = <<>>
  /\ Carried(<<>>) = <<>>
  /\ Bytes(<<>>) = 0
<1>1. <<>> \in Seq(Message)
  OBVIOUS
<1>2. Len(<<>>) = 0
  OBVIOUS
<1> DEFINE none == <<>>
<1>3. none \in Seq(Message) /\ Len(none) = 0 /\ none = <<>>
  BY <1>1, <1>2
<1> HIDE DEF none
<1>4. /\ Parts(AnswerPart, none) = none /\ Parts(RequestPart, none) = none
      /\ Parts(CargoPart, none) = none /\ Parts(BytePart, none) = none
  BY <1>3, PartsEmpty
<1>5. /\ Answers(none) = none /\ Requests(none) = none /\ Carried(none) = none
      /\ Bytes(none) = 0
  BY <1>3, <1>4, ListsAreParts
<1>6. QED
  BY <1>3, <1>5

(* A message more.                                                         *)
LEMMA ListsAppend ==
  ASSUME NEW ms \in Seq(Message), NEW m \in Message
  PROVE  /\ Answers(Append(ms, m)) = IF m.ret THEN Append(Answers(ms), m) ELSE Answers(ms)
         /\ Requests(Append(ms, m)) = IF m.ret THEN Requests(ms) ELSE Append(Requests(ms), m)
         /\ Carried(Append(ms, m)) = Carried(ms) \o Cargo(m)
         /\ Bytes(Append(ms, m)) = Bytes(ms) + Size(m)
<1>1. Append(ms, m) \in Seq(Message)
  OBVIOUS
<1>2. /\ Parts(AnswerPart, Append(ms, m)) = Parts(AnswerPart, ms) \o AnswerPart[m]
      /\ Parts(RequestPart, Append(ms, m)) = Parts(RequestPart, ms) \o RequestPart[m]
      /\ Parts(CargoPart, Append(ms, m)) = Parts(CargoPart, ms) \o CargoPart[m]
      /\ Parts(BytePart, Append(ms, m)) = Parts(BytePart, ms) \o BytePart[m]
  <2>1. Parts(AnswerPart, Append(ms, m)) = Parts(AnswerPart, ms) \o AnswerPart[m]
    BY PartTypes, PartsAppend, ZenonT(40)
  <2>2. Parts(RequestPart, Append(ms, m)) = Parts(RequestPart, ms) \o RequestPart[m]
    BY PartTypes, PartsAppend, ZenonT(40)
  <2>3. Parts(CargoPart, Append(ms, m)) = Parts(CargoPart, ms) \o CargoPart[m]
    BY PartTypes, PartsAppend, ZenonT(40)
  <2>4. Parts(BytePart, Append(ms, m)) = Parts(BytePart, ms) \o BytePart[m]
    BY PartTypes, PartsAppend, ZenonT(40)
  <2>5. QED
    BY <2>1, <2>2, <2>3, <2>4
<1>3. ASSUME NEW s \in Seq(Message)
      PROVE  s \o <<>> = s /\ s \o <<m>> = Append(s, m)
  BY <1>3
<1>4. /\ AnswerPart[m] = IF m.ret THEN <<m>> ELSE <<>>
      /\ RequestPart[m] = IF m.ret THEN <<>> ELSE <<m>>
      /\ CargoPart[m] = Cargo(m)
      /\ BytePart[m] = Encoding(m)
  BY DEF AnswerPart, RequestPart, CargoPart, BytePart
<1>5. /\ Answers(ms) \in Seq(Message) /\ Requests(ms) \in Seq(Message)
      /\ Parts(BytePart, ms) \in Seq(Message)
  BY ListTypes, PartTypes, PartsType
<1>6. Answers(Append(ms, m)) = Answers(ms) \o AnswerPart[m]
  BY <1>1, <1>2, ListsAreParts
<1>7. Requests(Append(ms, m)) = Requests(ms) \o RequestPart[m]
  BY <1>1, <1>2, ListsAreParts
<1>8. Carried(Append(ms, m)) = Carried(ms) \o Cargo(m)
  BY <1>1, <1>2, <1>4, ListsAreParts
<1>9. Bytes(Append(ms, m)) = Bytes(ms) + Size(m)
  <2>1. Bytes(ms) = Len(Parts(BytePart, ms))
    BY ListsAreParts
  <2>2. Bytes(Append(ms, m)) = Len(Parts(BytePart, ms) \o Encoding(m))
    BY <1>1, <1>2, <1>4, ListsAreParts
  <2>3. Len(Encoding(m)) = Size(m) /\ Encoding(m) \in Seq(Message)
    BY SizeType
  <2>4. Len(Parts(BytePart, ms) \o Encoding(m)) = Len(Parts(BytePart, ms)) + Len(Encoding(m))
    BY <1>5, <2>3, BothLengths, Zenon
  <2>5. QED
    BY <2>1, <2>2, <2>3, <2>4
<1>10. Answers(Append(ms, m)) = IF m.ret THEN Append(Answers(ms), m) ELSE Answers(ms)
  BY <1>3, <1>4, <1>5, <1>6
<1>11. Requests(Append(ms, m)) = IF m.ret THEN Requests(ms) ELSE Append(Requests(ms), m)
  BY <1>3, <1>4, <1>5, <1>7
<1>12. QED
  BY <1>8, <1>9, <1>10, <1>11

(* The first message, and those behind it.                                 *)
LEMMA ListsTail ==
  ASSUME NEW ms \in Seq(Message), ms # <<>>
  PROVE  LET m == Head(ms) IN
         /\ Tail(ms) \in Seq(Message) /\ m \in Message
         /\ Answers(ms) = IF m.ret THEN <<m>> \o Answers(Tail(ms)) ELSE Answers(Tail(ms))
         /\ Requests(ms) = IF m.ret THEN Requests(Tail(ms)) ELSE <<m>> \o Requests(Tail(ms))
         /\ Carried(ms) = Cargo(m) \o Carried(Tail(ms))
         /\ Bytes(ms) = Size(m) + Bytes(Tail(ms))
<1> DEFINE m == Head(ms)
           es == Tail(ms)
<1>1. m \in Message /\ es \in Seq(Message)
  OBVIOUS
<1>2. /\ Parts(AnswerPart, ms) = AnswerPart[m] \o Parts(AnswerPart, es)
      /\ Parts(RequestPart, ms) = RequestPart[m] \o Parts(RequestPart, es)
      /\ Parts(CargoPart, ms) = CargoPart[m] \o Parts(CargoPart, es)
      /\ Parts(BytePart, ms) = BytePart[m] \o Parts(BytePart, es)
  <2>1. Parts(AnswerPart, ms) = AnswerPart[m] \o Parts(AnswerPart, es)
    BY PartTypes, PartsTail, ZenonT(40)
  <2>2. Parts(RequestPart, ms) = RequestPart[m] \o Parts(RequestPart, es)
    BY PartTypes, PartsTail, ZenonT(40)
  <2>3. Parts(CargoPart, ms) = CargoPart[m] \o Parts(CargoPart, es)
    BY PartTypes, PartsTail, ZenonT(40)
  <2>4. Parts(BytePart, ms) = BytePart[m] \o Parts(BytePart, es)
    BY PartTypes, PartsTail, ZenonT(40)
  <2>5. QED
    BY <2>1, <2>2, <2>3, <2>4
<1> HIDE DEF m, es
<1>3. ASSUME NEW s \in Seq(Message)
      PROVE  <<>> \o s = s
  BY <1>3
<1>4. /\ AnswerPart[m] = IF m.ret THEN <<m>> ELSE <<>>
      /\ RequestPart[m] = IF m.ret THEN <<>> ELSE <<m>>
      /\ CargoPart[m] = Cargo(m)
      /\ BytePart[m] = Encoding(m)
  BY <1>1 DEF AnswerPart, RequestPart, CargoPart, BytePart
<1>5. /\ Answers(es) \in Seq(Message) /\ Requests(es) \in Seq(Message)
      /\ Parts(BytePart, es) \in Seq(Message)
  BY <1>1, ListTypes, PartTypes, PartsType
<1>6. Answers(ms) = AnswerPart[m] \o Answers(es)
  BY <1>1, <1>2, ListsAreParts
<1>7. Requests(ms) = RequestPart[m] \o Requests(es)
  BY <1>1, <1>2, ListsAreParts
<1>8. Carried(ms) = Cargo(m) \o Carried(es)
  BY <1>1, <1>2, <1>4, ListsAreParts
<1>9. Bytes(ms) = Size(m) + Bytes(es)
  <2>1. Bytes(es) = Len(Parts(BytePart, es))
    BY <1>1, ListsAreParts
  <2>2. Bytes(ms) = Len(Encoding(m) \o Parts(BytePart, es))
    BY <1>1, <1>2, <1>4, ListsAreParts
  <2>3. Len(Encoding(m)) = Size(m) /\ Encoding(m) \in Seq(Message)
    BY <1>1, SizeType
  <2>4. Len(Encoding(m) \o Parts(BytePart, es)) = Len(Encoding(m)) + Len(Parts(BytePart, es))
    BY <1>5, <2>3, BothLengths, Zenon
  <2>5. QED
    BY <2>1, <2>2, <2>3, <2>4
<1>10. Answers(ms) = IF m.ret THEN <<m>> \o Answers(es) ELSE Answers(es)
  BY <1>3, <1>4, <1>5, <1>6
<1>11. Requests(ms) = IF m.ret THEN Requests(es) ELSE <<m>> \o Requests(es)
  BY <1>3, <1>4, <1>5, <1>7
<1>12. QED
  BY <1>1, <1>8, <1>9, <1>10, <1>11 DEF m, es

-----------------------------------------------------------------------------
(* Where an end is: Places, which depends on no other part of the state.   *)

Place == [do   : {"idle", "slot", "room", "flush", "handle", "all", "try", "push"},
          type : Types, len : 0..FifoLength, back : {"idle", "room", "all"}]

(* The requests that an end makes.                                         *)
MayAsk(p) == IF p = "pc" THEN Calls ELSE {"write_fifo"}

(* A request has been decided on and is not sent yet.                      *)
Calling(a) == \/ a.do \in {"slot", "room"}
              \/ a.do \in {"flush", "handle"} /\ a.back = "room"

PlaceOf(p) ==
  {a \in Place :
     /\ p = "pc" => a.do # "push"
     /\ p = "mcu" => a.do \notin {"all", "try"}
     /\ a.do \in {"flush", "handle"} => \/ a.back = "room"
                                        \/ a.back = "all" /\ p = "pc"
     /\ Calling(a) => /\ a.type \in MayAsk(p)
                      /\ a.type \in {"read", "write"} => a.len = 1
                      /\ a.type = "clear_fifo" => a.len = 0
                      /\ a.type = "write_fifo" => a.len <= MaxLen
                      /\ p = "mcu" => a.len = PushBytes}

Places ==
  /\ DOMAIN at = Peer
  /\ at = [p \in Peer |-> at[p]]
  /\ \A p \in Peer : at[p] \in PlaceOf(p)

(* The bounds on the lengths of requests.                                  *)
LEMMA Lengths ==
  /\ FifoLength \in Nat /\ FifoLength > 0
  /\ PushBytes \in 0..FifoLength /\ 0 \in 0..FifoLength /\ 1 \in 0..FifoLength
  /\ \A n : n \in 1..PushBytes => n \in 0..FifoLength
  /\ MaxLen \in Nat /\ PushBytes <= MaxLen
<1>1. /\ FifoLength \in Nat /\ FifoLength > 0 /\ PushBytes \in Nat /\ PushBytes > 0
      /\ MaxLen \in Nat
  BY SizeAssumption
<1>2. PushBytes < FifoLength /\ PushBytes <= MaxLen
  BY PushAssumption
<1>3. QED
  BY <1>1, <1>2

(* One end goes somewhere, the other stays.                                *)
LEMMA Going ==
  ASSUME Places, NEW p \in Peer, NEW b \in PlaceOf(p), at' = [at EXCEPT ![p] = b]
  PROVE  Places'
  BY DEF Places

MayWait(p, back) ==
  \/ back = "room" /\ Calling(at[p])
  \/ back = "all" /\ p = "pc"
MayGo(p, do) ==
  \/ do = "idle"
  \/ do = "push" /\ p = "mcu"
  \/ do \in {"all", "try"} /\ p = "pc"
  \/ do = "room" /\ Calling(at[p])
  \/ do = "handle" /\ at[p].do = "flush"

(* It starts to wait for a message.                                        *)
LEMMA Waiting ==
  ASSUME Places, NEW p \in Peer, NEW back, WaitOne(p, back), MayWait(p, back)
  PROVE  Places'
<1> DEFINE b == [at[p] EXCEPT !.do = "flush", !.back = back]
<1>1. at[p] \in PlaceOf(p) /\ p \in DOMAIN at
  BY DEF Places
<1>2. at' = [at EXCEPT ![p] = b]
  BY <1>1 DEF WaitOne
<1>3. b \in PlaceOf(p)
  BY <1>1 DEF PlaceOf, Place, Calling, MayWait
<1> HIDE DEF b
<1>4. QED
  BY <1>2, <1>3, Going

(* It goes on, and keeps its request if it has one.                        *)
LEMMA GoingOn ==
  ASSUME Places, NEW p \in Peer, NEW do, GoTo(p, do), MayGo(p, do)
  PROVE  Places'
<1> DEFINE b == [at[p] EXCEPT !.do = do]
<1>1. at[p] \in PlaceOf(p) /\ p \in DOMAIN at
  BY DEF Places
<1>2. at' = [at EXCEPT ![p] = b]
  BY <1>1 DEF GoTo
<1>3. b \in PlaceOf(p)
  BY <1>1 DEF PlaceOf, Place, Calling, MayGo
<1> HIDE DEF b
<1>4. QED
  BY <1>2, <1>3, Going

(* It decides on a request.                                                *)
LEMMA Beginning ==
  ASSUME Places, NEW p \in Peer, NEW type \in Types, NEW len \in 0..FifoLength,
         Begin(p, type, len, "slot"), type \in MayAsk(p),
         type \in {"read", "write"} => len = 1, type = "clear_fifo" => len = 0,
         type = "write_fifo" => len <= MaxLen, p = "mcu" => len = PushBytes
  PROVE  Places'
<1> DEFINE b == [do |-> "slot", type |-> type, len |-> len, back |-> "idle"]
<1>1. at' = [at EXCEPT ![p] = b]
  BY DEF Begin
<1>2. b \in PlaceOf(p)
  BY DEF PlaceOf, Place, Calling
<1> HIDE DEF b
<1>3. QED
  BY <1>1, <1>2, Going

(* It handles a message, or fails to.                                      *)
LEMMA HandlingPlaces ==
  ASSUME Places, NEW q \in Peer, NEW have, NEW room, NEW next, Handle(q, have, room, next),
         \/ next = at[q].do
         \/ at[q].do = "handle" /\ next = at[q].back
  PROVE  Places'
<1>1. UNCHANGED at \/ GoTo(q, next)
  BY DEF Handle
<1>2. at[q] \in PlaceOf(q) /\ q \in DOMAIN at
  BY DEF Places
<1>3. CASE UNCHANGED at
  BY <1>3 DEF Places
<1>4. CASE GoTo(q, next)
  <2>1. CASE next = at[q].do
    <3>1. [at[q] EXCEPT !.do = next] = at[q]
      BY <1>2, <2>1 DEF PlaceOf, Place
    <3>2. UNCHANGED at
      BY <1>2, <1>4, <2>1, <3>1 DEF GoTo, Places
    <3>3. QED
      BY <3>2 DEF Places
  <2>2. CASE at[q].do = "handle" /\ next = at[q].back
    <3>1. MayGo(q, next)
      BY <1>2, <2>2 DEF PlaceOf, Calling, MayGo
    <3>2. QED
      BY <1>4, <3>1, GoingOn
  <2>3. QED
    BY <2>1, <2>2
<1>5. QED
  BY <1>1, <1>3, <1>4

Fifos ==
  /\ fifo \in [Peer -> [Stream -> Seq(Nat)]]
  /\ \A p \in Peer, f \in Stream : Len(fifo[p][f]) < FifoLength

(* The ends that a step names are ends.                                    *)
LEMMA Ends ==
  /\ "pc" \in Peer /\ "mcu" \in Peer /\ "pc" # "mcu"
  /\ Other("pc") = "mcu" /\ Other("mcu") = "pc"
  /\ FifoOf("pc") = "down" /\ FifoOf("mcu") = "up"
  /\ "up" \in Stream /\ "down" \in Stream
  BY DEF Peer, Other, FifoOf, Stream

(* The program on the PC asks for something.                               *)
LEMMA CallPlaces ==
  ASSUME Places, Fifos, NEW type \in Calls, Call(type)
  PROVE  Places'
<1>1. type \in Types /\ type \in MayAsk("pc")
  BY CallsAssumption DEF MayAsk
<1>2. PICK len : /\ Begin("pc", type, len, "slot")
                 /\ len \in CASE type = "write_fifo" ->
                                     1..Smaller(MaxLen, Len(fifo["pc"]["down"]))
                              [] type = "read_fifo"  -> 1..PushBytes
                              [] type = "clear_fifo" -> {0}
                              [] OTHER               -> {1}
  BY DEF Call
<1>3. Len(fifo["pc"]["down"]) \in Nat /\ Len(fifo["pc"]["down"]) < FifoLength
  BY Ends DEF Fifos
<1>4. CASE type = "write_fifo"
  <2>1. len \in 0..FifoLength /\ len <= MaxLen
    BY <1>2, <1>3, <1>4, Lengths DEF Smaller
  <2>2. QED
    BY <1>1, <1>2, <1>4, <2>1, Beginning, Ends
<1>5. CASE type = "read_fifo"
  <2>1. len \in 0..FifoLength
    BY <1>2, <1>5, Lengths
  <2>2. QED
    BY <1>1, <1>2, <1>5, <2>1, Beginning, Ends
<1>6. CASE type = "clear_fifo"
  <2>1. len \in 0..FifoLength /\ len = 0
    BY <1>2, <1>6, Lengths
  <2>2. QED
    BY <1>1, <1>2, <1>6, <2>1, Beginning, Ends
<1>7. CASE type \in {"read", "write"}
  <2>1. len \in 0..FifoLength /\ len = 1
    BY <1>2, <1>7, Lengths
  <2>2. QED
    BY <1>1, <1>2, <1>7, <2>1, Beginning, Ends
<1>8. QED
  BY <1>1, <1>4, <1>5, <1>6, <1>7 DEF Types

(* A step of the library leaves its end where a program can be.            *)
LEMMA LibraryPlaces ==
  ASSUME Places, NEW p \in Peer, Library(p)
  PROVE  Places'
<1>1. CASE Slot(p)
  <2>1. MayWait(p, "room") /\ MayGo(p, "room")
    BY <1>1 DEF Slot, Calling, MayWait, MayGo
  <2>2. WaitOne(p, "room") \/ GoTo(p, "room")
    BY <1>1 DEF Slot
  <2>3. QED
    BY <2>1, <2>2, Waiting, GoingOn
<1>2. CASE Room(p)
  <2>1. MayWait(p, "room") /\ WaitOne(p, "room")
    BY <1>2 DEF Room, Calling, MayWait
  <2>2. QED
    BY <2>1, Waiting
<1>3. CASE Send(p)
  <2>1. p = "pc" \/ (p = "mcu" /\ p # "pc")
    BY DEF Peer
  <2>2. \E do : GoTo(p, do) /\ (do = "idle" \/ (do = "push" /\ p = "mcu"))
    BY <1>3, <2>1 DEF Send
  <2>3. \E do : GoTo(p, do) /\ MayGo(p, do)
    BY <2>2 DEF MayGo
  <2>4. QED
    BY <2>3, GoingOn
<1>4. CASE Flush(p)
  <2>1. MayGo(p, "handle") /\ GoTo(p, "handle")
    BY <1>4 DEF Flush, MayGo
  <2>2. QED
    BY <2>1, GoingOn
<1>5. CASE HandleOne(p)
  <2>1. at[p].do = "handle"
    BY <1>5 DEF HandleOne
  <2>2. \E have, room : Handle(p, have, room, at[p].back)
    BY <1>5 DEF HandleOne
  <2>3. QED
    BY <2>1, <2>2, HandlingPlaces
<1>6. QED
  BY <1>1, <1>2, <1>3, <1>4, <1>5 DEF Library

(* So does every step.                                                     *)
LEMMA PlacesStep ==
  ASSUME Places, Fifos, [Next]_vars
  PROVE  Places'
<1>1. CASE \E type \in Calls : Call(type)
  BY <1>1, CallPlaces
<1>2. CASE \E p \in Peer : Library(p)
  BY <1>2, LibraryPlaces
<1>3. CASE \E p \in Peer : Produce(p) \/ Consume(p)
  <2>1. UNCHANGED at
    BY <1>3 DEF Produce, Consume
  <2>2. QED
    BY <2>1 DEF Places
<1>4. CASE WaitAll \/ WaitMore
  <2>1. WaitOne("pc", "all") \/ GoTo("pc", "idle")
    BY <1>4 DEF WaitAll, WaitMore
  <2>2. MayWait("pc", "all") /\ MayGo("pc", "idle")
    BY DEF MayWait, MayGo
  <2>3. QED
    BY <2>1, <2>2, Waiting, GoingOn, Ends
<1>5. CASE FlushTry
  <2>1. GoTo("pc", "try") /\ MayGo("pc", "try")
    BY <1>5 DEF FlushTry, MayGo
  <2>2. QED
    BY <2>1, GoingOn, Ends
<1>6. CASE TryAll
  <2>1. (\E have, room : Handle("pc", have, room, at["pc"].do)) \/ GoTo("pc", "idle")
    BY <1>6 DEF TryAll, Try
  <2>2. MayGo("pc", "idle")
    BY DEF MayGo
  <2>3. QED
    BY <2>1, <2>2, HandlingPlaces, GoingOn, Ends
<1>7. CASE BoardTry
  <2>1. \E have, room : Handle("mcu", have, room, at["mcu"].do)
    BY <1>7 DEF BoardTry, Try
  <2>2. QED
    BY <2>1, HandlingPlaces, Ends
<1>8. CASE BoardPush
  <2>1. Begin("mcu", "write_fifo", PushBytes, "slot")
    BY <1>8 DEF BoardPush
  <2>2. "write_fifo" \in MayAsk("mcu") /\ "write_fifo" \in Types
    BY DEF MayAsk, Types
  <2>3. QED
    BY <2>1, <2>2, Beginning, Lengths, Ends
<1>9. CASE BoardPushed
  <2>1. GoTo("mcu", "idle") /\ MayGo("mcu", "idle")
    BY <1>9 DEF BoardPushed, MayGo
  <2>2. QED
    BY <2>1, GoingOn, Ends
<1>10. CASE UsbReceive \/ UsbTransmit \/ UNCHANGED vars
  <2>1. UNCHANGED at
    BY <1>10 DEF UsbReceive, UsbTransmit, vars
  <2>2. QED
    BY <2>1 DEF Places
<1>11. QED
  BY <1>1, <1>2, <1>3, <1>4, <1>5, <1>6, <1>7, <1>8, <1>9, <1>10
  DEF Next, Host, Board

-----------------------------------------------------------------------------
(* What a step does to the memory of the two ends and to the messages      *)
(* between them.                                                           *)

Still == UNCHANGED <<ring, out, value, fifo, history>>

(* q has handled the first message that the other end sent it.             *)
Handled(q) ==
  LET p == Other(q)
      m == Head(out[p])
  IN  /\ out[p] # <<>>
      /\ AssertionOn(q, m) = "none"
      /\ Apply(q, m)
      /\ out' = IF m.ret THEN [out EXCEPT ![p] = Tail(@)]
                ELSE [out EXCEPT ![p] = Tail(@), ![q] = Append(@, AnswerTo(q, m))]
      /\ UNCHANGED <<made, taken>>

(* Handling a message that fails an assertion changes nothing.             *)
LEMMA HandlingSteps ==
  ASSUME NEW q, NEW have, NEW room, NEW next, Handle(q, have, room, next)
  PROVE  Still \/ Handled(q)
<1>1. CASE fault' = "none"
  <2>1. AssertionOn(q, Head(out[Other(q)])) = "none"
    BY <1>1 DEF Handle
  <2>2. QED
    BY <1>1, <2>1 DEF Handle, Handled
<1>2. CASE fault' # "none"
  BY <1>2 DEF Handle, Still, history
<1>3. QED
  BY <1>1, <1>2

(* All steps, by what they do to that part of the state.                   *)
LEMMA DataSteps ==
  ASSUME [Next]_vars
  PROVE  \/ Still
         \/ \E type \in Calls : Call(type)
         \/ \E p \in Peer : Send(p)
         \/ \E q \in Peer : Handled(q)
         \/ \E p \in Peer : Produce(p)
         \/ \E p \in Peer : Consume(p)
<1>1. ASSUME NEW p \in Peer, Library(p)
      PROVE  Still \/ Send(p) \/ Handled(p)
  <2>1. CASE Slot(p) \/ Room(p) \/ Flush(p)
    BY <2>1 DEF Slot, Room, Flush, Still
  <2>2. CASE HandleOne(p)
    <3>1. \E have, room, next : Handle(p, have, room, next)
      BY <2>2 DEF HandleOne
    <3>2. QED
      BY <3>1, HandlingSteps
  <2>3. QED
    BY <1>1, <2>1, <2>2 DEF Library
<1>2. CASE WaitAll \/ WaitMore \/ FlushTry \/ BoardPush \/ BoardPushed
  BY <1>2 DEF WaitAll, WaitMore, FlushTry, BoardPush, BoardPushed, Still
<1>3. CASE TryAll
  <2>1. Still \/ \E have, room, next : Handle("pc", have, room, next)
    BY <1>3 DEF TryAll, Try, Still
  <2>2. QED
    BY <2>1, HandlingSteps, Ends
<1>4. CASE BoardTry
  <2>1. \E have, room, next : Handle("mcu", have, room, next)
    BY <1>4 DEF BoardTry, Try
  <2>2. QED
    BY <2>1, HandlingSteps, Ends
<1>5. CASE UsbReceive \/ UsbTransmit \/ UNCHANGED vars
  BY <1>5 DEF UsbReceive, UsbTransmit, vars, Still, history
<1>6. QED
  BY <1>1, <1>2, <1>3, <1>4, <1>5 DEF Next, Host, Board

-----------------------------------------------------------------------------
(* Memory and messages: what a message carries is what its type says.      *)

Carrying(m) == \/ m.type = "write_fifo" /\ ~m.ret
               \/ m.type = "read_fifo" /\ m.ret
Telling(m) == \/ m.type = "write" /\ ~m.ret
              \/ m.type = "read" /\ m.ret

(* The messages that p may send when top[f] bytes of stream f are produced. *)
Good(p, top) ==
  {m \in Message :
     /\ m.ret => m.type \in MayAsk(Other(p))
     /\ ~m.ret => m.type \in MayAsk(p)
     /\ m.type \in {"read", "write"} => m.len = 1
     /\ m.type = "clear_fifo" => m.len = 0
     /\ m.type = "write_fifo" => m.len <= MaxLen
     /\ Telling(m) => \E v \in Values : m.data = <<v>>
     /\ Carrying(m) => m.data \in Seq(1..top[FifoOf(p)]) /\ Len(m.data) = m.len
     /\ ~Telling(m) /\ ~Carrying(m) => m.data = <<>>}

Memory ==
  /\ value \in [Peer -> Values]
  /\ made \in [Stream -> Nat] /\ taken \in [Stream -> Nat] /\ cleared \in [Stream -> Nat]
  /\ \A f \in Stream : made[f] <= MaxMade[f]
  /\ Fifos
  /\ \A p \in Peer, f \in Stream : fifo[p][f] \in Seq(1..made[f])

Traffic ==
  /\ out \in [Peer -> Seq(Message)]
  /\ \A p \in Peer : out[p] \in Seq(Good(p, made))

(* More bytes produced, more messages possible.                            *)
LEMMA GoodGrows ==
  ASSUME NEW p \in Peer, NEW top \in [Stream -> Nat], NEW more \in [Stream -> Nat],
         \A f \in Stream : top[f] <= more[f], NEW ms \in Seq(Good(p, top))
  PROVE  ms \in Seq(Good(p, more))
<1>1. FifoOf(p) \in Stream
  BY DEF FifoOf, Stream
<1>2. 1..top[FifoOf(p)] \subseteq 1..more[FifoOf(p)]
  BY <1>1
<1>3. ASSUME NEW s \in Seq(1..top[FifoOf(p)]) PROVE s \in Seq(1..more[FifoOf(p)])
  BY <1>2, LargerSet, Zenon
<1>4. ASSUME NEW m \in Good(p, top) PROVE m \in Good(p, more)
  BY <1>3 DEF Good
<1>5. QED
  BY <1>4

(* What a list of such messages carries belongs to the stream of p.        *)
LEMMA CarriedType ==
  ASSUME NEW p \in Peer, NEW top \in [Stream -> Nat], NEW ms \in Seq(Good(p, top))
  PROVE  Carried(ms) \in Seq(1..top[FifoOf(p)])
<1> DEFINE part == [m \in Good(p, top) |-> Cargo(m)]
<1>1. ASSUME NEW m \in Good(p, top) PROVE Cargo(m) \in Seq(1..top[FifoOf(p)])
  <2>1. Carrying(m) => Cargo(m) = m.data /\ m.data \in Seq(1..top[FifoOf(p)])
    BY DEF Good, Cargo, Carrying
  <2>2. ~Carrying(m) => Cargo(m) = <<>>
    BY DEF Cargo, Carrying
  <2>3. QED
    BY <2>1, <2>2, LargerSet, Zenon
<1>2. part \in [Good(p, top) -> Seq(1..top[FifoOf(p)])]
  BY <1>1
<1>3. [i \in 1..Len(ms) |-> Cargo(ms[i])] = [i \in 1..Len(ms) |-> part[ms[i]]]
  OBVIOUS
<1>4. Carried(ms) = Parts(part, ms)
  BY <1>3 DEF Carried, Parts
<1> HIDE DEF part
<1>5. QED
  BY <1>2, <1>4, PartsType

(* The first n of a sequence, and the others.                              *)
LEMMA Halves ==
  ASSUME NEW S, NEW s \in Seq(S), NEW n \in Nat, n <= Len(s)
  PROVE  /\ SubSeq(s, 1, n) \in Seq(S) /\ Len(SubSeq(s, 1, n)) = n
         /\ SubSeq(s, n + 1, Len(s)) \in Seq(S)
         /\ Len(SubSeq(s, n + 1, Len(s))) = Len(s) - n
         /\ SubSeq(s, 1, n) \o SubSeq(s, n + 1, Len(s)) = s
<1>1. SubSeq(s, 1, n) \in Seq(S) /\ Len(SubSeq(s, 1, n)) = n
  OBVIOUS
<1>2. /\ SubSeq(s, n + 1, Len(s)) \in Seq(S)
      /\ Len(SubSeq(s, n + 1, Len(s))) = Len(s) - n
  BY SMTT(30)
<1>3. SubSeq(s, 1, n) \o SubSeq(s, n + 1, Len(s)) = s
  <2>1. SubSeq(s, 1, n) \o SubSeq(s, n + 1, Len(s)) = SubSeq(s, 1, Len(s))
    <3>1. PICK l \in Nat : l = Len(s)
      OBVIOUS
    <3>2. 1 \in 1..(Len(s) + 1) /\ n \in (1 - 1)..Len(s) /\ l \in n..Len(s)
      BY <3>1
    <3>3. SubSeq(s, 1, n) \o SubSeq(s, n + 1, l) = SubSeq(s, 1, l)
      BY <3>2, ConcatAdjacentSubSeq
    <3>4. QED
      BY <3>1, <3>3
  <2>2. SubSeq(s, 1, Len(s)) = s
    OBVIOUS
  <2>3. QED
    BY <2>1, <2>2
<1>4. QED
  BY <1>1, <1>2, <1>3

(* All but the first.                                                      *)
LEMMA Rest ==
  \A S : \A s \in Seq(S) :
    s # <<>> => /\ Tail(s) \in Seq(S) /\ Len(Tail(s)) = Len(s) - 1
                /\ Head(s) \in S /\ s = <<Head(s)>> \o Tail(s)
  OBVIOUS

(* A remainder.                                                            *)
LEMMA Remainder ==
  ASSUME NEW n \in Nat, NEW d \in Nat, d > 0, n >= d
  PROVE  n % d \in Nat /\ n % d < d /\ n % d <= n
<1>1. n % d \in 0..(d - 1)
  OBVIOUS
<1>2. QED
  BY <1>1

(* A fifo never holds more than it can, and all that it is given if that   *)
(* fits.                                                                   *)
LEMMA EnqueType ==
  ASSUME NEW S, NEW f \in Seq(S), NEW bytes \in Seq(S)
  PROVE  /\ Enque(f, bytes) \in Seq(S)
         /\ Len(Enque(f, bytes)) < FifoLength
         /\ Len(f) + Len(bytes) < FifoLength => Enque(f, bytes) = f \o bytes
<1>0. f \o bytes \in Seq(S)
  OBVIOUS
<1>1. PICK s \in Seq(S) : s = f \o bytes
  BY <1>0
<1>2. PICK n \in Nat : n = Len(f) + Len(bytes)
  OBVIOUS
<1>3. Len(s) = n
  BY <1>1, <1>2
<1>4. FifoLength \in Nat /\ FifoLength > 0
  BY Lengths
<1>5. CASE n < FifoLength
  <2>1. Enque(f, bytes) = s
    BY <1>1, <1>2, <1>5 DEF Enque
  <2>2. QED
    BY <1>1, <1>3, <1>5, <2>1
<1>6. CASE ~(n < FifoLength)
  <2>1. PICK r : r = n % FifoLength
    OBVIOUS
  <2>2. r \in Nat /\ r < FifoLength /\ r <= n
    BY <1>4, <1>6, <2>1, Remainder
  <2>3. Enque(f, bytes) = SubSeq(s, n - r + 1, n)
    BY <1>1, <1>2, <1>6, <2>1 DEF Enque
  <2>4. PICK k \in Nat : k = n - r
    BY <2>2
  <2>5. Enque(f, bytes) = SubSeq(s, k + 1, Len(s)) /\ k <= Len(s) /\ n - k = r
    BY <1>3, <2>2, <2>3, <2>4
  <2>6. Enque(f, bytes) \in Seq(S) /\ Len(Enque(f, bytes)) = r
    BY <1>3, <2>5, Halves
  <2>7. QED
    BY <1>2, <1>6, <2>2, <2>6
<1>7. QED
  BY <1>5, <1>6

(* What p sends is a message that it may send.                             *)
LEMMA OutgoingGood ==
  ASSUME Places, Memory, NEW p \in Peer, at[p].do = "room",
         at[p].type = "write_fifo" => at[p].len <= Len(fifo[p][FifoOf(p)])
  PROVE  Outgoing(p) \in Good(p, made)
<1> DEFINE m == Outgoing(p)
           has == fifo[p][FifoOf(p)]
           n == at[p].len
<1>1. /\ at[p] \in Place /\ at[p].type \in MayAsk(p)
      /\ at[p].type \in {"read", "write"} => n = 1
      /\ at[p].type = "clear_fifo" => n = 0
      /\ at[p].type = "write_fifo" => n <= MaxLen
  BY DEF Places, PlaceOf, Calling
<1>2. m.type = at[p].type /\ m.ret = FALSE /\ m.len = n
  BY DEF Outgoing, Request
<1>3. at[p].type \in Types /\ n \in 0..FifoLength /\ n \in Nat
  BY <1>1, Lengths DEF Place
<1>4. /\ FifoOf(p) \in Stream /\ has \in Seq(1..made[FifoOf(p)])
      /\ made[FifoOf(p)] \in Nat /\ value[p] \in Values
  BY DEF Memory, FifoOf, Stream
<1>5. CASE at[p].type = "write_fifo"
  <2>1. Smaller(n, Len(has)) = n
    BY <1>5 DEF Smaller
  <2>2. m.data = SubSeq(has, 1, n)
    BY <1>5, <2>1 DEF Outgoing, Request
  <2>3. m.data \in Seq(1..made[FifoOf(p)]) /\ Len(m.data) = n
    BY <1>3, <1>4, <1>5, <2>2, Halves, SMTT(30)
  <2>4. 1..made[FifoOf(p)] \subseteq Values \cup Nat
    BY <1>4
  <2>5. m.data \in Seq(Values \cup Nat)
    BY <2>3, <2>4, LargerSet, Zenon
  <2>6. m \in Message
    BY <1>2, <1>3, <2>5 DEF Message, Outgoing, Request
  <2>7. QED
    BY <1>1, <1>2, <1>5, <2>3, <2>6 DEF Good, Carrying, Telling
<1>6. CASE at[p].type = "write"
  <2>1. m.data = <<value[p]>>
    BY <1>6 DEF Outgoing, Request
  <2>2. m.data \in Seq(Values \cup Nat)
    BY <1>4, <2>1
  <2>3. m \in Message
    BY <1>2, <1>3, <2>2 DEF Message, Outgoing, Request
  <2>4. QED
    BY <1>1, <1>2, <1>4, <1>6, <2>1, <2>3 DEF Good, Carrying, Telling
<1>7. CASE at[p].type \notin {"write", "write_fifo"}
  <2>1. m.data = <<>>
    BY <1>7 DEF Outgoing, Request
  <2>2. m.data \in Seq(Values \cup Nat)
    BY <2>1
  <2>3. m \in Message
    BY <1>2, <1>3, <2>2 DEF Message, Outgoing, Request
  <2>4. QED
    BY <1>1, <1>2, <1>7, <2>1, <2>3 DEF Good, Carrying, Telling
<1>8. QED
  BY <1>5, <1>6, <1>7

(* What q answers to a message that p may send is one that q may send.     *)
LEMMA AnswerGood ==
  ASSUME Memory, NEW q \in Peer, NEW m \in Good(Other(q), made), ~m.ret
  PROVE  AnswerTo(q, m) \in Good(q, made)
<1> DEFINE a == AnswerTo(q, m)
           has == fifo[q]["up"]
<1>1. /\ m \in Message /\ m.type \in MayAsk(Other(q))
      /\ m.type \in {"read", "write"} => m.len = 1
      /\ m.type = "clear_fifo" => m.len = 0
      /\ m.type = "write_fifo" => m.len <= MaxLen
  BY DEF Good
<1>2. m.type \in Types /\ m.len \in 0..FifoLength /\ m.len \in Nat
  BY <1>1, Lengths DEF Message
<1>3. value[q] \in Values
  BY DEF Memory
<1>4. CASE m.type = "read"
  <2>1. a = [type |-> "read", ret |-> TRUE, len |-> 1, data |-> <<value[q]>>]
    BY <1>4 DEF AnswerTo, Answer
  <2>2. <<value[q]>> \in Seq(Values \cup Nat)
    BY <1>3
  <2>3. a \in Message
    BY <1>2, <1>4, <2>1, <2>2, Lengths DEF Message
  <2>4. QED
    BY <1>1, <1>3, <1>4, <2>1, <2>3 DEF Good, Carrying, Telling
<1>5. CASE m.type = "read_fifo"
  <2>1. q = "mcu"
    BY <1>1, <1>5, Ends DEF MayAsk, Peer
  <2>2. /\ FifoOf(q) = "up" /\ has \in Seq(1..made[FifoOf(q)])
        /\ made[FifoOf(q)] \in Nat
    BY <2>1, Ends DEF Memory
  <2>3. PICK n \in Nat : n = Smaller(m.len, Len(has)) /\ n <= Len(has) /\ n <= m.len
    BY <1>2, <2>2 DEF Smaller
  <2>4. PICK d : d = SubSeq(has, 1, n)
    OBVIOUS
  <2>5. d \in Seq(1..made[FifoOf(q)]) /\ Len(d) = n
    BY <2>2, <2>3, <2>4, Halves, ZenonT(40)
  <2>6. a = [type |-> "read_fifo", ret |-> TRUE, len |-> n, data |-> d]
    BY <1>5, <2>3, <2>4, <2>5 DEF AnswerTo, Answer
  <2>7. 1..made[FifoOf(q)] \subseteq Values \cup Nat
    BY <2>2
  <2>8. d \in Seq(Values \cup Nat)
    BY <2>5, <2>7, LargerSet, Zenon
  <2>9. n \in 0..FifoLength
    BY <1>2, <2>3, Lengths
  <2>10. a \in Message
    BY <1>2, <1>5, <2>6, <2>8, <2>9 DEF Message
  <2>11. QED
    BY <1>1, <1>5, <2>5, <2>6, <2>10 DEF Good, Carrying, Telling
<1>6. CASE m.type \in {"write", "write_fifo", "clear_fifo"}
  <2>1. a = [type |-> m.type, ret |-> TRUE, len |-> m.len, data |-> <<>>]
    BY <1>1, <1>6 DEF AnswerTo, Acknowledge
  <2>2. <<>> \in Seq(Values \cup Nat)
    OBVIOUS
  <2>3. a \in Message
    BY <1>2, <2>1, <2>2 DEF Message
  <2>4. QED
    BY <1>1, <1>6, <2>1, <2>3 DEF Good, Carrying, Telling
<1>7. QED
  BY <1>2, <1>4, <1>5, <1>6 DEF Types

(* The two fifos of an end.                                                *)
Pairs == {h \in [Stream -> Seq(Nat)] :
            \A f \in Stream : h[f] \in Seq(1..made[f]) /\ Len(h[f]) < FifoLength}

ByEnds ==
  /\ value \in [Peer -> Values]
  /\ made \in [Stream -> Nat] /\ taken \in [Stream -> Nat] /\ cleared \in [Stream -> Nat]
  /\ \A f \in Stream : made[f] <= MaxMade[f]
  /\ fifo \in [Peer -> Pairs]

(* Memory, end by end.                                                     *)
LEMMA MemoryByEnds == Memory <=> ByEnds
<1>1. ASSUME Memory PROVE fifo \in [Peer -> Pairs]
  BY <1>1 DEF Memory, Fifos, Pairs
<1>2. ASSUME fifo \in [Peer -> Pairs]
      PROVE  Fifos /\ \A p \in Peer, f \in Stream : fifo[p][f] \in Seq(1..made[f])
  <2>1. fifo \in [Peer -> [Stream -> Seq(Nat)]]
    BY <1>2 DEF Pairs
  <2>2. QED
    BY <1>2, <2>1 DEF Fifos, Pairs
<1>3. QED
  BY <1>1, <1>2 DEF Memory, ByEnds

(* The same after a step.                                                  *)
LEMMA MemoryByEndsNext == Memory' <=> ByEnds'
  BY MemoryByEnds, PTL

(* What is handed over keeps to its stream: q takes a message in.          *)
LEMMA NewFifoType ==
  ASSUME Memory, NEW q \in Peer, NEW m \in Good(Other(q), made)
  PROVE  NewFifo(q, m) \in Pairs
<1> DEFINE f == FifoOf(Other(q))
           has == fifo[q]
<1>1. has \in Pairs /\ f \in Stream
  BY MemoryByEnds DEF ByEnds, FifoOf, Stream
<1>2. /\ m.ret => m.type \in MayAsk(Other(Other(q)))
      /\ m.ret \in BOOLEAN /\ m.len \in Nat
      /\ Carrying(m) => m.data \in Seq(1..made[f])
  BY Lengths DEF Good, Message
<1>3. \A s : s \in Seq(1..made[f]) /\ Len(s) < FifoLength => [has EXCEPT ![f] = s] \in Pairs
  <2> SUFFICES ASSUME NEW s \in Seq(1..made[f]), Len(s) < FifoLength
               PROVE  [has EXCEPT ![f] = s] \in Pairs
    OBVIOUS
  <2>1. s \in Seq(Nat)
    <3>1. 1..made[f] \subseteq Nat
      BY <1>1 DEF Memory
    <3>2. QED
      BY <3>1, LargerSet, Zenon
  <2>2. QED
    BY <1>1, <2>1 DEF Pairs
<1>4. has[f] \in Seq(1..made[f]) /\ Len(has[f]) < FifoLength
  BY <1>1 DEF Pairs
<1>5. CASE m.type = "write_fifo" /\ ~m.ret
  <2>1. NewFifo(q, m) = [has EXCEPT ![f] = Enque(has[f], m.data)]
    BY <1>1, <1>5 DEF NewFifo, Pairs
  <2>2. m.data \in Seq(1..made[f])
    BY <1>2, <1>5 DEF Carrying
  <2>3. Enque(has[f], m.data) \in Seq(1..made[f]) /\ Len(Enque(has[f], m.data)) < FifoLength
    BY <1>4, <2>2, EnqueType
  <2>4. QED
    BY <1>3, <2>1, <2>3
<1>6. CASE m.type = "read_fifo" /\ ~m.ret
  <2>1. has["up"] \in Seq(1..made["up"]) /\ Len(has["up"]) < FifoLength /\ Len(has["up"]) \in Nat
    BY <1>1, Ends DEF Pairs
  <2>2. PICK n \in Nat : n = Smaller(m.len, Len(has["up"])) /\ n <= Len(has["up"])
    BY <1>2, <2>1 DEF Smaller
  <2>3. PICK s : s = SubSeq(has["up"], n + 1, Len(has["up"]))
    OBVIOUS
  <2>4. s \in Seq(1..made["up"]) /\ Len(s) = Len(has["up"]) - n
    BY <2>1, <2>2, <2>3, Halves
  <2>5. Len(s) < FifoLength
    BY <2>1, <2>2, <2>4, Lengths
  <2>6. s \in Seq(Nat)
    <3>1. 1..made["up"] \subseteq Nat
      BY Ends DEF Memory
    <3>2. QED
      BY <2>4, <3>1, LargerSet, Zenon
  <2>7. NewFifo(q, m) = [has EXCEPT !["up"] = s]
    BY <1>1, <1>6, <2>2, <2>3, Ends DEF NewFifo, Pairs
  <2>8. QED
    BY <1>1, <2>4, <2>5, <2>6, <2>7 DEF Pairs
<1>7. CASE m.type = "clear_fifo" /\ ~m.ret
  <2>1. NewFifo(q, m) = [has EXCEPT ![f] = <<>>]
    BY <1>7 DEF NewFifo
  <2>2. <<>> \in Seq(1..made[f]) /\ Len(<<>>) < FifoLength
    BY Lengths
  <2>3. QED
    BY <1>3, <2>1, <2>2
<1>8. CASE m.type = "read_fifo" /\ m.ret /\ q \in Keeps
  <2>1. q = "pc"
    BY <1>2, <1>8, Ends DEF MayAsk, Peer
  <2>2. f = "up"
    BY <2>1, Ends
  <2>3. NewFifo(q, m) = [has EXCEPT ![f] = Enque(has[f], m.data)]
    BY <1>1, <1>8, <2>2 DEF NewFifo, Pairs
  <2>4. m.data \in Seq(1..made[f])
    BY <1>2, <1>8 DEF Carrying
  <2>5. Enque(has[f], m.data) \in Seq(1..made[f]) /\ Len(Enque(has[f], m.data)) < FifoLength
    BY <1>4, <2>4, EnqueType
  <2>6. QED
    BY <1>3, <2>3, <2>5
<1>9. CASE /\ ~(m.type = "write_fifo" /\ ~m.ret) /\ ~(m.type = "read_fifo" /\ ~m.ret)
           /\ ~(m.type = "clear_fifo" /\ ~m.ret)
           /\ ~(m.type = "read_fifo" /\ m.ret /\ q \in Keeps)
  <2>1. NewFifo(q, m) = has
    BY <1>9 DEF NewFifo
  <2>2. QED
    BY <1>1, <2>1
<1>10. QED
  BY <1>5, <1>6, <1>7, <1>8, <1>9

(* The value of the variable comes from a message that has one.            *)
LEMMA NewValueType ==
  ASSUME Memory, NEW q \in Peer, NEW p \in Peer, NEW m \in Good(p, made)
  PROVE  NewValue(q, m) \in Values
<1>1. value[q] \in Values
  BY DEF Memory
<1>2. Telling(m) => m.data[1] \in Values
  <2>1. Telling(m) => \E v \in Values : m.data = <<v>>
    BY DEF Good
  <2>2. QED
    BY <2>1
<1>3. QED
  BY <1>1, <1>2 DEF NewValue, Telling

(* The step in which q handles a message.                                  *)
LEMMA HandledMemory ==
  ASSUME Memory, Traffic, NEW q \in Peer, Handled(q)
  PROVE  Memory' /\ Traffic'
<1> DEFINE p == Other(q)
           m == Head(out[p])
<1>1. p \in Peer /\ p # q
  BY DEF Other, Peer
<1>2. /\ out[p] # <<>> /\ Apply(q, m) /\ UNCHANGED <<made, taken>>
      /\ out' = IF m.ret THEN [out EXCEPT ![p] = Tail(@)]
                ELSE [out EXCEPT ![p] = Tail(@), ![q] = Append(@, AnswerTo(q, m))]
  BY DEF Handled
<1>3. /\ out[p] \in Seq(Good(p, made)) /\ out[q] \in Seq(Good(q, made))
      /\ out \in [Peer -> Seq(Message)]
  BY <1>1 DEF Traffic
<1>4. m \in Good(p, made) /\ Tail(out[p]) \in Seq(Good(p, made))
  BY <1>2, <1>3
<1> HIDE DEF m
<1>5. NewFifo(q, m) \in Pairs
  BY <1>4, NewFifoType
<1>6. NewValue(q, m) \in Values
  BY <1>1, <1>4, NewValueType
<1>7. cleared' \in [Stream -> Nat]
  <2>1. cleared \in [Stream -> Nat] /\ Len(fifo[q]["down"]) \in Nat
    BY Ends DEF Memory, Fifos
  <2>2. \/ cleared' = cleared
        \/ cleared' = [cleared EXCEPT !["down"] = @ + Len(fifo[q]["down"])]
    BY <1>2 DEF Apply
  <2>3. cleared["down"] + Len(fifo[q]["down"]) \in Nat
    BY <2>1, Ends, SMTT(30)
  <2>4. QED
    BY <2>1, <2>2, <2>3
<1>8. fifo' \in [Peer -> Pairs] /\ value' \in [Peer -> Values]
  BY <1>2, <1>5, <1>6, MemoryByEnds DEF ByEnds, Apply
<1>9. Memory'
  <2>1. Pairs' = Pairs
    BY <1>2 DEF Pairs
  <2>2. /\ made' \in [Stream -> Nat] /\ taken' \in [Stream -> Nat]
        /\ \A f \in Stream : made'[f] <= MaxMade[f]
    BY <1>2 DEF Memory
  <2>3. ByEnds'
    BY <1>7, <1>8, <2>1, <2>2 DEF ByEnds
  <2>4. QED
    BY <2>3, MemoryByEndsNext
<1>10. ASSUME NEW e \in Peer
       PROVE  out'[e] \in Seq(Good(e, made))
  <2>1. CASE m.ret
    BY <1>1, <1>2, <1>3, <1>4, <2>1 DEF Peer
  <2>2. CASE ~m.ret
    <3>1. AnswerTo(q, m) \in Good(q, made)
      BY <1>4, <2>2, AnswerGood
    <3>2. Append(out[q], AnswerTo(q, m)) \in Seq(Good(q, made))
      BY <1>3, <3>1
    <3>3. e = p \/ e = q
      BY <1>1 DEF Peer
    <3>4. QED
      BY <1>1, <1>2, <1>3, <1>4, <2>2, <3>2, <3>3
  <2>3. QED
    BY <2>1, <2>2
<1>11. out' \in [Peer -> Seq(Message)]
  <2>1. \A e \in Peer : Good(e, made) \subseteq Message
    BY DEF Good
  <2>2. \A e \in Peer : out'[e] \in Seq(Message)
    BY <1>10, <2>1, LargerSet, Zenon
  <2>3. DOMAIN out' = Peer /\ out' = [e \in Peer |-> out'[e]]
    BY <1>2, <1>3
  <2>4. QED
    BY <2>2, <2>3
<1>12. QED
  BY <1>2, <1>9, <1>10, <1>11 DEF Traffic

(* p has what it announces, unless the assertion in fifo_deque fails.      *)
LEMMA SendsEnough ==
  ASSUME Places, Memory, NEW p \in Peer, Send(p), fault' = "none"
  PROVE  at[p].type = "write_fifo" => at[p].len <= Len(fifo[p][FifoOf(p)])
<1> SUFFICES ASSUME at[p].type = "write_fifo"
             PROVE  at[p].len <= Len(fifo[p][FifoOf(p)])
  OBVIOUS
<1> DEFINE has == fifo[p][FifoOf(p)]
           n == at[p].len
           k == Smaller(n, Len(has))
<1>1. n \in Nat /\ has \in Seq(Nat) /\ Len(has) \in Nat
  <2>1. at[p] \in Place /\ FifoOf(p) \in Stream
    BY DEF Places, PlaceOf, FifoOf, Stream
  <2>2. QED
    BY <2>1, Lengths DEF Place, Memory, Fifos
<1>2. k \in Nat /\ k <= Len(has) /\ k <= n /\ (k < n \/ n <= Len(has))
  BY <1>1 DEF Smaller
<1>3. Outgoing(p).data = SubSeq(has, 1, k) /\ Outgoing(p).len = n /\ Outgoing(p).type = "write_fifo"
  BY DEF Outgoing, Request
<1>4. Len(SubSeq(has, 1, k)) = k
  BY <1>1, <1>2, Halves
<1>5. fault' = CASE RoomOf(p) < NeedBytes(p) -> "cannot_push_head_inside_fifo"
                 [] Outgoing(p).type = "write_fifo" /\ Len(Outgoing(p).data) < Outgoing(p).len
                      -> "fifo_is_empty"
                 [] OTHER -> fault
  BY DEF Send
<1>6. ~(k < n)
  BY <1>3, <1>4, <1>5
<1>7. QED
  BY <1>2, <1>6

(* The step in which p sends a request.                                    *)
LEMMA SendMemory ==
  ASSUME Places, Memory, Traffic, NEW p \in Peer, Send(p),
         at[p].type = "write_fifo" => at[p].len <= Len(fifo[p][FifoOf(p)])
  PROVE  Memory' /\ Traffic'
<1> DEFINE m == Outgoing(p)
           f == FifoOf(p)
           has == fifo[p][f]
<1>1. /\ at[p].do = "room" /\ UNCHANGED <<value, made, taken, cleared>>
      /\ out' = [out EXCEPT ![p] = Append(@, m)]
      /\ fifo' = IF m.type # "write_fifo" THEN fifo
                 ELSE [fifo EXCEPT ![p][f] = SubSeq(@, m.len + 1, Len(@))]
  BY DEF Send, history
<1>2. m \in Good(p, made)
  BY <1>1, OutgoingGood
<1>3. /\ out[p] \in Seq(Good(p, made)) /\ out \in [Peer -> Seq(Message)]
      /\ \A e \in Peer : out[e] \in Seq(Good(e, made))
  BY DEF Traffic
<1>4. m.type = at[p].type /\ m.len = at[p].len /\ m.len \in Nat
  <2>1. m.len \in 0..FifoLength
    BY <1>2 DEF Good, Message
  <2>2. QED
    BY <2>1, Lengths DEF Outgoing, Request
<1> HIDE DEF m
<1>5. fifo' \in [Peer -> Pairs]
  <2>1. fifo \in [Peer -> Pairs] /\ f \in Stream /\ made[f] \in Nat
    BY MemoryByEnds DEF ByEnds, FifoOf, Stream
  <2>2. CASE m.type # "write_fifo"
    BY <1>1, <2>1, <2>2
  <2>3. CASE m.type = "write_fifo"
    <3>1. PICK s : s = SubSeq(has, m.len + 1, Len(has))
      OBVIOUS
    <3>2. has \in Seq(1..made[f]) /\ Len(has) < FifoLength /\ Len(has) \in Nat
      BY <2>1 DEF Pairs
    <3>3. s \in Seq(1..made[f]) /\ Len(s) = Len(has) - m.len
      BY <1>4, <2>3, <3>1, <3>2, Halves, ZenonT(40)
    <3>4. Len(s) < FifoLength
      BY <1>4, <3>2, <3>3, Lengths
    <3>5. s \in Seq(Nat)
      <4>1. 1..made[f] \subseteq Nat
        BY <2>1
      <4>2. QED
        BY <3>3, <4>1, LargerSet, Zenon
    <3>6. [fifo[p] EXCEPT ![f] = s] \in Pairs
      BY <2>1, <3>3, <3>4, <3>5 DEF Pairs
    <3>7. fifo' = [fifo EXCEPT ![p] = [fifo[p] EXCEPT ![f] = s]]
      <4>1. fifo' = [fifo EXCEPT ![p][f] = SubSeq(@, m.len + 1, Len(@))]
        BY <1>1, <2>3
      <4>2. QED
        BY <2>1, <3>1, <4>1 DEF Pairs
    <3>8. QED
      BY <2>1, <3>6, <3>7
  <2>4. QED
    BY <2>2, <2>3
<1>6. Memory'
  <2>1. Pairs' = Pairs
    BY <1>1 DEF Pairs
  <2>2. ByEnds'
    BY <1>1, <1>5, <2>1, MemoryByEnds DEF ByEnds
  <2>3. QED
    BY <2>2, MemoryByEndsNext
<1>7. Traffic'
  <2>1. m \in Message
    BY <1>2 DEF Good
  <2>2. Append(out[p], m) \in Seq(Good(p, made)) /\ Append(out[p], m) \in Seq(Message)
    BY <1>2, <1>3, <2>1
  <2>3. out' \in [Peer -> Seq(Message)] /\ \A e \in Peer : out'[e] \in Seq(Good(e, made))
    BY <1>1, <1>3, <2>2
  <2>4. QED
    BY <1>1, <2>3 DEF Traffic
<1>8. QED
  BY <1>6, <1>7

(* A byte goes into a stream.                                              *)
LEMMA ProduceMemory ==
  ASSUME Memory, Traffic, NEW p \in Peer, Produce(p)
  PROVE  Memory' /\ Traffic'
<1> DEFINE f == FifoOf(p)
           has == fifo[p][f]
           more == [made EXCEPT ![f] = made[f] + 1]
<1>1. /\ made[f] < MaxMade[f] /\ Len(has) < FifoLength - 1
      /\ made' = [made EXCEPT ![f] = @ + 1]
      /\ fifo' = [fifo EXCEPT ![p][f] = Append(@, made[f] + 1)]
      /\ UNCHANGED <<out, value, taken, cleared>>
  BY DEF Produce
<1>2. f \in Stream /\ made \in [Stream -> Nat] /\ made[f] \in Nat
  BY DEF FifoOf, Stream, Memory
<1>3. made' = more /\ more \in [Stream -> Nat] /\ \A g \in Stream : made[g] <= more[g]
  BY <1>1, <1>2
<1>4. \A g \in Stream : more[g] <= MaxMade[g]
  <2>1. MaxMade[f] \in Nat /\ \A g \in Stream : made[g] <= MaxMade[g]
    BY <1>2, BoundsAssumption DEF Memory, Stream
  <2>2. QED
    BY <1>1, <1>2, <2>1
<1>5. Traffic'
  <2>1. out \in [Peer -> Seq(Message)] /\ \A e \in Peer : out[e] \in Seq(Good(e, made))
    BY DEF Traffic
  <2> HIDE DEF more
  <2>2. \A e \in Peer : out[e] \in Seq(Good(e, more))
    BY <1>2, <1>3, <2>1, GoodGrows
  <2>3. QED
    BY <1>1, <1>3, <2>1, <2>2 DEF Traffic
<1>6. Memory'
  <2>1. fifo \in [Peer -> [Stream -> Seq(Nat)]]
    BY DEF Memory, Fifos
  <2>2. \A e \in Peer, g \in Stream :
          fifo[e][g] \in Seq(1..made[g]) /\ Len(fifo[e][g]) < FifoLength
    BY DEF Memory, Fifos
  <2>3. \A e \in Peer, g \in Stream : fifo[e][g] \in Seq(1..more[g])
    <3>1. \A g \in Stream : 1..made[g] \subseteq 1..more[g]
      BY <1>2, <1>3
    <3>2. QED
      BY <2>2, <3>1, LargerSet, Zenon
  <2>4. PICK s : s = Append(has, made[f] + 1)
    OBVIOUS
  <2>5. made[f] + 1 \in 1..more[f]
    BY <1>2
  <2>6. has \in Seq(1..more[f]) /\ has \in Seq(Nat) /\ Len(has) \in Nat
    BY <1>2, <2>1, <2>3
  <2>7. s \in Seq(1..more[f]) /\ s \in Seq(Nat) /\ Len(s) = Len(has) + 1
    <3> HIDE DEF more, has
    <3>1. QED
      BY <1>2, <2>4, <2>5, <2>6
  <2>8. Len(s) < FifoLength
    BY <1>1, <2>6, <2>7, Lengths
  <2>9. fifo' = [fifo EXCEPT ![p] = [fifo[p] EXCEPT ![f] = s]]
    BY <1>1, <1>2, <2>1, <2>4
  <2> HIDE DEF more
  <2>10. fifo' \in [Peer -> [Stream -> Seq(Nat)]]
    BY <1>2, <2>1, <2>7, <2>9
  <2>11. \A e \in Peer, g \in Stream :
           fifo'[e][g] \in Seq(1..more[g]) /\ Len(fifo'[e][g]) < FifoLength
    BY <1>2, <2>1, <2>2, <2>3, <2>7, <2>8, <2>9
  <2>12. QED
    BY <1>1, <1>3, <1>4, <2>10, <2>11 DEF Memory, Fifos
<1>7. QED
  BY <1>5, <1>6

(* A byte comes out.                                                       *)
LEMMA ConsumeMemory ==
  ASSUME Memory, Traffic, NEW p \in Peer, Consume(p)
  PROVE  Memory' /\ Traffic'
<1> DEFINE f == FifoOf(Other(p))
           has == fifo[p][f]
<1>1. /\ has # <<>>
      /\ taken' = [taken EXCEPT ![f] = @ + 1]
      /\ fifo' = [fifo EXCEPT ![p][f] = Tail(@)]
      /\ UNCHANGED <<out, value, made, cleared>>
  BY DEF Consume
<1>2. f \in Stream /\ taken \in [Stream -> Nat]
  BY DEF FifoOf, Stream, Memory
<1>3. taken' \in [Stream -> Nat]
  BY <1>1, <1>2
<1>4. fifo \in [Peer -> Pairs]
  BY MemoryByEnds DEF ByEnds
<1>5. PICK s : s = Tail(has)
  OBVIOUS
<1>6. /\ has \in Seq(1..made[f]) /\ has \in Seq(Nat) /\ Len(has) < FifoLength
  BY <1>2, <1>4 DEF Pairs
<1>7. s \in Seq(1..made[f]) /\ s \in Seq(Nat) /\ Len(s) < FifoLength
  <2>1. s \in Seq(1..made[f]) /\ s \in Seq(Nat) /\ Len(s) = Len(has) - 1
    BY <1>1, <1>5, <1>6, Rest, Zenon
  <2>2. Len(has) \in Nat
    BY <1>6
  <2>3. QED
    BY <1>6, <2>1, <2>2, Lengths
<1>8. [fifo[p] EXCEPT ![f] = s] \in Pairs
  BY <1>2, <1>4, <1>7 DEF Pairs
<1>9. fifo' = [fifo EXCEPT ![p] = [fifo[p] EXCEPT ![f] = s]]
  BY <1>1, <1>2, <1>4, <1>5 DEF Pairs
<1>10. fifo' \in [Peer -> Pairs]
  BY <1>4, <1>8, <1>9
<1>11. Pairs' = Pairs
  BY <1>1 DEF Pairs
<1>12. ByEnds'
  BY <1>1, <1>3, <1>10, <1>11, MemoryByEnds DEF ByEnds
<1>13. Memory'
  BY <1>12, MemoryByEndsNext
<1>14. Traffic'
  BY <1>1 DEF Traffic
<1>15. QED
  BY <1>13, <1>14

(* The program on the PC asks for something; a write sets its copy.        *)
LEMMA CallMemory ==
  ASSUME Memory, Traffic, NEW type \in Calls, Call(type)
  PROVE  Memory' /\ Traffic'
<1>1. /\ UNCHANGED <<out, fifo, made, taken, cleared>>
      /\ UNCHANGED value \/ \E v \in Values : value' = [value EXCEPT !["pc"] = v]
  BY DEF Call, history
<1>2. value' \in [Peer -> Values]
  BY <1>1 DEF Memory
<1>3. Pairs' = Pairs
  BY <1>1 DEF Pairs
<1>4. ByEnds'
  BY <1>1, <1>2, <1>3, MemoryByEnds DEF ByEnds
<1>5. QED
  BY <1>1, <1>4, MemoryByEndsNext DEF Traffic

(* Only a running program takes a step.                                    *)
LEMMA StepsRun ==
  ASSUME [Next]_vars
  PROVE  Running \/ UNCHANGED vars
<1>1. ASSUME NEW p \in Peer, Library(p) \/ Produce(p) \/ Consume(p)
      PROVE  Running
  BY <1>1 DEF Library, Slot, Room, Send, Flush, HandleOne, Produce, Consume
<1>2. ASSUME \/ \E type \in Calls : Call(type)
             \/ WaitAll \/ FlushTry \/ Host \/ Board \/ UsbReceive \/ UsbTransmit
      PROVE  Running
  BY <1>2 DEF Call, WaitAll, FlushTry, Host, WaitMore, TryAll, Board, BoardTry, BoardPush,
              BoardPushed, UsbReceive, UsbTransmit
<1>3. QED
  BY <1>1, <1>2 DEF Next

(* Memory and messages are as they should be after a step that does not    *)
(* end in a failed assertion.                                              *)
LEMMA MemoryStep ==
  ASSUME Places, Memory, Traffic, [Next]_vars, fault' = "none"
  PROVE  Memory' /\ Traffic'
<1>1. CASE Still
  <2>1. UNCHANGED <<out, value, fifo, made, taken, cleared>>
    BY <1>1 DEF Still, history
  <2>2. Pairs' = Pairs
    BY <2>1 DEF Pairs
  <2>3. ByEnds'
    BY <2>1, <2>2, MemoryByEnds DEF ByEnds
  <2>4. QED
    BY <2>1, <2>3, MemoryByEndsNext DEF Traffic
<1>2. CASE \E type \in Calls : Call(type)
  BY <1>2, CallMemory
<1>3. CASE \E p \in Peer : Send(p)
  <2>1. PICK p \in Peer : Send(p)
    BY <1>3
  <2>2. at[p].type = "write_fifo" => at[p].len <= Len(fifo[p][FifoOf(p)])
    BY <2>1, SendsEnough
  <2>3. QED
    BY <2>1, <2>2, SendMemory
<1>4. CASE \E q \in Peer : Handled(q)
  BY <1>4, HandledMemory
<1>5. CASE \E p \in Peer : Produce(p)
  BY <1>5, ProduceMemory
<1>6. CASE \E p \in Peer : Consume(p)
  BY <1>6, ConsumeMemory
<1>7. QED
  BY <1>1, <1>2, <1>3, <1>4, <1>5, <1>6, DataSteps

(* Both hold at first.                                                     *)
LEMMA MemoryInit ==
  ASSUME Init
  PROVE  Places /\ Memory /\ Traffic
<1>1. Places
  <2>1. at = [p \in Peer |-> [do |-> "idle", type |-> "read", len |-> 1, back |-> "idle"]]
    BY DEF Init
  <2>2. [do |-> "idle", type |-> "read", len |-> 1, back |-> "idle"] \in Place
    BY Lengths DEF Place, Types
  <2>3. ASSUME NEW p \in Peer PROVE at[p] \in PlaceOf(p)
    BY <2>1, <2>2 DEF PlaceOf, Calling
  <2>4. QED
    BY <2>1, <2>3 DEF Places
<1>2. Memory
  <2>1. /\ value \in [Peer -> Values]
        /\ fifo = [p \in Peer |-> [f \in Stream |-> <<>>]]
        /\ made = [f \in Stream |-> 0] /\ taken = [f \in Stream |-> 0]
        /\ cleared = [f \in Stream |-> 0]
    BY DEF Init
  <2>2. \A f \in Stream : MaxMade[f] \in Nat
    BY BoundsAssumption DEF Stream
  <2>3. \A A : <<>> \in Seq(A)
    BY LargerSet
  <2>4. Len(<<>>) = 0 /\ 0 < FifoLength
    BY Lengths
  <2>5. /\ made \in [Stream -> Nat] /\ taken \in [Stream -> Nat] /\ cleared \in [Stream -> Nat]
        /\ \A f \in Stream : made[f] <= MaxMade[f]
    BY <2>1, <2>2
  <2>6. fifo \in [Peer -> [Stream -> Seq(Nat)]]
    BY <2>1, <2>3
  <2>7. \A p \in Peer, f \in Stream : fifo[p][f] = <<>>
    BY <2>1
  <2>8. QED
    BY <2>1, <2>3, <2>4, <2>5, <2>6, <2>7 DEF Memory, Fifos
<1>3. Traffic
  <2>1. out = [p \in Peer |-> <<>>]
    BY DEF Init
  <2>2. \A A : <<>> \in Seq(A)
    BY LargerSet
  <2>3. QED
    BY <2>1, <2>2 DEF Traffic
<1>4. QED
  BY <1>1, <1>2, <1>3

-----------------------------------------------------------------------------
(* The ring of heads.                                                      *)

Rings == /\ ring \in [Peer -> Seq(Heads)]
         /\ \A p \in Peer : Len(ring[p]) < RingLength

(* A head more, as long as there is one.                                   *)
LEMMA PutHeadType ==
  ASSUME NEW r \in Seq(Heads), Len(r) < RingLength, NEW h \in Heads
  PROVE  PutHead(r, h) \in Seq(Heads) /\ Len(PutHead(r, h)) < RingLength
<1>1. RingLength \in Nat /\ RingLength > 1
  BY SizeAssumption
<1>2. CASE Len(r) + 1 = RingLength
  <2>1. PutHead(r, h) = <<>>
    BY <1>2 DEF PutHead
  <2>2. <<>> \in Seq(Heads) /\ Len(<<>>) = 0
    OBVIOUS
  <2>3. QED
    BY <1>1, <2>1, <2>2
<1>3. CASE Len(r) + 1 # RingLength
  <2>1. PutHead(r, h) = Append(r, h)
    BY <1>3 DEF PutHead
  <2>2. Append(r, h) \in Seq(Heads) /\ Len(Append(r, h)) = Len(r) + 1 /\ Len(r) \in Nat
    OBVIOUS
  <2>3. QED
    BY <1>1, <1>3, <2>1, <2>2
<1>4. QED
  BY <1>2, <1>3

(* The head of a request that an end sends.                                *)
LEMMA HeadSent ==
  ASSUME Places, NEW p \in Peer
  PROVE  /\ [type |-> Outgoing(p).type, len |-> Outgoing(p).len]
              = [type |-> at[p].type, len |-> at[p].len]
         /\ [type |-> at[p].type, len |-> at[p].len] \in Heads
<1>1. at[p] \in Place
  BY DEF Places, PlaceOf
<1>2. QED
  BY <1>1 DEF Place, Heads, Outgoing, Request

(* A ring has room for what it holds, and holds heads.                     *)
LEMMA RingsStep ==
  ASSUME Places, Rings, [Next]_vars
  PROVE  Rings'
<1>1. CASE UNCHANGED ring
  BY <1>1 DEF Rings
<1>2. ASSUME NEW p \in Peer, Send(p) PROVE Rings'
  <2> DEFINE h == [type |-> Outgoing(p).type, len |-> Outgoing(p).len]
  <2>1. h \in Heads
    BY HeadSent
  <2>2. ring' = ring \/ ring' = [ring EXCEPT ![p] = PutHead(@, h)]
    BY <1>2 DEF Send
  <2> HIDE DEF h
  <2>3. PutHead(ring[p], h) \in Seq(Heads) /\ Len(PutHead(ring[p], h)) < RingLength
    BY <2>1, PutHeadType DEF Rings
  <2>4. QED
    BY <2>2, <2>3 DEF Rings
<1>3. ASSUME NEW q \in Peer, Handled(q) PROVE Rings'
  <2>1. ring' = ring \/ (ring' = [ring EXCEPT ![q] = Tail(@)] /\ ring[q] # <<>>)
    BY <1>3 DEF Handled, Apply, AssertionOn
  <2>2. CASE ring' = [ring EXCEPT ![q] = Tail(@)] /\ ring[q] # <<>>
    <3>1. ring[q] \in Seq(Heads) /\ Len(ring[q]) < RingLength /\ RingLength \in Nat
      BY SizeAssumption DEF Rings
    <3>2. Tail(ring[q]) \in Seq(Heads) /\ Len(Tail(ring[q])) = Len(ring[q]) - 1
      BY <2>2, <3>1, Rest, Zenon
    <3>3. Len(Tail(ring[q])) < RingLength
      <4>1. Len(ring[q]) \in Nat
        BY <3>1
      <4>2. QED
        BY <3>1, <3>2, <4>1
    <3>4. QED
      BY <2>2, <3>2, <3>3 DEF Rings
  <2>3. QED
    BY <1>1, <2>1, <2>2
<1>4. UNCHANGED ring \/ (\E p \in Peer : Send(p)) \/ (\E q \in Peer : Handled(q))
  <2>1. \/ Still \/ (\E type \in Calls : Call(type))
        \/ (\E p \in Peer : Send(p)) \/ (\E q \in Peer : Handled(q))
        \/ (\E p \in Peer : Produce(p)) \/ (\E p \in Peer : Consume(p))
    BY DataSteps
  <2>2. ASSUME NEW type \in Calls, Call(type) PROVE UNCHANGED ring
    BY <2>2 DEF Call
  <2>3. ASSUME NEW p \in Peer, Produce(p) \/ Consume(p) PROVE UNCHANGED ring
    BY <2>3 DEF Produce, Consume
  <2>4. Still => UNCHANGED ring
    BY DEF Still
  <2>5. QED
    BY <2>1, <2>2, <2>3, <2>4
<1>5. QED
  BY <1>1, <1>2, <1>3, <1>4

-----------------------------------------------------------------------------
(* The bytes of the messages on their way.                                 *)

Wire ==
  /\ queued \in [Peer -> Nat] /\ flying \in [Peer -> Nat] /\ arrived \in [Peer -> Nat]
  /\ \A p \in Peer : queued[p] < TxLength /\ arrived[p] < RxLength
  /\ \A p \in Peer : queued[p] + flying[p] + arrived[p] = Bytes(out[p])

(* The lengths of siorx and siotx, and of what a transfer moves.           *)
LEMMA WireLengths ==
  /\ RxLength \in Nat /\ RxLength > 0 /\ TxLength \in Nat /\ TxLength > 0
  /\ Packet \in Nat /\ Packet > 0 /\ SumBytes \in Nat /\ HeadBytes \in Nat
  BY SizeAssumption

(* The bytes of a message that p may send are those it makes room for.     *)
LEMMA NeedIsSize ==
  ASSUME Places, Memory, NEW p \in Peer, at[p].do = "room",
         at[p].type = "write_fifo" => at[p].len <= Len(fifo[p][FifoOf(p)])
  PROVE  NeedBytes(p) = Size(Outgoing(p)) /\ NeedBytes(p) \in Nat
<1> DEFINE m == Outgoing(p)
<1>1. m \in Good(p, made)
  BY OutgoingGood
<1>2. m.type = at[p].type /\ m.ret = FALSE /\ m.len = at[p].len
  BY DEF Outgoing, Request
<1> HIDE DEF m
<1>3. m.type \in {"write", "write_fifo"} => Len(m.data) = at[p].len
  BY <1>1, <1>2 DEF Good, Carrying, Telling
<1>4. m \in Message
  BY <1>1 DEF Good
<1>5. Size(m) \in Nat
  BY <1>4, SizeType
<1>6. at[p].len \in Nat
  <2>1. m.len \in 0..FifoLength
    BY <1>4 DEF Message
  <2>2. QED
    BY <1>2, <2>1, Lengths
<1>7. Size(m) = NeedBytes(p)
  BY <1>2, <1>3, <1>6, WireLengths DEF Size, NeedBytes
<1>8. QED
  BY <1>5, <1>7 DEF m

(* Sending adds as many to siotx.                                          *)
LEMMA SendWire ==
  ASSUME Places, Memory, Traffic, Wire, NEW p \in Peer, Send(p), fault' = "none"
  PROVE  Wire'
<1> DEFINE m == Outgoing(p)
           n == NeedBytes(p)
<1>1. at[p].type = "write_fifo" => at[p].len <= Len(fifo[p][FifoOf(p)])
  BY SendsEnough
<1>2. at[p].do = "room"
  BY DEF Send
<1>3. n = Size(m) /\ n \in Nat
  BY <1>1, <1>2, NeedIsSize
<1>4. m \in Message
  BY <1>1, <1>2, OutgoingGood DEF Good
<1>5. RoomOf(p) >= n
  <2>1. fault' = CASE RoomOf(p) < n -> "cannot_push_head_inside_fifo"
                   [] m.type = "write_fifo" /\ Len(m.data) < m.len -> "fifo_is_empty"
                   [] OTHER -> fault
    BY DEF Send
  <2>2. ~(RoomOf(p) < n)
    BY <2>1
  <2>3. RoomOf(p) \in Int
    BY WireLengths DEF RoomOf, Wire
  <2>4. QED
    BY <1>3, <2>2, <2>3
<1>6. /\ out' = [out EXCEPT ![p] = Append(@, m)]
      /\ queued' = [queued EXCEPT ![p] = @ + n]
      /\ UNCHANGED <<flying, arrived>>
  BY DEF Send
<1> HIDE DEF m, n
<1>7. out \in [Peer -> Seq(Message)] /\ out[p] \in Seq(Message)
  BY DEF Traffic
<1>8. Bytes(Append(out[p], m)) = Bytes(out[p]) + n
  BY <1>3, <1>4, <1>7, ListsAppend
<1>9. queued[p] + n < TxLength /\ queued[p] + n \in Nat
  BY <1>3, <1>5, WireLengths DEF RoomOf, Wire
<1>10. \A e \in Peer : queued'[e] + flying'[e] + arrived'[e] = Bytes(out'[e])
  <2> TAKE e \in Peer
  <2>1. queued[e] + flying[e] + arrived[e] = Bytes(out[e])
    BY DEF Wire
  <2>2. flying'[e] \in Nat /\ arrived'[e] \in Nat /\ queued[e] \in Nat
        /\ flying' = flying /\ arrived' = arrived
    BY <1>6 DEF Wire
  <2>3. CASE e = p
    <3>1. queued'[e] = queued[p] + n /\ out'[e] = Append(out[p], m)
      BY <1>6, <1>7, <2>3 DEF Wire
    <3>2. QED
      BY <1>3, <1>8, <2>1, <2>2, <2>3, <3>1
  <2>4. CASE e # p
    <3>1. queued'[e] = queued[e] /\ out'[e] = out[e]
      BY <1>6, <1>7, <2>4 DEF Wire
    <3>2. QED
      BY <2>1, <2>2, <3>1
  <2>5. QED
    BY <2>3, <2>4
<1>11. QED
  BY <1>6, <1>9, <1>10 DEF Wire

(* What q pulls in, and what it pushes out to make room.                   *)
LEMMA HandleWire ==
  ASSUME Memory, Traffic, Wire, NEW q \in Peer, NEW have, NEW room, NEW next,
         Handle(q, have, room, next), fault' = "none",
         have \in Nat, have <= arrived[Other(q)] + flying[Other(q)],
         room \in Int, room < TxLength
  PROVE  Wire'
<1> DEFINE p == Other(q)
           m == Head(out[p])
           answer == IF m.ret THEN 0 ELSE Size(AnswerTo(q, m))
           pull == Larger(0, Size(m) - arrived[p])
           push == Larger(0, answer - RoomOf(q))
           ms == IF m.ret THEN out[q] ELSE Append(out[q], AnswerTo(q, m))
<1>1. p \in Peer /\ p # q /\ \A e \in Peer : e = p \/ e = q
  BY DEF Other, Peer
<1>2. /\ out[p] # <<>> /\ have >= Size(m) /\ room >= answer
      /\ out' = IF m.ret THEN [out EXCEPT ![p] = Tail(@)]
                ELSE [out EXCEPT ![p] = Tail(@), ![q] = Append(@, AnswerTo(q, m))]
      /\ arrived' = [arrived EXCEPT ![p] = @ + pull - Size(m)]
      /\ flying' = [flying EXCEPT ![p] = @ - pull, ![q] = @ + push]
      /\ queued' = [queued EXCEPT ![q] = @ - push + answer]
  BY DEF Handle
<1>3. /\ out[p] \in Seq(Message) /\ out[q] \in Seq(Message) /\ out \in [Peer -> Seq(Message)]
      /\ out[p] \in Seq(Good(p, made))
  BY <1>1 DEF Traffic
<1>4. m \in Good(p, made) /\ m \in Message
  <2>1. m \in Good(p, made)
    BY <1>2, <1>3
  <2>2. QED
    BY <2>1 DEF Good
<1>5. Size(m) \in Nat /\ Bytes(out[p]) = Size(m) + Bytes(Tail(out[p])) /\ Bytes(Tail(out[p])) \in Nat
  <2>1. Bytes(out[p]) = Size(m) + Bytes(Tail(out[p])) /\ Tail(out[p]) \in Seq(Message)
    BY <1>2, <1>3, ListsTail
  <2>2. QED
    BY <1>4, <2>1, SizeType, ListTypes
<1>6. answer \in Nat /\ Bytes(ms) = Bytes(out[q]) + answer /\ Bytes(out[q]) \in Nat
  <2>1. Bytes(out[q]) \in Nat
    BY <1>3, ListTypes
  <2>2. CASE m.ret
    BY <2>1, <2>2
  <2>3. CASE ~m.ret
    <3>1. AnswerTo(q, m) \in Message
      BY <1>4, <2>3, AnswerGood DEF Good
    <3>2. Size(AnswerTo(q, m)) \in Nat
      BY <3>1, SizeType
    <3>3. Bytes(Append(out[q], AnswerTo(q, m))) = Bytes(out[q]) + Size(AnswerTo(q, m))
      BY <1>3, <3>1, ListsAppend
    <3>4. QED
      BY <2>1, <2>3, <3>2, <3>3
  <2>4. QED
    BY <2>2, <2>3
<1>7. out' = [out EXCEPT ![p] = Tail(out[p]), ![q] = ms]
  <2>1. CASE m.ret
    BY <1>1, <1>2, <1>3, <2>1
  <2>2. CASE ~m.ret
    BY <1>1, <1>2, <1>3, <2>2
  <2>3. QED
    BY <2>1, <2>2
<1>8. PICK n, a, u, v : n = Size(m) /\ a = answer /\ u = pull /\ v = push
  OBVIOUS
<1>9. /\ queued \in [Peer -> Nat] /\ flying \in [Peer -> Nat] /\ arrived \in [Peer -> Nat]
      /\ queued[q] \in Nat /\ flying[q] \in Nat /\ arrived[q] \in Nat
      /\ queued[p] \in Nat /\ flying[p] \in Nat /\ arrived[p] \in Nat
      /\ queued[q] < TxLength /\ arrived[q] < RxLength
      /\ queued[p] < TxLength /\ arrived[p] < RxLength
      /\ queued[q] + flying[q] + arrived[q] = Bytes(out[q])
      /\ queued[p] + flying[p] + arrived[p] = Bytes(out[p])
  BY <1>1 DEF Wire
<1>10. n \in Nat /\ a \in Nat /\ a < TxLength
  BY <1>2, <1>5, <1>6, <1>8, WireLengths
<1>11. u \in Nat /\ u <= flying[p] /\ arrived[p] + u - n \in Nat /\ arrived[p] + u - n < RxLength
  <2>1. have <= arrived[p] + flying[p] /\ have >= n /\ have \in Nat
    BY <1>2, <1>8
  <2>2. u = IF 0 >= n - arrived[p] THEN 0 ELSE n - arrived[p]
    BY <1>8 DEF Larger
  <2>3. QED
    BY <1>9, <1>10, <2>1, <2>2, WireLengths
<1>12. v \in Nat /\ v <= queued[q] /\ queued[q] - v + a \in Nat /\ queued[q] - v + a < TxLength
  BY <1>8, <1>9, <1>10, WireLengths DEF Larger, RoomOf
<1>13. /\ Bytes(out'[p]) = Bytes(out[p]) - n /\ Bytes(out'[q]) = Bytes(out[q]) + a
       /\ Bytes(out[p]) \in Nat /\ Bytes(out[q]) \in Nat
  <2>1. out'[p] = Tail(out[p]) /\ out'[q] = ms
    BY <1>1, <1>3, <1>7
  <2>2. Bytes(out'[p]) = Bytes(Tail(out[p])) /\ Bytes(out'[q]) = Bytes(ms)
    BY <2>1
  <2> HIDE DEF p, m, answer, pull, push, ms
  <2>3. QED
    BY <1>5, <1>6, <1>8, <2>2
<1> HIDE DEF p, m, answer, pull, push, ms
<1>14. /\ arrived' = [arrived EXCEPT ![p] = arrived[p] + u - n]
       /\ flying' = [flying EXCEPT ![p] = flying[p] - u, ![q] = flying[q] + v]
       /\ queued' = [queued EXCEPT ![q] = queued[q] - v + a]
  BY <1>1, <1>2, <1>8, <1>9
<1>15. /\ arrived'[p] = arrived[p] + u - n /\ arrived'[q] = arrived[q]
       /\ flying'[p] = flying[p] - u /\ flying'[q] = flying[q] + v
       /\ queued'[p] = queued[p] /\ queued'[q] = queued[q] - v + a
  BY <1>1, <1>9, <1>14
<1>16. /\ queued' \in [Peer -> Nat] /\ flying' \in [Peer -> Nat] /\ arrived' \in [Peer -> Nat]
  <2>1. flying[p] - u \in Nat /\ flying[q] + v \in Nat
    BY <1>9, <1>11, <1>12
  <2>2. QED
    BY <1>1, <1>9, <1>11, <1>12, <1>14, <2>1
<1>17. /\ queued'[p] + flying'[p] + arrived'[p] = Bytes(out'[p])
       /\ queued'[q] + flying'[q] + arrived'[q] = Bytes(out'[q])
  BY <1>9, <1>10, <1>11, <1>12, <1>13, <1>15
<1>18. /\ queued'[p] < TxLength /\ arrived'[p] < RxLength
       /\ queued'[q] < TxLength /\ arrived'[q] < RxLength
  BY <1>9, <1>11, <1>12, <1>15
<1>19. QED
  BY <1>1, <1>16, <1>17, <1>18 DEF Wire

(* softio_flush moves bytes and drops none.                                *)
LEMMA FlushWire ==
  ASSUME Wire, NEW p \in Peer, FlushBytes(p), UNCHANGED out
  PROVE  Wire'
<1> DEFINE q == Other(p)
           wait_cnt == flying[q] + arrived[q]
           upto == IF wait_cnt >= RxLength THEN RxLength - 2 ELSE wait_cnt
           got == Larger(0, upto - arrived[q])
<1>1. q \in Peer /\ p # q /\ \A e \in Peer : e = p \/ e = q
  BY DEF Other, Peer
<1>2. /\ queued' = [queued EXCEPT ![p] = 0]
      /\ flying' = [flying EXCEPT ![p] = @ + queued[p], ![q] = @ - got]
      /\ arrived' = [arrived EXCEPT ![q] = @ + got]
  BY DEF FlushBytes
<1>3. /\ queued \in [Peer -> Nat] /\ flying \in [Peer -> Nat] /\ arrived \in [Peer -> Nat]
      /\ queued[q] \in Nat /\ flying[q] \in Nat /\ arrived[q] \in Nat
      /\ queued[p] \in Nat /\ flying[p] \in Nat /\ arrived[p] \in Nat
      /\ queued[q] < TxLength /\ arrived[q] < RxLength
      /\ queued[p] < TxLength /\ arrived[p] < RxLength
      /\ queued[q] + flying[q] + arrived[q] = Bytes(out[q])
      /\ queued[p] + flying[p] + arrived[p] = Bytes(out[p])
  BY <1>1 DEF Wire
<1>4. PICK g : g = got
  OBVIOUS
<1>5. g \in Nat /\ g <= flying[q] /\ arrived[q] + g < RxLength
  BY <1>3, <1>4, WireLengths DEF Larger
<1> HIDE DEF q, got
<1>6. /\ arrived' = [arrived EXCEPT ![q] = arrived[q] + g]
      /\ flying' = [flying EXCEPT ![p] = flying[p] + queued[p], ![q] = flying[q] - g]
  BY <1>1, <1>2, <1>3, <1>4
<1>7. /\ arrived'[p] = arrived[p] /\ arrived'[q] = arrived[q] + g
      /\ flying'[p] = flying[p] + queued[p] /\ flying'[q] = flying[q] - g
      /\ queued'[p] = 0 /\ queued'[q] = queued[q]
  BY <1>1, <1>2, <1>3, <1>6
<1>8. /\ queued' \in [Peer -> Nat] /\ flying' \in [Peer -> Nat] /\ arrived' \in [Peer -> Nat]
  <2>1. flying[q] - g \in Nat /\ flying[p] + queued[p] \in Nat /\ arrived[q] + g \in Nat
    BY <1>3, <1>5
  <2>2. QED
    BY <1>1, <1>2, <1>3, <1>6, <2>1
<1>9. /\ queued'[p] + flying'[p] + arrived'[p] = Bytes(out[p])
      /\ queued'[q] + flying'[q] + arrived'[q] = Bytes(out[q])
  BY <1>3, <1>5, <1>7
<1>10. /\ queued'[p] < TxLength /\ arrived'[p] < RxLength
       /\ queued'[q] < TxLength /\ arrived'[q] < RxLength
  BY <1>3, <1>5, <1>7, WireLengths
<1>11. QED
  BY <1>1, <1>8, <1>9, <1>10 DEF Wire

(* The receive interrupt, when what has come fits.                         *)
LEMMA ReceiveWire ==
  ASSUME Wire, UsbReceive, fault' = "none"
  PROVE  Wire'
<1> DEFINE n == Smaller(Packet, flying["pc"])
           fits == Smaller(n, RxLength - 1 - arrived["pc"])
<1>1. /\ flying' = [flying EXCEPT !["pc"] = @ - n]
      /\ arrived' = [arrived EXCEPT !["pc"] = @ + fits]
      /\ fault' = IF fits < n THEN "siorx_overflow" ELSE fault
      /\ UNCHANGED <<queued, out>>
  BY DEF UsbReceive
<1>2. /\ queued \in [Peer -> Nat] /\ flying \in [Peer -> Nat] /\ arrived \in [Peer -> Nat]
      /\ flying["pc"] \in Nat /\ arrived["pc"] \in Nat /\ queued["pc"] \in Nat
      /\ arrived["pc"] < RxLength
      /\ queued["pc"] + flying["pc"] + arrived["pc"] = Bytes(out["pc"])
  BY Ends DEF Wire
<1>3. PICK k : k = n
  OBVIOUS
<1>4. k \in Nat /\ k <= flying["pc"]
  BY <1>2, <1>3, WireLengths DEF Smaller
<1>5. fits = k /\ arrived["pc"] + k < RxLength
  <2>1. ~(fits < k)
    BY <1>1, <1>3
  <2>2. QED
    BY <1>2, <1>3, <1>4, <2>1, WireLengths DEF Smaller
<1> HIDE DEF n, fits
<1>6. /\ flying' = [flying EXCEPT !["pc"] = flying["pc"] - k]
      /\ arrived' = [arrived EXCEPT !["pc"] = arrived["pc"] + k]
  BY <1>1, <1>2, <1>3, <1>5
<1>7. /\ flying'["pc"] = flying["pc"] - k /\ arrived'["pc"] = arrived["pc"] + k
      /\ \A e \in Peer : e # "pc" => flying'[e] = flying[e] /\ arrived'[e] = arrived[e]
  BY <1>2, <1>6, Ends
<1>8. flying' \in [Peer -> Nat] /\ arrived' \in [Peer -> Nat]
  <2>1. flying["pc"] - k \in Nat /\ arrived["pc"] + k \in Nat
    BY <1>2, <1>4
  <2>2. QED
    BY <1>2, <1>6, <2>1
<1>9. queued'["pc"] + flying'["pc"] + arrived'["pc"] = Bytes(out'["pc"])
  BY <1>1, <1>2, <1>4, <1>7
<1>10. QED
  BY <1>1, <1>5, <1>7, <1>8, <1>9 DEF Wire

(* The transmit interrupt.                                                 *)
LEMMA TransmitWire ==
  ASSUME Wire, UsbTransmit
  PROVE  Wire'
<1> DEFINE n == Smaller(Packet, queued["mcu"])
<1>1. /\ queued' = [queued EXCEPT !["mcu"] = @ - n]
      /\ flying' = [flying EXCEPT !["mcu"] = @ + n]
      /\ UNCHANGED <<arrived, out>>
  BY DEF UsbTransmit
<1>2. /\ queued \in [Peer -> Nat] /\ flying \in [Peer -> Nat] /\ arrived \in [Peer -> Nat]
      /\ flying["mcu"] \in Nat /\ arrived["mcu"] \in Nat /\ queued["mcu"] \in Nat
      /\ queued["mcu"] < TxLength
      /\ queued["mcu"] + flying["mcu"] + arrived["mcu"] = Bytes(out["mcu"])
  BY Ends DEF Wire
<1>3. PICK k : k = n
  OBVIOUS
<1>4. k \in Nat /\ k <= queued["mcu"]
  BY <1>2, <1>3, WireLengths DEF Smaller
<1> HIDE DEF n
<1>6. /\ queued' = [queued EXCEPT !["mcu"] = queued["mcu"] - k]
      /\ flying' = [flying EXCEPT !["mcu"] = flying["mcu"] + k]
  BY <1>1, <1>2, <1>3
<1>7. /\ flying'["mcu"] = flying["mcu"] + k /\ queued'["mcu"] = queued["mcu"] - k
      /\ \A e \in Peer : e # "mcu" => flying'[e] = flying[e] /\ queued'[e] = queued[e]
  BY <1>2, <1>6, Ends
<1>8. flying' \in [Peer -> Nat] /\ queued' \in [Peer -> Nat] /\ queued'["mcu"] < TxLength
  <2>1. flying["mcu"] + k \in Nat /\ queued["mcu"] - k \in Nat /\ queued["mcu"] - k < TxLength
    BY <1>2, <1>4, WireLengths
  <2>2. QED
    BY <1>2, <1>6, <1>7, <2>1
<1>9. queued'["mcu"] + flying'["mcu"] + arrived'["mcu"] = Bytes(out'["mcu"])
  BY <1>1, <1>2, <1>4, <1>7
<1>10. QED
  BY <1>1, <1>7, <1>8, <1>9 DEF Wire

(* A step that does not end in a failed assertion loses no byte.           *)
LEMMA WireStep ==
  ASSUME Places, Memory, Traffic, Wire, [Next]_vars, fault' = "none"
  PROVE  Wire'
<1>1. ASSUME UNCHANGED <<wire, out>> PROVE Wire'
  BY <1>1 DEF Wire, wire
<1>2. ASSUME NEW q \in Peer
      PROVE  /\ arrived[Other(q)] \in Nat /\ flying[Other(q)] \in Nat
             /\ RoomOf(q) \in Int /\ RoomOf(q) < TxLength
             /\ TxLength - 1 \in Int /\ TxLength - 1 < TxLength
  <2>1. Other(q) \in Peer
    BY DEF Other, Peer
  <2>2. QED
    BY <2>1, WireLengths DEF Wire, RoomOf
<1>3. ASSUME NEW q \in Peer, Try(q) PROVE Wire'
  <2>1. Handle(q, arrived[Other(q)], RoomOf(q), at[q].do)
    BY <1>3 DEF Try
  <2>2. arrived[Other(q)] <= arrived[Other(q)] + flying[Other(q)]
    BY <1>2
  <2>3. QED
    BY <1>2, <2>1, <2>2, HandleWire
<1>4. ASSUME NEW p \in Peer, Library(p) PROVE Wire'
  <2>1. CASE Slot(p) \/ Room(p)
    BY <1>1, <2>1 DEF Slot, Room
  <2>2. CASE Send(p)
    BY <2>2, SendWire
  <2>3. CASE Flush(p)
    <3>1. UNCHANGED out /\ (FlushBytes(p) \/ UNCHANGED wire)
      BY <2>3 DEF Flush
    <3>2. QED
      BY <1>1, <3>1, FlushWire
  <2>4. CASE HandleOne(p)
    <3>1. CASE p = "pc"
      <4>1. Handle(p, arrived[Other(p)] + flying[Other(p)], TxLength - 1, at[p].back)
        BY <2>4, <3>1 DEF HandleOne
      <4>2. /\ arrived[Other(p)] + flying[Other(p)] \in Nat
            /\ arrived[Other(p)] + flying[Other(p)] <= arrived[Other(p)] + flying[Other(p)]
        BY <1>2
      <4>3. QED
        BY <1>2, <4>1, <4>2, HandleWire
    <3>2. CASE p # "pc"
      <4>1. Handle(p, arrived[Other(p)], RoomOf(p), at[p].back)
        BY <2>4, <3>2 DEF HandleOne
      <4>2. arrived[Other(p)] <= arrived[Other(p)] + flying[Other(p)]
        BY <1>2
      <4>3. QED
        BY <1>2, <4>1, <4>2, HandleWire
    <3>3. QED
      BY <3>1, <3>2
  <2>5. QED
    BY <1>4, <2>1, <2>2, <2>3, <2>4 DEF Library
<1>5. CASE \E type \in Calls : Call(type)
  BY <1>1, <1>5 DEF Call
<1>6. CASE \E p \in Peer : Produce(p) \/ Consume(p)
  BY <1>1, <1>6 DEF Produce, Consume
<1>7. CASE WaitAll \/ WaitMore \/ BoardPush \/ BoardPushed
  BY <1>1, <1>7 DEF WaitAll, WaitMore, BoardPush, BoardPushed
<1>8. CASE FlushTry
  BY <1>8, FlushWire, Ends DEF FlushTry
<1>9. CASE TryAll
  BY <1>1, <1>3, <1>9, Ends DEF TryAll
<1>10. CASE BoardTry
  BY <1>3, <1>10, Ends DEF BoardTry
<1>11. CASE UsbReceive
  BY <1>11, ReceiveWire
<1>12. CASE UsbTransmit
  BY <1>12, TransmitWire
<1>13. CASE UNCHANGED vars
  BY <1>1, <1>13 DEF vars
<1>14. QED
  BY <1>4, <1>5, <1>6, <1>7, <1>8, <1>9, <1>10, <1>11, <1>12, <1>13 DEF Next, Host, Board

-----------------------------------------------------------------------------
(* Type correctness.                                                       *)

Typed == Places /\ Memory /\ Traffic /\ Rings /\ Wire

(* It holds at first.                                                      *)
LEMMA TypedInit ==
  ASSUME Init
  PROVE  Typed
<1>1. Places /\ Memory /\ Traffic
  BY MemoryInit
<1>2. Rings
  <2>1. ring = [p \in Peer |-> <<>>]
    BY DEF Init
  <2>2. <<>> \in Seq(Heads) /\ Len(<<>>) = 0 /\ 0 < RingLength
    BY SizeAssumption
  <2>3. QED
    BY <2>1, <2>2 DEF Rings
<1>3. Wire
  <2>1. /\ out = [p \in Peer |-> <<>>]
        /\ queued = [p \in Peer |-> 0] /\ flying = [p \in Peer |-> 0]
        /\ arrived = [p \in Peer |-> 0]
    BY DEF Init
  <2>2. Bytes(<<>>) = 0
    BY ListsEmpty
  <2>3. QED
    BY <2>1, <2>2, WireLengths DEF Wire
<1>4. QED
  BY <1>1, <1>2, <1>3 DEF Typed

(* It holds as long as the program runs.                                   *)
LEMMA TypedStep ==
  ASSUME Running => Typed, [Next]_vars
  PROVE  Running' => Typed'
<1> SUFFICES ASSUME Running' PROVE Typed'
  OBVIOUS
<1>1. fault' = "none" /\ Typed
  BY StepsRun DEF Running, vars
<1>2. Places /\ Memory /\ Traffic /\ Rings /\ Wire /\ Fifos
  BY <1>1 DEF Typed, Memory
<1>3. Places'
  BY <1>2, PlacesStep
<1>4. Memory' /\ Traffic'
  BY <1>1, <1>2, MemoryStep
<1>5. Rings'
  BY <1>2, RingsStep
<1>6. Wire'
  BY <1>1, <1>2, WireStep
<1>7. QED
  BY <1>3, <1>4, <1>5, <1>6 DEF Typed

(* Spec keeps to it.                                                       *)
LEMMA TypedAlways == Spec => [](Running => Typed)
<1>1. Init => (Running => Typed)
  BY TypedInit
<1>2. (Running => Typed) /\ [Next]_vars => (Running => Typed)'
  BY TypedStep
<1>3. QED
  BY <1>1, <1>2, PTL DEF Spec

(* Until an assertion fails, everything has its type: no ring holds more   *)
(* heads than it can, siotx and siorx never overflow, and the bytes on     *)
(* their way are, to the byte, those of the messages sent and not handled. *)
THEOREM TypeCorrect == Spec => [](Running => TypeOK)
<1>1. Typed => TypeOK
  <2> SUFFICES ASSUME Typed PROVE TypeOK
    OBVIOUS
  <2>1. Places /\ Memory /\ Rings /\ Wire
    BY DEF Typed
  <2>2. ASSUME NEW p \in Peer
        PROVE  /\ at[p].do \in {"idle", "slot", "room", "flush", "handle", "all", "try", "push"}
               /\ at[p].back \in {"idle", "room", "all"}
    BY <2>1 DEF Places, PlaceOf, Place
  <2>3. ASSUME NEW p \in Peer
        PROVE  ring[p] \in Seq(Heads) /\ Len(ring[p]) < RingLength
    BY <2>1 DEF Rings
  <2>4. ASSUME NEW p \in Peer
        PROVE  /\ queued[p] \in 0..(TxLength - 1) /\ arrived[p] \in 0..(RxLength - 1)
               /\ flying[p] \in Nat
    BY <2>1, WireLengths DEF Wire
  <2>5. ASSUME NEW p \in Peer
        PROVE  value[p] \in Values /\ \A f \in Stream : fifo[p][f] \in Seq(1..made[f])
    BY <2>1 DEF Memory
  <2>6. /\ queued["pc"] + flying["pc"] + arrived["pc"] = Bytes(out["pc"])
        /\ queued["mcu"] + flying["mcu"] + arrived["mcu"] = Bytes(out["mcu"])
    BY <2>1, Ends DEF Wire
  <2>7. QED
    BY <2>2, <2>3, <2>4, <2>5, <2>6 DEF TypeOK
<1>2. (Running => Typed) => (Running => TypeOK)
  BY <1>1
<1>3. QED
  BY <1>2, TypedAlways, PTL

-----------------------------------------------------------------------------
(* How many requests an end may have under way.                            *)

(* The bound on what an end asks, and what it has asked so far.            *)
Asks(p)  == IF p = "pc" THEN MaxCalls ELSE MaxPushes
Asked(p) == IF p = "pc" THEN calls ELSE MaxPushes - pushes

(* A ring that keeps heads suffices if it is as long as there are requests *)
(* to keep, or if all that can be handled while its end waits are answers: *)
(* the full ring is tested once only, before one message is waited for.    *)
RingsSuffice ==
  \A p \in Keeps : Asks(p) < RingLength \/ Asks(Other(p)) = 0

(* A request that is under way was asked for.                              *)
Counted ==
  /\ calls \in 0..MaxCalls /\ pushes \in 0..MaxPushes
  /\ \A p \in Keeps :
       Len(ring[p]) + (IF Calling(at[p]) THEN 1 ELSE 0) <= Asked(p)

(* An end that asks for nothing sends answers only.                        *)
Silent ==
  \A p \in Peer : Asks(p) = 0 => Requests(out[p]) = <<>> /\ ~Calling(at[p])

(* An end that only gets answers has a place left when it sends.           *)
Gap ==
  \A p \in Keeps : Asks(Other(p)) = 0 /\ at[p].do = "room"
                     => Len(ring[p]) < RingLength - 1

Asking == Counted /\ Silent /\ Gap

(* One end goes on.                                                        *)
LEMMA GoToMoves ==
  ASSUME Places, NEW p \in Peer, NEW do, GoTo(p, do)
  PROVE  /\ at'[p].do = do /\ at'[p].back = at[p].back /\ at'[p].type = at[p].type
         /\ at'[p].len = at[p].len
         /\ \A e \in Peer : e # p => at'[e] = at[e]
<1>1. at[p] \in Place /\ DOMAIN at = Peer
  BY DEF Places, PlaceOf
<1>2. at' = [at EXCEPT ![p] = [at[p] EXCEPT !.do = do]]
  BY DEF GoTo
<1>3. at'[p] = [at[p] EXCEPT !.do = do] /\ \A e \in Peer : e # p => at'[e] = at[e]
  BY <1>1, <1>2
<1>4. QED
  BY <1>1, <1>3 DEF Place

(* One end begins to wait.                                                 *)
LEMMA WaitOneMoves ==
  ASSUME Places, NEW p \in Peer, NEW back, WaitOne(p, back)
  PROVE  /\ at'[p].do = "flush" /\ at'[p].back = back /\ at'[p].type = at[p].type
         /\ at'[p].len = at[p].len
         /\ \A e \in Peer : e # p => at'[e] = at[e]
<1>1. at[p] \in Place /\ DOMAIN at = Peer
  BY DEF Places, PlaceOf
<1>2. at' = [at EXCEPT ![p] = [at[p] EXCEPT !.do = "flush", !.back = back]]
  BY <1>1 DEF WaitOne
<1>3. /\ at'[p] = [at[p] EXCEPT !.do = "flush", !.back = back]
      /\ \A e \in Peer : e # p => at'[e] = at[e]
  BY <1>1, <1>2
<1>4. QED
  BY <1>1, <1>3 DEF Place

(* One end begins a request.                                               *)
LEMMA BeginMoves ==
  ASSUME Places, NEW p \in Peer, NEW type, NEW len, Begin(p, type, len, "slot")
  PROVE  /\ at'[p].do = "slot" /\ at'[p].type = type /\ at'[p].len = len
         /\ \A e \in Peer : e # p => at'[e] = at[e]
<1>1. DOMAIN at = Peer
  BY DEF Places
<1>2. QED
  BY <1>1 DEF Begin

(* An end that has decided on a request waits for a message.               *)
Held(a) == a.do \in {"flush", "handle"} /\ a.back = "room"

(* The bytes that p has to send; a step takes none from them unless it is  *)
(* a request that does.                                                    *)
Stock(p) == fifo[p][FifoOf(p)]
Stocked(p) == \/ fifo'[p][FifoOf(p)] = Stock(p)
              \/ \E b : fifo'[p][FifoOf(p)] = Append(Stock(p), b)

(* What a step does to the requests: nothing ...                           *)
Quiet ==
  /\ UNCHANGED <<ring, out, calls, pushes>>
  /\ \A p \in Peer :
       /\ Calling(at'[p]) <=> Calling(at[p])
       /\ Calling(at[p]) => at'[p].type = at[p].type /\ at'[p].len = at[p].len
       /\ at'[p].do = "room" => \/ at[p].do = "room"
                                \/ p \in Keeps => ~RingFull(p)
       /\ Held(at'[p]) => Held(at[p]) \/ p \in Keeps
       /\ Stocked(p)

(* ... or p decides on one ...                                             *)
Decides(p) ==
  /\ UNCHANGED <<ring, out, fifo>>
  /\ ~Calling(at[p]) /\ Calling(at'[p]) /\ at'[p].do # "room" /\ ~Held(at'[p])
  /\ at'[p].type = "write_fifo" => at'[p].len <= Len(Stock(p))
  /\ \A e \in Peer : e # p => at'[e] = at[e]
  /\ IF p = "pc" THEN calls < MaxCalls /\ calls' = calls + 1 /\ pushes' = pushes
     ELSE pushes > 0 /\ pushes' = pushes - 1 /\ calls' = calls

(* ... or sends it ...                                                     *)
Sends(p) ==
  /\ Send(p)
  /\ ~Calling(at'[p]) /\ at'[p].do # "room" /\ ~Held(at'[p])
  /\ \A e \in Peer : e # p => at'[e] = at[e]
  /\ UNCHANGED <<calls, pushes>>

(* ... or q handles a message.                                             *)
Handles(q) ==
  /\ Handled(q)
  /\ Calling(at'[q]) <=> Calling(at[q])
  /\ Calling(at[q]) => Held(at[q])
  /\ ~Held(at'[q])
  /\ Calling(at[q]) => at'[q].type = at[q].type /\ at'[q].len = at[q].len
  /\ \A e \in Peer : e # q => at'[e] = at[e]
  /\ UNCHANGED <<calls, pushes>>

(* Handling, as one of these.                                              *)
LEMMA HandlingAsks ==
  ASSUME Places, NEW q \in Peer, NEW have, NEW room, NEW next, Handle(q, have, room, next),
         \/ next = at[q].do /\ next \in {"idle", "try"}
         \/ at[q].do = "handle" /\ next = at[q].back
  PROVE  Quiet \/ Handles(q)
<1>1. CASE fault' = "none"
  <2>1. Handled(q)
    <3>1. AssertionOn(q, Head(out[Other(q)])) = "none"
      BY <1>1 DEF Handle
    <3>2. QED
      BY <1>1, <3>1 DEF Handle, Handled
  <2>2. GoTo(q, next) /\ UNCHANGED <<calls, pushes>>
    BY <1>1 DEF Handle
  <2>3. /\ at'[q].do = next /\ at'[q].back = at[q].back /\ at'[q].type = at[q].type
        /\ at'[q].len = at[q].len
        /\ \A e \in Peer : e # q => at'[e] = at[e]
    BY <2>2, GoToMoves
  <2>4. at[q].do = "handle" => at[q].back = "room" \/ at[q].back = "all"
    BY DEF Places, PlaceOf
  <2>5. Calling(at'[q]) <=> Calling(at[q])
    BY <2>3, <2>4 DEF Calling
  <2>6. (Calling(at[q]) => Held(at[q])) /\ ~Held(at'[q])
    BY <2>3, <2>4 DEF Calling, Held
  <2>7. QED
    BY <2>1, <2>2, <2>3, <2>5, <2>6 DEF Handles
<1>2. CASE fault' # "none"
  BY <1>2 DEF Handle, Quiet, Stocked, Stock
<1>3. QED
  BY <1>1, <1>2

(* Every step is one of these.                                             *)
LEMMA AskSteps ==
  ASSUME Places, Fifos, [Next]_vars
  PROVE  Quiet \/ \E p \in Peer : Decides(p) \/ Sends(p) \/ Handles(p)
<1>1. ASSUME NEW p \in Peer, Library(p)
      PROVE  Quiet \/ Sends(p) \/ Handles(p)
  <2>1. CASE Slot(p)
    <3>1. CASE p \in Keeps /\ RingFull(p)
      <4>1. at[p].do = "slot" /\ WaitOne(p, "room") /\ UNCHANGED <<ring, out, fifo, calls, pushes>>
        BY <2>1, <3>1 DEF Slot
      <4>2. QED
        BY <3>1, <4>1, WaitOneMoves DEF Quiet, Calling, Held, Stocked, Stock
    <3>2. CASE ~(p \in Keeps /\ RingFull(p))
      <4>1. at[p].do = "slot" /\ GoTo(p, "room") /\ UNCHANGED <<ring, out, fifo, calls, pushes>>
        BY <2>1, <3>2 DEF Slot
      <4>2. QED
        BY <3>2, <4>1, GoToMoves DEF Quiet, Calling, Held, Stocked, Stock
    <3>3. QED
      BY <3>1, <3>2
  <2>2. CASE Room(p)
    <3>1. at[p].do = "room" /\ p \in Keeps /\ WaitOne(p, "room") /\ UNCHANGED <<ring, out, fifo, calls, pushes>>
      BY <2>2 DEF Room
    <3>2. QED
      BY <3>1, WaitOneMoves DEF Quiet, Calling, Held, Stocked, Stock
  <2>3. CASE Send(p)
    <3>1. /\ GoTo(p, IF p = "pc" THEN "idle" ELSE "push") /\ UNCHANGED <<calls, pushes>>
      BY <2>3 DEF Send
    <3>2. at'[p].do = (IF p = "pc" THEN "idle" ELSE "push")
      BY <3>1, GoToMoves
    <3>3. ~Calling(at'[p]) /\ at'[p].do # "room" /\ ~Held(at'[p])
      BY <3>2 DEF Calling, Held
    <3>4. \A e \in Peer : e # p => at'[e] = at[e]
      BY <3>1, GoToMoves
    <3>5. QED
      BY <2>3, <3>1, <3>3, <3>4 DEF Sends
  <2>4. CASE Flush(p)
    <3>1. /\ at[p].do = "flush" /\ GoTo(p, "handle") /\ UNCHANGED <<ring, out, fifo, calls, pushes>>
      BY <2>4 DEF Flush
    <3>2. QED
      BY <3>1, GoToMoves DEF Quiet, Calling, Held, Stocked, Stock
  <2>5. CASE HandleOne(p)
    <3>1. at[p].do = "handle" /\ \E have, room : Handle(p, have, room, at[p].back)
      BY <2>5 DEF HandleOne
    <3>2. QED
      BY <3>1, HandlingAsks
  <2>6. QED
    BY <1>1, <2>1, <2>2, <2>3, <2>4, <2>5 DEF Library
<1>2. ASSUME NEW type \in Calls, Call(type)
      PROVE  Decides("pc")
  <2>1. /\ at["pc"].do = "idle" /\ calls < MaxCalls /\ calls' = calls + 1
        /\ \E len : /\ Begin("pc", type, len, "slot")
                    /\ type = "write_fifo" =>
                         len \in 1..Smaller(MaxLen, Len(fifo["pc"]["down"]))
        /\ UNCHANGED <<ring, out, fifo, pushes>>
    BY <1>2 DEF Call
  <2>2. PICK len : /\ Begin("pc", type, len, "slot")
                   /\ type = "write_fifo" =>
                        len \in 1..Smaller(MaxLen, Len(fifo["pc"]["down"]))
    BY <2>1
  <2>3. /\ at'["pc"].do = "slot" /\ at'["pc"].type = type /\ at'["pc"].len = len
        /\ \A e \in Peer : e # "pc" => at'[e] = at[e]
    BY <2>2, BeginMoves, Ends
  <2>4. type = "write_fifo" => len <= Len(Stock("pc"))
    <3>1. Len(fifo["pc"]["down"]) \in Nat /\ Stock("pc") = fifo["pc"]["down"]
      BY Ends DEF Fifos, Stock
    <3>2. QED
      BY <2>2, <3>1, Lengths DEF Smaller
  <2>5. QED
    BY <2>1, <2>3, <2>4 DEF Decides, Calling, Held
<1>3. CASE BoardPush
  <2>1. /\ at["mcu"].do \in {"idle", "push"} /\ pushes > 0 /\ pushes' = pushes - 1
        /\ Begin("mcu", "write_fifo", PushBytes, "slot")
        /\ Len(fifo["mcu"]["up"]) >= PushBytes
        /\ UNCHANGED <<ring, out, fifo, calls>>
    BY <1>3 DEF BoardPush, CanPush
  <2>2. /\ at'["mcu"].do = "slot" /\ at'["mcu"].len = PushBytes
        /\ \A e \in Peer : e # "mcu" => at'[e] = at[e]
    BY <2>1, BeginMoves, Ends
  <2>3. Decides("mcu")
    <3>1. PushBytes <= Len(Stock("mcu"))
      <4>1. Len(fifo["mcu"]["up"]) \in Nat /\ PushBytes \in Nat /\ Stock("mcu") = fifo["mcu"]["up"]
        <5>1. PushBytes \in Nat
          BY SizeAssumption
        <5>2. QED
          BY <5>1, Ends DEF Fifos, Stock
      <4>2. QED
        BY <2>1, <4>1
    <3>2. QED
      BY <2>1, <2>2, <3>1, Ends DEF Decides, Calling, Held
  <2>4. QED
    BY <2>3, Ends
<1>4. CASE WaitAll \/ WaitMore
  <2>1. /\ at["pc"].do \in {"idle", "all"} /\ UNCHANGED <<ring, out, fifo, calls, pushes>>
        /\ WaitOne("pc", "all") \/ GoTo("pc", "idle")
    BY <1>4 DEF WaitAll, WaitMore
  <2>2. CASE WaitOne("pc", "all")
    BY <2>1, <2>2, WaitOneMoves, Ends DEF Quiet, Calling, Held, Stocked, Stock
  <2>3. CASE GoTo("pc", "idle")
    BY <2>1, <2>3, GoToMoves, Ends DEF Quiet, Calling, Held, Stocked, Stock
  <2>4. QED
    BY <2>1, <2>2, <2>3
<1>5. CASE FlushTry
  <2>1. at["pc"].do = "idle" /\ GoTo("pc", "try") /\ UNCHANGED <<ring, out, fifo, calls, pushes>>
    BY <1>5 DEF FlushTry
  <2>2. QED
    BY <2>1, GoToMoves, Ends DEF Quiet, Calling, Held, Stocked, Stock
<1>6. CASE TryAll
  <2>1. \/ \E have, room : Handle("pc", have, room, at["pc"].do)
        \/ /\ at["pc"].do = "try" /\ GoTo("pc", "idle")
           /\ UNCHANGED <<ring, out, fifo, calls, pushes>>
    BY <1>6 DEF TryAll, Try
  <2>2. CASE \E have, room : Handle("pc", have, room, at["pc"].do)
    <3>1. at["pc"].do = "try"
      BY <1>6 DEF TryAll
    <3>2. QED
      BY <2>2, <3>1, HandlingAsks, Ends
  <2>3. CASE at["pc"].do = "try" /\ GoTo("pc", "idle") /\ UNCHANGED <<ring, out, fifo, calls, pushes>>
    BY <2>3, GoToMoves, Ends DEF Quiet, Calling, Held, Stocked, Stock
  <2>4. QED
    BY <2>1, <2>2, <2>3
<1>7. CASE BoardTry
  <2>1. at["mcu"].do = "idle" /\ \E have, room : Handle("mcu", have, room, at["mcu"].do)
    BY <1>7 DEF BoardTry, Try
  <2>2. QED
    BY <2>1, HandlingAsks, Ends
<1>8. CASE BoardPushed
  <2>1. at["mcu"].do = "push" /\ GoTo("mcu", "idle") /\ UNCHANGED <<ring, out, fifo, calls, pushes>>
    BY <1>8 DEF BoardPushed
  <2>2. QED
    BY <2>1, GoToMoves, Ends DEF Quiet, Calling, Held, Stocked, Stock
<1>9. ASSUME UNCHANGED <<at, ring, out, calls, pushes>>, \A p \in Peer : Stocked(p)
      PROVE  Quiet
  BY <1>9 DEF Quiet
<1>10. ASSUME NEW p \in Peer, Produce(p) \/ Consume(p) PROVE Quiet
  <2>1. UNCHANGED <<at, ring, out, calls, pushes>>
    BY <1>10 DEF Produce, Consume
  <2>2. fifo \in [Peer -> [Stream -> Seq(Nat)]] /\ FifoOf(p) \in Stream /\ FifoOf(Other(p)) \in Stream
        /\ FifoOf(p) # FifoOf(Other(p))
    BY DEF Fifos, FifoOf, Stream, Other
  <2>3. \E b : \/ fifo' = [fifo EXCEPT ![p][FifoOf(p)] = Append(@, b)]
              \/ fifo' = [fifo EXCEPT ![p][FifoOf(Other(p))] = Tail(@)]
    BY <1>10 DEF Produce, Consume
  <2>4. ASSUME NEW e \in Peer PROVE Stocked(e)
    <3>1. e # p => fifo'[e] = fifo[e]
      BY <2>2, <2>3
    <3>2. CASE e = p
      BY <2>2, <2>3, <3>2, ZenonT(40) DEF Stocked, Stock
    <3>3. QED
      BY <3>1, <3>2 DEF Stocked, Stock
  <2>5. QED
    BY <1>9, <2>1, <2>4
<1>11. CASE UsbReceive \/ UsbTransmit \/ UNCHANGED vars
  <2>1. UNCHANGED <<at, ring, out, fifo, calls, pushes>>
    BY <1>11 DEF UsbReceive, UsbTransmit, vars
  <2>2. QED
    BY <1>9, <2>1 DEF Stocked, Stock
<1>12. QED
  BY <1>1, <1>2, <1>3, <1>4, <1>5, <1>6, <1>7, <1>8, <1>10, <1>11, Ends DEF Next, Host, Board

(* The bounds on requests, and the ring's.                                 *)
LEMMA AskLengths ==
  /\ MaxCalls \in Nat /\ MaxPushes \in Nat
  /\ RingLength \in Nat /\ RingLength > 1
  /\ \A p : Asks(p) \in Nat
  /\ "pc" \in Keeps /\ \A p \in Keeps : p \in Peer
  BY BoundsAssumption, SizeAssumption, KeepsAssumption DEF Asks

(* The requests among the messages that p has sent, after a step.          *)
LEMMA OutAfterSend ==
  ASSUME Places, Memory, Traffic, NEW p \in Peer, Send(p)
  PROVE  /\ Outgoing(p) \in Message /\ ~Outgoing(p).ret
         /\ out' = [out EXCEPT ![p] = Append(out[p], Outgoing(p))]
         /\ out'[p] = Append(out[p], Outgoing(p))
         /\ \A e \in Peer : out[e] \in Seq(Message) /\ (e # p => out'[e] = out[e])
<1>1. at[p] \in Place
  BY DEF Places, PlaceOf
<1>2. Outgoing(p).data \in Seq(Values \cup Nat)
  <2> DEFINE has == fifo[p][FifoOf(p)]
             k == Smaller(at[p].len, Len(has))
  <2>1. value[p] \in Values /\ has \in Seq(Nat) /\ Len(has) \in Nat
    BY DEF Memory, Fifos, FifoOf, Stream
  <2>2. at[p].len \in Nat
    BY <1>1, Lengths DEF Place
  <2>3. k \in Nat /\ k <= Len(has)
    BY <2>1, <2>2 DEF Smaller
  <2>4. SubSeq(has, 1, k) \in Seq(Nat)
    BY <2>1, <2>3, Halves
  <2>5. SubSeq(has, 1, k) \in Seq(Values \cup Nat)
    <3>1. Nat \subseteq Values \cup Nat
      OBVIOUS
    <3>2. QED
      BY <2>4, <3>1, LargerSet, Zenon
  <2>6. <<value[p]>> \in Seq(Values \cup Nat) /\ <<>> \in Seq(Values \cup Nat)
    BY <2>1
  <2>7. \/ Outgoing(p).data = SubSeq(has, 1, k) \/ Outgoing(p).data = <<value[p]>>
        \/ Outgoing(p).data = <<>>
    BY DEF Outgoing, Request
  <2>8. QED
    BY <2>5, <2>6, <2>7
<1>3. Outgoing(p) \in Message /\ ~Outgoing(p).ret
  BY <1>1, <1>2 DEF Outgoing, Request, Message, Place
<1>4. out \in [Peer -> Seq(Message)] /\ out' = [out EXCEPT ![p] = Append(@, Outgoing(p))]
  BY DEF Traffic, Send
<1>5. QED
  BY <1>3, <1>4

(* The same when q handles a message m of the other end.                   *)
LEMMA OutAfterHandling ==
  ASSUME Memory, Traffic, NEW q \in Peer, Handled(q)
  PROVE  LET p == Other(q)
             m == Head(out[p])
         IN  /\ p \in Peer /\ p # q /\ out[p] # <<>> /\ m \in Good(p, made) /\ m \in Message
             /\ out[p] \in Seq(Message) /\ out[q] \in Seq(Message)
             /\ out'[p] = Tail(out[p]) /\ Tail(out[p]) \in Seq(Message)
             /\ m.ret => out'[q] = out[q]
             /\ ~m.ret => /\ AnswerTo(q, m) \in Message /\ AnswerTo(q, m).ret
                          /\ AnswerTo(q, m).type = m.type
                          /\ out'[q] = Append(out[q], AnswerTo(q, m))
<1> DEFINE p == Other(q)
           m == Head(out[p])
<1>1. p \in Peer /\ p # q
  BY DEF Other, Peer
<1>2. /\ out[p] # <<>>
      /\ out' = IF m.ret THEN [out EXCEPT ![p] = Tail(@)]
                ELSE [out EXCEPT ![p] = Tail(@), ![q] = Append(@, AnswerTo(q, m))]
  BY DEF Handled
<1>3. /\ out[p] \in Seq(Message) /\ out[q] \in Seq(Message) /\ out \in [Peer -> Seq(Message)]
      /\ out[p] \in Seq(Good(p, made))
  BY <1>1 DEF Traffic
<1>4. m \in Good(p, made)
  BY <1>2, <1>3
<1>5. m \in Message
  BY <1>4 DEF Good
<1>6. Tail(out[p]) \in Seq(Message)
  BY <1>2, <1>3
<1>7. ~m.ret => AnswerTo(q, m) \in Good(q, made)
  BY <1>4, AnswerGood
<1>8. ~m.ret => AnswerTo(q, m) \in Message
  BY <1>7 DEF Good
<1>9. ~m.ret => AnswerTo(q, m).ret /\ AnswerTo(q, m).type = m.type
  BY <1>5 DEF AnswerTo, Answer, Acknowledge, Message, Types
<1>10. out'[p] = Tail(out[p]) /\ (m.ret => out'[q] = out[q])
  <2> HIDE DEF m
  <2>1. QED
    BY <1>1, <1>2, <1>3
<1>11. ~m.ret => out'[q] = Append(out[q], AnswerTo(q, m))
  <2> HIDE DEF m
  <2>1. QED
    BY <1>1, <1>2, <1>3
<1>12. QED
  BY <1>1, <1>2, <1>3, <1>4, <1>5, <1>6, <1>8, <1>9, <1>10, <1>11

(* Requests are counted, and only those that ask make them.                *)
LEMMA AskingStep ==
  ASSUME Places, Memory, Traffic, Rings, Asking, [Next]_vars
  PROVE  Asking'
<1>1. /\ calls \in 0..MaxCalls /\ pushes \in 0..MaxPushes
      /\ \A p \in Keeps : Len(ring[p]) + (IF Calling(at[p]) THEN 1 ELSE 0) <= Asked(p)
  BY DEF Asking, Counted
<1>2. \A p \in Peer : ring[p] \in Seq(Heads) /\ Len(ring[p]) \in Nat /\ Len(ring[p]) < RingLength
  BY DEF Rings
<1>3. \A p \in Peer : out[p] \in Seq(Message)
  BY DEF Traffic
<1>4. \A p : Asked(p) \in Nat
  BY <1>1, AskLengths DEF Asked
<1>5. CASE Quiet
  <2>1. calls' = calls /\ pushes' = pushes /\ ring' = ring /\ out' = out
    BY <1>5 DEF Quiet
  <2>2. \A p \in Peer : Calling(at[p])' <=> Calling(at[p])
    BY <1>5 DEF Quiet
  <2>3. Counted'
    <3>1. \A p \in Keeps : Len(ring'[p]) + (IF Calling(at[p])' THEN 1 ELSE 0) <= Asked(p)'
      BY <1>1, <2>1, <2>2, AskLengths DEF Asked
    <3>2. QED
      BY <1>1, <2>1, <3>1 DEF Counted
  <2>4. Silent'
    BY <2>1, <2>2 DEF Asking, Silent
  <2>5. Gap'
    <3> SUFFICES ASSUME NEW p \in Keeps, Asks(Other(p)) = 0, at'[p].do = "room"
                 PROVE  Len(ring'[p]) < RingLength - 1
      BY DEF Gap, Asks
    <3>1. p \in Peer
      BY AskLengths
    <3>2. CASE at[p].do = "room"
      BY <2>1, <3>2 DEF Asking, Gap
    <3>3. CASE at[p].do # "room"
      <4>1. ~RingFull(p)
        BY <1>5, <3>1, <3>3 DEF Quiet
      <4>2. QED
        BY <1>2, <2>1, <3>1, <4>1, AskLengths DEF RingFull
    <3>4. QED
      BY <3>2, <3>3
  <2>6. QED
    BY <2>3, <2>4, <2>5 DEF Asking
<1>6. ASSUME NEW p \in Peer, Decides(p) PROVE Asking'
  <2>1. /\ ring' = ring /\ out' = out /\ ~Calling(at[p]) /\ Calling(at[p])' /\ at'[p].do # "room"
        /\ \A e \in Peer : e # p => at'[e] = at[e]
        /\ Asks(p) > 0 /\ Asked(p)' = Asked(p) + 1
        /\ \A e \in Peer : e # p => Asked(e)' = Asked(e)
        /\ calls' \in 0..MaxCalls /\ pushes' \in 0..MaxPushes
    <3>1. CASE p = "pc"
      <4>1. calls < MaxCalls /\ calls' = calls + 1 /\ pushes' = pushes
        BY <1>6, <3>1 DEF Decides
      <4>2. Asked(p)' = Asked(p) + 1 /\ Asks(p) > 0
        BY <1>1, <3>1, <4>1, AskLengths DEF Asked, Asks
      <4>3. \A e \in Peer : e # p => Asked(e)' = Asked(e)
        BY <3>1, <4>1 DEF Asked
      <4>4. QED
        BY <1>1, <1>6, <4>1, <4>2, <4>3, AskLengths DEF Decides
    <3>2. CASE p # "pc"
      <4>1. pushes > 0 /\ pushes' = pushes - 1 /\ calls' = calls
        BY <1>6, <3>2 DEF Decides
      <4>2. Asked(p)' = Asked(p) + 1 /\ Asks(p) > 0
        BY <1>1, <3>2, <4>1, AskLengths DEF Asked, Asks
      <4>3. \A e \in Peer : e # p => Asked(e)' = Asked(e)
        BY <3>2, <4>1 DEF Asked, Peer
      <4>4. QED
        BY <1>1, <1>6, <4>1, <4>2, <4>3, AskLengths DEF Decides
    <3>3. QED
      BY <3>1, <3>2
  <2>2. Counted'
    <3>1. ASSUME NEW e \in Keeps
          PROVE  Len(ring'[e]) + (IF Calling(at[e])' THEN 1 ELSE 0) <= Asked(e)'
      <4>1. e \in Peer
        BY AskLengths
      <4>2. CASE e = p
        <5>1. Len(ring[p]) <= Asked(p) /\ Len(ring[p]) \in Nat /\ Asked(p) \in Nat
          <6>1. Len(ring[p]) + 0 <= Asked(p)
            BY <1>1, <2>1, <4>2
          <6>2. QED
            BY <1>2, <1>4, <6>1
        <5>2. Len(ring[p]) + 1 <= Asked(p) + 1
          BY <5>1
        <5>3. (IF Calling(at[e])' THEN 1 ELSE 0) = 1
          BY <2>1, <4>2
        <5>4. ring'[e] = ring[p] /\ Asked(e)' = Asked(p) + 1
          BY <2>1, <4>2
        <5>5. QED
          BY <5>2, <5>3, <5>4
      <4>3. CASE e # p
        BY <1>1, <1>2, <1>4, <2>1, <4>1, <4>3
      <4>4. QED
        BY <4>2, <4>3
    <3>2. QED
      BY <2>1, <3>1 DEF Counted
  <2>3. Silent'
    <3>1. ASSUME NEW e \in Peer, Asks(e) = 0
          PROVE  Requests(out'[e]) = <<>> /\ ~Calling(at[e])'
      BY <2>1, <3>1 DEF Asking, Silent
    <3>2. QED
      BY <3>1 DEF Silent, Asks
  <2>4. Gap'
    <3>1. ASSUME NEW e \in Keeps, Asks(Other(e)) = 0, at'[e].do = "room"
          PROVE  Len(ring'[e]) < RingLength - 1
      BY <2>1, <3>1, AskLengths DEF Asking, Gap
    <3>2. QED
      BY <3>1 DEF Gap, Asks
  <2>5. QED
    BY <2>2, <2>3, <2>4 DEF Asking
<1>7. ASSUME NEW p \in Peer, Sends(p) PROVE Asking'
  <2>1. /\ Send(p) /\ ~Calling(at[p])' /\ at'[p].do # "room" /\ Calling(at[p])
        /\ \A e \in Peer : e # p => at'[e] = at[e]
        /\ calls' = calls /\ pushes' = pushes
    BY <1>7 DEF Sends, Send, Calling
  <2>2. /\ \A e \in Peer : e # p => out'[e] = out[e]
    BY <2>1, OutAfterSend
  <2>3. /\ \A e \in Peer : e # p => ring'[e] = ring[e]
        /\ p \in Keeps => Len(ring'[p]) <= Len(ring[p]) + 1
    <3>1. PICK h : ring' = ring \/ ring' = [ring EXCEPT ![p] = PutHead(@, h)]
      BY <2>1 DEF Send
    <3>2. PutHead(ring[p], h) = <<>> \/ PutHead(ring[p], h) = Append(ring[p], h)
      BY DEF PutHead
    <3>3. Len(<<>>) = 0 /\ Len(Append(ring[p], h)) = Len(ring[p]) + 1
      BY <1>2
    <3>4. Len(PutHead(ring[p], h)) <= Len(ring[p]) + 1
      BY <1>2, <3>2, <3>3
    <3>5. DOMAIN ring = Peer
      BY DEF Rings
    <3>6. QED
      BY <1>2, <3>1, <3>4, <3>5
  <2>4. Counted'
    <3>1. ASSUME NEW e \in Keeps
          PROVE  Len(ring'[e]) + (IF Calling(at[e])' THEN 1 ELSE 0) <= Asked(e)'
      <4>1. e \in Peer /\ Asked(e)' = Asked(e)
        BY <2>1, AskLengths DEF Asked
      <4>2. CASE e = p
        <5>1. Len(ring'[p]) <= Asked(p)
          <6>1. Len(ring'[p]) \in Nat
            BY RingsStep DEF Rings
          <6>2. Len(ring[p]) + 1 <= Asked(p)
            BY <1>1, <2>1, <4>2
          <6>3. Len(ring'[p]) <= Len(ring[p]) + 1
            BY <2>3, <4>2
          <6>4. Len(ring[p]) \in Nat /\ Asked(p) \in Nat
            BY <1>2, <1>4
          <6>5. QED
            BY <6>1, <6>2, <6>3, <6>4
        <5>2. Len(ring'[p]) \in Nat
          BY RingsStep DEF Rings
        <5>3. (IF Calling(at[e])' THEN 1 ELSE 0) = 0
          BY <2>1, <4>2
        <5>4. Asked(e)' = Asked(p)
          BY <4>1, <4>2
        <5>5. Len(ring'[p]) + 0 <= Asked(p)
          BY <5>1, <5>2
        <5>6. Len(ring'[e]) = Len(ring'[p])
          BY <4>2
        <5>7. QED
          BY <5>3, <5>4, <5>5, <5>6
      <4>3. CASE e # p
        BY <1>1, <2>1, <2>3, <4>1, <4>3
      <4>4. QED
        BY <4>2, <4>3
    <3>2. QED
      BY <1>1, <2>1, <3>1 DEF Counted
  <2>5. Silent'
    <3>1. ASSUME NEW e \in Peer, Asks(e) = 0
          PROVE  Requests(out'[e]) = <<>> /\ ~Calling(at[e])'
      BY <2>1, <2>2, <3>1 DEF Asking, Silent
    <3>2. QED
      BY <3>1 DEF Silent, Asks
  <2>6. Gap'
    <3>1. ASSUME NEW e \in Keeps, Asks(Other(e)) = 0, at'[e].do = "room"
          PROVE  Len(ring'[e]) < RingLength - 1
      BY <2>1, <2>3, <3>1, AskLengths DEF Asking, Gap
    <3>2. QED
      BY <3>1 DEF Gap, Asks
  <2>7. QED
    BY <2>4, <2>5, <2>6 DEF Asking
<1>8. ASSUME NEW q \in Peer, Handles(q) PROVE Asking'
  <2> DEFINE p == Other(q)
             m == Head(out[p])
  <2>1. /\ Handled(q) /\ calls' = calls /\ pushes' = pushes
        /\ \A e \in Peer : Calling(at[e])' <=> Calling(at[e])
        /\ \A e \in Peer : e # q => at'[e] = at[e]
    BY <1>8 DEF Handles
  <2>2. /\ p \in Peer /\ p # q /\ out[p] # <<>> /\ m \in Message
        /\ out[p] \in Seq(Message) /\ out[q] \in Seq(Message)
        /\ out'[p] = Tail(out[p])
        /\ m.ret => out'[q] = out[q]
        /\ ~m.ret => /\ AnswerTo(q, m) \in Message /\ AnswerTo(q, m).ret
                     /\ out'[q] = Append(out[q], AnswerTo(q, m))
    BY <2>1, OutAfterHandling
  <2>3. \A e \in Peer : e = p \/ e = q
    BY DEF Other, Peer
  <2>4. Requests(out'[q]) = Requests(out[q])
    <3>1. CASE m.ret
      BY <2>2, <3>1
    <3>2. CASE ~m.ret
      <4>1. PICK a : a = AnswerTo(q, m)
        OBVIOUS
      <4>2. a \in Message /\ a.ret /\ out'[q] = Append(out[q], a)
        BY <2>2, <3>2, <4>1
      <4>3. QED
        BY <2>2, <4>2, ListsAppend
    <3>3. QED
      BY <3>1, <3>2
  <2>5. Requests(out[p]) = <<>> => m.ret /\ Requests(out'[p]) = <<>>
    <3>1. Requests(out[p]) = IF m.ret THEN Requests(Tail(out[p]))
                             ELSE <<m>> \o Requests(Tail(out[p]))
      BY <2>2, ListsTail
    <3>2. Requests(Tail(out[p])) \in Seq(Message)
      BY <2>2, ListsTail, ListTypes
    <3>3. <<m>> \o Requests(Tail(out[p])) # <<>>
      BY <2>2, <3>2
    <3>4. QED
      BY <2>2, <3>1, <3>3
  <2>6. /\ ring' = IF m.ret /\ q \in Keeps THEN [ring EXCEPT ![q] = Tail(@)] ELSE ring
        /\ m.ret /\ q \in Keeps => ring[q] # <<>>
    BY <2>1 DEF Handled, Apply, AssertionOn
  <2>7. /\ \A e \in Peer : e # q => ring'[e] = ring[e]
        /\ Len(ring'[q]) <= Len(ring[q]) /\ Len(ring'[q]) \in Nat
        /\ m.ret /\ q \in Keeps => Len(ring'[q]) = Len(ring[q]) - 1
    <3>1. ring[q] # <<>> => Len(Tail(ring[q])) = Len(ring[q]) - 1 /\ Len(Tail(ring[q])) \in Nat
      BY <1>2
    <3>2. DOMAIN ring = Peer
      BY DEF Rings
    <3> HIDE DEF m
    <3>3. QED
      BY <1>2, <2>6, <3>1, <3>2
  <2>8. Counted'
    <3>1. ASSUME NEW e \in Keeps
          PROVE  Len(ring'[e]) + (IF Calling(at[e])' THEN 1 ELSE 0) <= Asked(e)'
      <4>1. e \in Peer /\ Asked(e)' = Asked(e)
        BY <2>1, AskLengths DEF Asked
      <4>2. Len(ring'[e]) <= Len(ring[e]) /\ Len(ring'[e]) \in Nat
        BY <1>2, <2>7, <4>1
      <4>3. PICK c \in {0, 1} : /\ c = IF Calling(at[e]) THEN 1 ELSE 0
                               /\ c = IF Calling(at[e])' THEN 1 ELSE 0
        <5>1. CASE Calling(at[e])
          BY <2>1, <4>1, <5>1
        <5>2. CASE ~Calling(at[e])
          BY <2>1, <4>1, <5>2
        <5>3. QED
          BY <5>1, <5>2
      <4>4. Len(ring[e]) + c <= Asked(e)
        BY <1>1, <4>3
      <4>5. Len(ring[e]) \in Nat /\ Asked(e) \in Nat
        BY <1>2, <1>4, <4>1
      <4>6. Len(ring'[e]) + c <= Asked(e)
        BY <4>2, <4>4, <4>5
      <4>7. QED
        BY <4>1, <4>3, <4>6
    <3>2. QED
      BY <1>1, <2>1, <3>1 DEF Counted
  <2>9. Silent'
    <3>1. ASSUME NEW e \in Peer, Asks(e) = 0
          PROVE  Requests(out'[e]) = <<>> /\ ~Calling(at[e])'
      <4>1. Requests(out[e]) = <<>> /\ ~Calling(at[e])
        BY <3>1 DEF Asking, Silent
      <4> HIDE DEF p, m
      <4>2. QED
        BY <2>1, <2>3, <2>4, <2>5, <4>1
    <3>2. QED
      BY <3>1 DEF Silent, Asks
  <2>10. Gap'
    <3>1. ASSUME NEW e \in Keeps, Asks(Other(e)) = 0, at'[e].do = "room"
          PROVE  Len(ring'[e]) < RingLength - 1
      <4>1. e \in Peer
        BY AskLengths
      <4>2. CASE e = q
        <5>1. m.ret
          BY <2>2, <2>5, <3>1, <4>2 DEF Asking, Silent
        <5>2. Len(ring'[q]) = Len(ring[q]) - 1 /\ Len(ring[q]) < RingLength
          BY <1>2, <2>7, <4>2, <5>1
        <5>3. QED
          BY <1>2, <2>7, <4>2, <5>2, AskLengths
      <4>3. CASE e # q
        BY <2>1, <2>7, <3>1, <4>1, <4>3 DEF Asking, Gap
      <4>4. QED
        BY <4>2, <4>3
    <3>2. QED
      BY <3>1 DEF Gap, Asks
  <2>11. QED
    BY <2>8, <2>9, <2>10 DEF Asking
<1>9. QED
  BY <1>5, <1>6, <1>7, <1>8, AskSteps DEF Memory

-----------------------------------------------------------------------------
(* The ring and the traffic.                                               *)

(* m is head h's request, or its answer.                                   *)
Matches(h, m) ==
  /\ h.type = m.type
  /\ IF m.type = "read_fifo" /\ m.ret THEN m.len <= h.len ELSE m.len = h.len

Fits(r, u) ==
  /\ Len(r) = Len(u)
  /\ \A i \in 1..Len(r) : Matches(r[i], u[i])

Awaits == \A p \in Keeps : Fits(ring[p], Unanswered(p))

(* A sequence with one element more.                                       *)
LEMMA OneMore ==
  /\ \A S : \A s \in Seq(S) : \A x \in S : Append(s, x) \in Seq(S)
  /\ \A S : \A s \in Seq(S) : \A x \in S : <<x>> \o s \in Seq(S)
<1>1. ASSUME NEW S, NEW s \in Seq(S), NEW x \in S
      PROVE  Append(s, x) \in Seq(S)
  OBVIOUS
<1>2. ASSUME NEW S, NEW s \in Seq(S), NEW x \in S
      PROVE  <<x>> \o s \in Seq(S)
  OBVIOUS
<1>3. QED
  BY <1>1, <1>2, Zenon

(* A head more, and its request.                                           *)
LEMMA FitsAppend ==
  ASSUME NEW H, NEW M, NEW r \in Seq(H), NEW u \in Seq(M), NEW h \in H, NEW m \in M,
         Fits(r, u), Matches(h, m)
  PROVE  Fits(Append(r, h), Append(u, m))
<1>1. PICK n \in Nat : n = Len(r) /\ n = Len(u)
  BY DEF Fits
<1>2. /\ Len(Append(r, h)) = n + 1 /\ Len(Append(u, m)) = n + 1
      /\ Append(r, h)[n + 1] = h /\ Append(u, m)[n + 1] = m
      /\ \A i \in 1..n : Append(r, h)[i] = r[i] /\ Append(u, m)[i] = u[i]
  <2>1. /\ Len(Append(r, h)) = Len(r) + 1 /\ Append(r, h)[Len(r) + 1] = h
        /\ \A i \in 1..Len(r) : Append(r, h)[i] = r[i]
    OBVIOUS
  <2>2. /\ Len(Append(u, m)) = Len(u) + 1 /\ Append(u, m)[Len(u) + 1] = m
        /\ \A i \in 1..Len(u) : Append(u, m)[i] = u[i]
    OBVIOUS
  <2>3. PICK r1, u1 : r1 = Append(r, h) /\ u1 = Append(u, m)
    OBVIOUS
  <2>4. /\ Len(r1) = n + 1 /\ r1[n + 1] = h /\ \A i \in 1..n : r1[i] = r[i]
        /\ Len(u1) = n + 1 /\ u1[n + 1] = m /\ \A i \in 1..n : u1[i] = u[i]
    BY <1>1, <2>1, <2>2, <2>3
  <2>5. QED
    BY <2>3, <2>4, Zenon
<1>3. PICK r1, u1 : r1 = Append(r, h) /\ u1 = Append(u, m)
  OBVIOUS
<1>4. ASSUME NEW i \in 1..(n + 1) PROVE Matches(r1[i], u1[i])
  <2>1. i \in 1..n \/ i = n + 1
    OBVIOUS
  <2>2. i \in 1..n => Matches(r[i], u[i])
    BY <1>1 DEF Fits
  <2>3. QED
    BY <1>2, <1>3, <2>1, <2>2
<1>5. QED
  BY <1>2, <1>3, <1>4 DEF Fits

(* The oldest head, and its answer.                                        *)
LEMMA FitsTail ==
  ASSUME NEW H, NEW M, NEW r \in Seq(H), NEW u \in Seq(M), NEW m \in M,
         Fits(r, <<m>> \o u)
  PROVE  r # <<>> /\ Matches(Head(r), m) /\ Fits(Tail(r), u)
<1>1. PICK n \in Nat : n = Len(u)
  OBVIOUS
<1>2. PICK v : v = <<m>> \o u
  OBVIOUS
<1>3. Len(v) = n + 1 /\ v[1] = m /\ \A i \in 1..n : v[i + 1] = u[i]
  BY <1>1, <1>2
<1>4. Len(r) = n + 1 /\ \A i \in 1..(n + 1) : Matches(r[i], v[i])
  BY <1>2, <1>3 DEF Fits
<1>5. r # <<>> /\ Head(r) = r[1] /\ Len(Tail(r)) = n /\ \A i \in 1..n : Tail(r)[i] = r[i + 1]
  BY <1>4
<1>6. PICK t : t = Tail(r)
  OBVIOUS
<1>7. ASSUME NEW i \in 1..n PROVE Matches(t[i], u[i])
  <2>1. PICK j : j = i + 1
    OBVIOUS
  <2>2. j \in 1..(n + 1) /\ t[i] = r[j] /\ v[j] = u[i]
    BY <1>3, <1>5, <1>6, <2>1
  <2>3. QED
    BY <1>4, <2>2
<1>8. 1 \in 1..(n + 1)
  OBVIOUS
<1>9. Matches(Head(r), m)
  BY <1>3, <1>4, <1>5, <1>8
<1>10. QED
  BY <1>1, <1>5, <1>6, <1>7, <1>9 DEF Fits

(* A request in the middle gives way to its answer.                        *)
LEMMA FitsReplace ==
  ASSUME NEW H, NEW M, NEW r \in Seq(H), NEW a \in Seq(M), NEW b \in Seq(M),
         NEW m \in M, NEW s \in M,
         Fits(r, a \o (<<m>> \o b)), \A h \in H : Matches(h, m) => Matches(h, s)
  PROVE  Fits(r, Append(a, s) \o b)
<1>1. PICK n \in Nat, k \in Nat : n = Len(a) /\ k = Len(b)
  OBVIOUS
<1>2. PICK v, w : v = a \o (<<m>> \o b) /\ w = Append(a, s) \o b
  OBVIOUS
<1>3. PICK c \in Seq(M) : c = <<m>> \o b
  BY OneMore, Zenon
<1>4. Len(c) = k + 1 /\ c[1] = m /\ \A i \in 1..k : c[i + 1] = b[i]
  BY <1>1, <1>3
<1>5. PICK d \in Seq(M) : d = Append(a, s)
  BY OneMore, Zenon
<1>6. Len(d) = n + 1 /\ d[n + 1] = s /\ \A i \in 1..n : d[i] = a[i]
  BY <1>1, <1>5
<1>7. /\ Len(v) = n + k + 1
      /\ \A i \in 1..n : v[i] = a[i]
      /\ \A i \in 1..(k + 1) : v[n + i] = c[i]
  BY <1>1, <1>2, <1>3, <1>4
<1>8. /\ Len(w) = n + k + 1
      /\ \A i \in 1..(n + 1) : w[i] = d[i]
      /\ \A i \in 1..k : w[(n + 1) + i] = b[i]
  BY <1>1, <1>2, <1>5, <1>6
<1>9. Len(r) = n + k + 1 /\ \A i \in 1..(n + k + 1) : Matches(r[i], v[i]) /\ r[i] \in H
  BY <1>2, <1>7 DEF Fits
<1>10. ASSUME NEW i \in 1..(n + k + 1) PROVE Matches(r[i], w[i])
  <2>1. CASE i <= n
    <3>1. i \in 1..n /\ i \in 1..(n + 1)
      BY <2>1
    <3>2. w[i] = v[i]
      BY <1>6, <1>7, <1>8, <3>1
    <3>3. QED
      BY <1>9, <3>2
  <2>2. CASE i = n + 1
    <3>1. i \in 1..(n + 1) /\ 1 \in 1..(k + 1) /\ i = n + 1
      BY <2>2
    <3>2. w[i] = s /\ v[i] = m
      BY <1>4, <1>6, <1>7, <1>8, <3>1
    <3>3. QED
      BY <1>9, <3>2
  <2>3. CASE i > n + 1
    <3>1. PICK j : j = i - (n + 1)
      OBVIOUS
    <3>2. j \in 1..k /\ j + 1 \in 1..(k + 1) /\ i = (n + 1) + j /\ i = n + (j + 1)
      BY <2>3, <3>1
    <3>3. w[i] = b[j] /\ v[i] = c[j + 1]
      BY <1>7, <1>8, <3>2
    <3>4. w[i] = v[i]
      BY <1>4, <3>2, <3>3
    <3>5. QED
      BY <1>9, <3>4
  <2>4. QED
    BY <2>1, <2>2, <2>3
<1>11. Fits(r, w)
  BY <1>8, <1>9, <1>10 DEF Fits
<1>12. QED
  BY <1>2, <1>11

(* The head of a request is there when its answer is made.                 *)
LEMMA AnswerMatches ==
  ASSUME Memory, NEW q \in Peer, NEW m \in Good(Other(q), made), ~m.ret,
         NEW h \in Heads, Matches(h, m)
  PROVE  Matches(h, AnswerTo(q, m))
<1>1. /\ m.type \in Types /\ h.type = m.type /\ h.len = m.len
      /\ m.type = "read" => m.len = 1
      /\ m.type = "clear_fifo" => m.len = 0
  BY DEF Good, Message, Matches
<1>2. AnswerTo(q, m) \in Good(q, made)
  BY AnswerGood
<1>3. CASE m.type = "read_fifo"
  <2> DEFINE has == fifo[q]["up"]
             k == Smaller(m.len, Len(has))
  <2>1. has \in Seq(Nat) /\ Len(has) \in Nat /\ m.len \in Nat
    <3>1. m.len \in 0..FifoLength
      BY DEF Good, Message
    <3>2. QED
      BY <3>1, Lengths, Ends DEF Memory, Fifos
  <2>2. k \in Nat /\ k <= Len(has) /\ k <= m.len
    BY <2>1 DEF Smaller
  <2>3. Len(SubSeq(has, 1, k)) = k
    BY <2>1, <2>2, Halves
  <2>4. AnswerTo(q, m) = Answer("read_fifo", SubSeq(has, 1, k))
    BY <1>3 DEF AnswerTo
  <2>5. /\ AnswerTo(q, m).type = "read_fifo" /\ AnswerTo(q, m).ret
        /\ AnswerTo(q, m).len = k
    <3>1. PICK d : d = SubSeq(has, 1, k)
      OBVIOUS
    <3>2. AnswerTo(q, m) = [type |-> "read_fifo", ret |-> TRUE, len |-> Len(d), data |-> d]
      BY <2>4, <3>1 DEF Answer
    <3>3. Len(d) = k
      BY <2>3, <3>1
    <3> HIDE DEF has, k
    <3>4. QED
      BY <3>2, <3>3
  <2>6. QED
    BY <1>1, <1>3, <2>2, <2>5 DEF Matches
<1>4. CASE m.type = "read"
  <2>1. AnswerTo(q, m).type = "read" /\ AnswerTo(q, m).len = 1
    BY <1>2, <1>4 DEF AnswerTo, Answer, Good
  <2>2. QED
    BY <1>1, <1>4, <2>1 DEF Matches
<1>5. CASE m.type \in {"write", "write_fifo", "clear_fifo"}
  <2>1. AnswerTo(q, m).type = m.type /\ AnswerTo(q, m).len = m.len
    BY <1>1, <1>5 DEF AnswerTo, Acknowledge
  <2>2. QED
    BY <1>1, <1>5, <2>1 DEF Matches
<1>6. QED
  BY <1>1, <1>3, <1>4, <1>5 DEF Types

(* There is a place in the ring for every request that is sent.            *)
LEMMA RoomInRing ==
  ASSUME RingsSuffice, Rings, Asking, NEW p \in Keeps, at[p].do = "room"
  PROVE  Len(ring[p]) + 1 < RingLength /\ Len(ring[p]) \in Nat
<1>1. p \in Peer /\ Len(ring[p]) \in Nat /\ RingLength \in Nat
  BY AskLengths DEF Rings
<1>2. CASE Asks(p) < RingLength
  <2>1. Len(ring[p]) + 1 <= Asked(p)
    BY DEF Asking, Counted, Calling
  <2>2. Asked(p) \in Nat /\ Asked(p) <= Asks(p) /\ Asks(p) \in Nat
    BY AskLengths DEF Asking, Counted, Asked, Asks
  <2>3. QED
    BY <1>1, <1>2, <2>1, <2>2
<1>3. CASE Asks(Other(p)) = 0
  <2>1. Len(ring[p]) < RingLength - 1
    BY <1>3 DEF Asking, Gap
  <2>2. QED
    BY <1>1, <2>1
<1>4. QED
  BY <1>2, <1>3 DEF RingsSuffice

(* The answers and requests that matter to a ring.                         *)
LEMMA TrafficTypes ==
  ASSUME Traffic, NEW p \in Peer
  PROVE  /\ Other(p) \in Peer /\ Other(p) # p /\ Other(Other(p)) = p
         /\ out[p] \in Seq(Message) /\ out[Other(p)] \in Seq(Message)
         /\ Answers(out[Other(p)]) \in Seq(Message) /\ Requests(out[p]) \in Seq(Message)
         /\ Unanswered(p) \in Seq(Message)
<1>1. Other(p) \in Peer /\ Other(p) # p /\ Other(Other(p)) = p
  BY DEF Other, Peer
<1>2. out[p] \in Seq(Message) /\ out[Other(p)] \in Seq(Message)
  BY <1>1 DEF Traffic
<1>3. Answers(out[Other(p)]) \in Seq(Message) /\ Requests(out[p]) \in Seq(Message)
  BY <1>2, ListTypes
<1>4. QED
  BY <1>1, <1>2, <1>3 DEF Unanswered

(* p sends: its ring gets the head of the request behind the others.       *)
LEMMA SendAwaits ==
  ASSUME RingsSuffice, Places, Memory, Traffic, Rings, Asking, Awaits,
         NEW p \in Peer, Send(p)
  PROVE  Awaits'
<1> DEFINE m == Outgoing(p)
<1>1. /\ m \in Message /\ ~m.ret /\ out'[p] = Append(out[p], m)
      /\ \A e \in Peer : out[e] \in Seq(Message) /\ (e # p => out'[e] = out[e])
  BY OutAfterSend
<1>2. PICK h : h = [type |-> m.type, len |-> m.len]
  OBVIOUS
<1>3. h \in Heads /\ Matches(h, m)
  <2>1. h \in Heads
    BY <1>2, HeadSent
  <2>2. h.type = m.type /\ h.len = m.len
    BY <1>2
  <2>3. QED
    BY <1>1, <2>1, <2>2 DEF Matches
<1>4. ring' = IF p \notin Keeps THEN ring ELSE [ring EXCEPT ![p] = PutHead(@, h)]
  BY <1>2 DEF Send
<1>5. at[p].do = "room"
  BY DEF Send
<1> HIDE DEF m
<1>6. Requests(Append(out[p], m)) = Append(Requests(out[p]), m)
      /\ Answers(Append(out[p], m)) = Answers(out[p])
  BY <1>1, ListsAppend
<1> SUFFICES ASSUME NEW e \in Keeps PROVE Fits(ring'[e], Unanswered(e)')
  BY DEF Awaits
<1>7. e \in Peer /\ Fits(ring[e], Unanswered(e)) /\ ring[e] \in Seq(Heads)
  BY AskLengths DEF Awaits, Rings
<1>8. /\ Other(e) \in Peer /\ Other(e) # e /\ Unanswered(e) \in Seq(Message)
      /\ Answers(out[Other(e)]) \in Seq(Message) /\ Requests(out[e]) \in Seq(Message)
  BY <1>7, TrafficTypes
<1>9. CASE e = p
  <2>1. Len(ring[e]) + 1 < RingLength /\ Len(ring[e]) \in Nat
    BY <1>5, <1>9, RoomInRing
  <2>2. PutHead(ring[e], h) = Append(ring[e], h)
    BY <2>1, AskLengths DEF PutHead
  <2>3. ring'[e] = Append(ring[e], h)
    BY <1>4, <1>9, <2>2 DEF Rings
  <2>4. Unanswered(e)' = Answers(out[Other(e)]) \o Append(Requests(out[e]), m)
    BY <1>1, <1>6, <1>8, <1>9 DEF Unanswered
  <2>5. Unanswered(e)' = Append(Unanswered(e), m)
    <3>1. PICK a \in Seq(Message), b \in Seq(Message) :
             a = Answers(out[Other(e)]) /\ b = Requests(out[e])
      BY <1>8
    <3>2. a \o Append(b, m) = Append(a \o b, m)
      <4>1. PICK c \in Seq(Message) : c = <<m>>
        <5>1. <<m>> \in Seq(Message)
          BY <1>1
        <5>2. QED
          BY <5>1, Zenon
      <4>2. (a \o b) \o c = a \o (b \o c)
        BY Associative, SMTT(30)
      <4>3. Append(b, m) = b \o c /\ Append(a \o b, m) = (a \o b) \o c
        BY <1>1, <4>1, AppendIsConcat, SMTT(30)
      <4>4. QED
        BY <4>2, <4>3
    <3>3. QED
      BY <2>4, <3>1, <3>2 DEF Unanswered
  <2>6. QED
    BY <1>1, <1>3, <1>7, <1>8, <2>3, <2>5, FitsAppend
<1>10. CASE e # p
  <2>1. p = Other(e)
    BY <1>7, <1>8, <1>10 DEF Peer
  <2>2. Unanswered(e)' = Unanswered(e)
    BY <1>1, <1>6, <1>7, <1>10, <2>1 DEF Unanswered
  <2>3. ring'[e] = ring[e]
    BY <1>4, <1>10 DEF Rings
  <2>4. QED
    BY <1>7, <2>2, <2>3
<1>11. QED
  BY <1>9, <1>10

(* q handles a message: an answer leaves with its head, a request becomes  *)
(* its answer.                                                             *)
LEMMA HandledAwaits ==
  ASSUME Memory, Traffic, Rings, Awaits, NEW q \in Peer, Handled(q)
  PROVE  Awaits'
<1> DEFINE p == Other(q)
           m == Head(out[p])
<1>1. /\ p \in Peer /\ p # q /\ out[p] # <<>> /\ m \in Good(p, made) /\ m \in Message
      /\ out[p] \in Seq(Message) /\ out[q] \in Seq(Message)
      /\ out'[p] = Tail(out[p]) /\ Tail(out[p]) \in Seq(Message)
      /\ m.ret => out'[q] = out[q]
      /\ ~m.ret => /\ AnswerTo(q, m) \in Message /\ AnswerTo(q, m).ret
                   /\ out'[q] = Append(out[q], AnswerTo(q, m))
  BY OutAfterHandling
<1>2. ring' = IF m.ret /\ q \in Keeps THEN [ring EXCEPT ![q] = Tail(@)] ELSE ring
  BY DEF Handled, Apply
<1>3. /\ Answers(out[p]) = IF m.ret THEN <<m>> \o Answers(Tail(out[p])) ELSE Answers(Tail(out[p]))
      /\ Requests(out[p]) = IF m.ret THEN Requests(Tail(out[p]))
                            ELSE <<m>> \o Requests(Tail(out[p]))
  BY <1>1, ListsTail
<1>4. Other(p) = q
  BY DEF Other, Peer
<1>5. ~m.ret => \A h \in Heads : Matches(h, m) => Matches(h, AnswerTo(q, m))
  BY <1>1, AnswerMatches
<1> HIDE DEF m
<1>6. PICK a : a = AnswerTo(q, m)
  OBVIOUS
<1>7. ~m.ret => /\ Answers(out'[q]) = Append(Answers(out[q]), a)
                /\ Requests(out'[q]) = Requests(out[q])
  BY <1>1, <1>6, ListsAppend
<1> SUFFICES ASSUME NEW e \in Keeps PROVE Fits(ring'[e], Unanswered(e)')
  BY DEF Awaits
<1>8. e \in Peer /\ Fits(ring[e], Unanswered(e)) /\ ring[e] \in Seq(Heads)
  BY AskLengths DEF Awaits, Rings
<1>9. /\ Other(e) \in Peer /\ Other(e) # e /\ Unanswered(e) \in Seq(Message)
      /\ Answers(out[Other(e)]) \in Seq(Message) /\ Requests(out[e]) \in Seq(Message)
  BY <1>8, TrafficTypes
<1>10. Answers(Tail(out[p])) \in Seq(Message) /\ Requests(Tail(out[p])) \in Seq(Message)
  BY <1>1, ListTypes
<1>11. e = p \/ e = q
  BY <1>1, <1>8 DEF Peer
<1>12. CASE m.ret
  <2>1. CASE e = q
    <3>1. ring'[e] = Tail(ring[e])
      BY <1>2, <1>8, <1>12, <2>1 DEF Rings
    <3>2. PICK b \in Seq(Message), r \in Seq(Message) :
             b = Answers(Tail(out[p])) /\ r = Requests(out[q])
      BY <1>9, <1>10, <2>1
    <3>3. Unanswered(e) = (<<m>> \o b) \o r /\ Unanswered(e)' = b \o r
      BY <1>1, <1>3, <1>12, <2>1, <3>2 DEF Unanswered
    <3>4. PICK u \in Seq(Message) : u = b \o r
      <4>1. b \o r \in Seq(Message)
        OBVIOUS
      <4>2. QED
        BY <4>1, Zenon
    <3>5. PICK c \in Seq(Message) : c = <<m>>
      <4>1. <<m>> \in Seq(Message)
        BY <1>1
      <4>2. QED
        BY <4>1, Zenon
    <3>6. (c \o b) \o r = c \o (b \o r)
      BY Associative
    <3>7. Fits(ring[e], <<m>> \o u)
      BY <1>8, <3>3, <3>4, <3>5, <3>6
    <3>8. Fits(Tail(ring[e]), u)
      BY <1>1, <1>8, <3>7, FitsTail
    <3>9. QED
      BY <3>1, <3>3, <3>4, <3>8
  <2>2. CASE e = p
    <3>1. ring'[e] = ring[e]
      BY <1>1, <1>2, <1>8, <2>2 DEF Rings
    <3>2. Unanswered(e)' = Unanswered(e)
      <4>1. Requests(out'[p]) = Requests(out[p]) /\ out'[q] = out[q]
        BY <1>1, <1>3, <1>12
      <4>2. QED
        BY <1>4, <2>2, <4>1 DEF Unanswered
    <3>3. QED
      BY <1>8, <3>1, <3>2
  <2>3. QED
    BY <1>11, <2>1, <2>2
<1>13. CASE ~m.ret
  <2>0. ring' = ring
    BY <1>2, <1>13
  <2>1. CASE e = q
    <3>1. Unanswered(e)' = Unanswered(e)
      <4>1. Answers(out'[p]) = Answers(out[p]) /\ Requests(out'[q]) = Requests(out[q])
        BY <1>1, <1>3, <1>7, <1>13
      <4>2. QED
        BY <2>1, <4>1 DEF Unanswered
    <3>2. QED
      BY <1>8, <2>0, <3>1
  <2>2. CASE e = p
    <3>1. PICK b \in Seq(Message), r \in Seq(Message) :
             b = Answers(out[q]) /\ r = Requests(Tail(out[p]))
      BY <1>4, <1>9, <1>10, <2>2
    <3>2. Unanswered(e) = b \o (<<m>> \o r)
      BY <1>3, <1>4, <1>13, <2>2, <3>1 DEF Unanswered
    <3>3. Unanswered(e)' = Append(b, a) \o r
      BY <1>1, <1>4, <1>7, <1>13, <2>2, <3>1 DEF Unanswered
    <3>4. /\ a \in Message /\ m \in Message
          /\ \A h \in Heads : Matches(h, m) => Matches(h, a)
      BY <1>1, <1>5, <1>6, <1>13
    <3>5. Fits(ring[e], b \o (<<m>> \o r))
      BY <1>8, <3>2
    <3>6. Fits(ring[e], Append(b, a) \o r)
      BY <1>8, <3>4, <3>5, FitsReplace
    <3>7. QED
      BY <2>0, <3>3, <3>6
  <2>3. QED
    BY <1>11, <2>1, <2>2
<1>14. QED
  BY <1>12, <1>13

(* Every step of a running program keeps rings and traffic together.       *)
LEMMA AwaitsStep ==
  ASSUME RingsSuffice, Places, Memory, Traffic, Rings, Asking, Awaits, [Next]_vars
  PROVE  Awaits'
<1>1. ASSUME UNCHANGED <<ring, out>> PROVE Awaits'
  BY <1>1 DEF Awaits, Unanswered
<1>2. CASE Still
  BY <1>1, <1>2 DEF Still
<1>3. CASE \E type \in Calls : Call(type)
  BY <1>1, <1>3 DEF Call
<1>4. CASE \E p \in Peer : Send(p)
  BY <1>4, SendAwaits
<1>5. CASE \E q \in Peer : Handled(q)
  BY <1>5, HandledAwaits
<1>6. CASE \E p \in Peer : Produce(p) \/ Consume(p)
  BY <1>1, <1>6 DEF Produce, Consume
<1>7. QED
  BY <1>2, <1>3, <1>4, <1>5, <1>6, DataSteps

-----------------------------------------------------------------------------
(* The streams.                                                            *)

(* read_fifo is safe if the board never waits while it holds a request     *)
(* back, and if the PC's fifo has room for all that may be read: nothing   *)
(* in the code looks whether it has.                                       *)
ReadsFit ==
  "read_fifo" \in Calls => "mcu" \notin Keeps /\ MaxMade["up"] < FifoLength

(* An end that keeps no heads does not wait before it sends, and the bytes *)
(* of a write_fifo that has been decided on stay there until it is sent.   *)
Ready ==
  \A p \in Peer :
    /\ Held(at[p]) => p \in Keeps
    /\ Calling(at[p]) /\ at[p].type = "write_fifo" => at[p].len <= Len(Stock(p))

(* Handling a message takes nothing from them.                             *)
LEMMA HandledStock ==
  ASSUME ReadsFit, Memory, Traffic, NEW q \in Peer, Handled(q), q \in Keeps
  PROVE  Stock(q)' = Stock(q)
<1> DEFINE p == Other(q)
           m == Head(out[p])
<1>1. /\ p \in Peer /\ p # q /\ m \in Good(p, made) /\ m \in Message
  BY OutAfterHandling
<1>2. fifo' = [fifo EXCEPT ![q] = NewFifo(q, m)]
  BY DEF Handled, Apply
<1> HIDE DEF m
<1>3. /\ m.ret => m.type \in MayAsk(q)
      /\ ~m.ret => m.type \in MayAsk(p)
  <2>1. Other(p) = q
    BY DEF Other, Peer
  <2>2. QED
    BY <1>1, <2>1 DEF Good
<1>4. /\ fifo[q] \in [Stream -> Seq(Nat)] /\ DOMAIN fifo = Peer
      /\ FifoOf(q) \in Stream /\ FifoOf(p) \in Stream /\ FifoOf(p) # FifoOf(q)
  BY DEF Memory, Fifos, FifoOf, Stream, Other
<1>5. NewFifo(q, m)[FifoOf(q)] = fifo[q][FifoOf(q)]
  <2>1. CASE m.type \in {"write_fifo", "clear_fifo"} /\ ~m.ret
    BY <1>4, <2>1 DEF NewFifo
  <2>2. ~(m.type = "read_fifo" /\ ~m.ret)
    BY <1>1, <1>3, Ends DEF MayAsk, ReadsFit, Peer
  <2>3. CASE m.type = "read_fifo" /\ m.ret
    <3>1. q = "pc" /\ FifoOf(q) = "down" /\ "up" # "down"
      BY <1>3, <2>3, Ends DEF MayAsk, Peer
    <3>2. QED
      BY <1>4, <2>3, <3>1 DEF NewFifo
  <2>4. CASE /\ ~(m.type \in {"write_fifo", "clear_fifo"} /\ ~m.ret)
             /\ ~(m.type = "read_fifo" /\ ~m.ret) /\ ~(m.type = "read_fifo" /\ m.ret)
    BY <2>4 DEF NewFifo
  <2>5. QED
    BY <2>1, <2>2, <2>3, <2>4
<1>6. QED
  BY <1>2, <1>4, <1>5 DEF Stock

(* All steps keep it.                                                      *)
LEMMA ReadyStep ==
  ASSUME ReadsFit, Places, Memory, Traffic, Ready, [Next]_vars
  PROVE  Ready'
<1>1. \A p \in Peer : Stock(p) \in Seq(Nat) /\ Len(Stock(p)) \in Nat
  <2>1. \A p \in Peer : Stock(p) \in Seq(Nat)
    BY DEF Memory, Fifos, Stock, FifoOf, Stream
  <2>2. QED
    BY <2>1
<1>2. \A p \in Peer : at[p].len \in Nat
  <2>1. \A p \in Peer : at[p].len \in 0..FifoLength
    BY DEF Places, PlaceOf, Place
  <2>2. QED
    BY <2>1, Lengths
<1> SUFFICES ASSUME NEW e \in Peer
             PROVE  /\ Held(at'[e]) => e \in Keeps
                    /\ Calling(at'[e]) /\ at'[e].type = "write_fifo"
                         => at'[e].len <= Len(Stock(e)')
  BY DEF Ready
<1>3. /\ Held(at[e]) => e \in Keeps
      /\ Calling(at[e]) /\ at[e].type = "write_fifo" => at[e].len <= Len(Stock(e))
  BY DEF Ready
<1>4. CASE Quiet
  <2>1. /\ Calling(at'[e]) <=> Calling(at[e])
        /\ Calling(at[e]) => at'[e].type = at[e].type /\ at'[e].len = at[e].len
        /\ Held(at'[e]) => Held(at[e]) \/ e \in Keeps
        /\ Stocked(e)
    BY <1>4 DEF Quiet
  <2>2. Len(Stock(e)') = Len(Stock(e)) \/ Len(Stock(e)') = Len(Stock(e)) + 1
    <3>1. Stock(e)' = Stock(e) \/ \E b : Stock(e)' = Append(Stock(e), b)
      BY <2>1 DEF Stocked, Stock
    <3>2. \A b : Len(Append(Stock(e), b)) = Len(Stock(e)) + 1
      BY <1>1
    <3>3. QED
      BY <3>1, <3>2
  <2>3. QED
    BY <1>1, <1>2, <1>3, <2>1, <2>2
<1>5. ASSUME NEW p \in Peer, Decides(p)
      PROVE  /\ Held(at'[e]) => e \in Keeps
             /\ Calling(at'[e]) /\ at'[e].type = "write_fifo"
                  => at'[e].len <= Len(Stock(e)')
  <2>1. Stock(e)' = Stock(e)
    BY <1>5 DEF Decides, Stock
  <2>2. QED
    BY <1>3, <1>5, <2>1 DEF Decides
<1>6. ASSUME NEW p \in Peer, Sends(p)
      PROVE  /\ Held(at'[e]) => e \in Keeps
             /\ Calling(at'[e]) /\ at'[e].type = "write_fifo"
                  => at'[e].len <= Len(Stock(e)')
  <2>1. CASE e = p
    BY <1>6, <2>1 DEF Sends
  <2>2. CASE e # p
    <3>1. at'[e] = at[e]
      BY <1>6, <2>2 DEF Sends
    <3>2. fifo'[e] = fifo[e]
      <4>1. DOMAIN fifo = Peer
        BY DEF Memory, Fifos
      <4>2. QED
        BY <1>6, <2>2, <4>1 DEF Sends, Send
    <3>3. QED
      BY <1>3, <3>1, <3>2 DEF Stock
  <2>3. QED
    BY <2>1, <2>2
<1>7. ASSUME NEW q \in Peer, Handles(q)
      PROVE  /\ Held(at'[e]) => e \in Keeps
             /\ Calling(at'[e]) /\ at'[e].type = "write_fifo"
                  => at'[e].len <= Len(Stock(e)')
  <2>1. CASE e = q
    <3>1. /\ Handled(q) /\ ~Held(at'[e]) /\ (Calling(at'[e]) <=> Calling(at[e]))
          /\ Calling(at[e]) => Held(at[e])
          /\ Calling(at[e]) => at'[e].type = at[e].type /\ at'[e].len = at[e].len
      BY <1>7, <2>1 DEF Handles
    <3>2. q \in Keeps => Stock(q)' = Stock(q)
      BY <3>1, HandledStock
    <3>3. QED
      BY <1>3, <2>1, <3>1, <3>2
  <2>2. CASE e # q
    <3>1. at'[e] = at[e]
      BY <1>7, <2>2 DEF Handles
    <3>2. fifo'[e] = fifo[e]
      <4>1. DOMAIN fifo = Peer
        BY DEF Memory, Fifos
      <4>2. QED
        BY <1>7, <2>2, <4>1 DEF Handles, Handled, Apply
    <3>3. QED
      BY <1>3, <3>1, <3>2 DEF Stock
  <2>3. QED
    BY <2>1, <2>2
<1>8. QED
  BY <1>4, <1>5, <1>6, <1>7, AskSteps DEF Memory

(* Where the brackets are, when bytes are loaded into a message or taken   *)
(* out of it.                                                              *)
LEMMA Brackets ==
  \A S : \A a, b, c, d \in Seq(S) :
    /\ ((a \o d) \o b) \o c = (a \o (d \o b)) \o c
    /\ (a \o (b \o d)) \o c = (a \o b) \o (d \o c)
    /\ (a \o b) \o c = a \o (b \o c)
    /\ a \o b \in Seq(S) /\ (a \o b) \o c \in Seq(S)
    /\ a \o <<>> = a /\ <<>> \o a = a
<1> TAKE S
<1> TAKE a, b, c, d \in Seq(S)
<1>1. PICK ab \in Seq(S) : ab = a \o b
  <2>1. a \o b \in Seq(S)
    OBVIOUS
  <2>2. QED
    BY <2>1, Zenon
<1>2. (a \o d) \o b = a \o (d \o b) /\ a \o (b \o d) = ab \o d /\ (a \o b) \o c = a \o (b \o c)
  <2>1. (a \o d) \o b = a \o (d \o b)
    BY Associative, SMTT(30)
  <2>2. (a \o b) \o d = a \o (b \o d)
    BY Associative, SMTT(30)
  <2>3. (a \o b) \o c = a \o (b \o c)
    BY Associative, SMTT(30)
  <2>4. QED
    BY <1>1, <2>1, <2>2, <2>3
<1>3. (ab \o d) \o c = ab \o (d \o c)
  BY Associative, SMTT(30)
<1>4. ab \o c \in Seq(S)
  OBVIOUS
<1>5. a \o <<>> = a /\ <<>> \o a = a
  OBVIOUS
<1>6. QED
  BY <1>1, <1>2, <1>3, <1>4, <1>5

Increasing(s) == \A i \in 1..(Len(s) - 1) : s[i] < s[i + 1]

(* A higher one at the end.                                                *)
LEMMA IncreasingMore ==
  ASSUME NEW n \in Nat, NEW s \in Seq(1..n), Increasing(s)
  PROVE  /\ Increasing(Append(s, n + 1)) /\ Len(Append(s, n + 1)) = Len(s) + 1
<1>0. PICK l \in Nat : l = Len(s)
  OBVIOUS
<1>1. PICK t : t = Append(s, n + 1) /\ l = Len(s)
  BY <1>0
<1>2. Len(t) = l + 1 /\ t[l + 1] = n + 1 /\ \A i \in 1..l : t[i] = s[i]
  <2>1. /\ Len(Append(s, n + 1)) = Len(s) + 1 /\ Append(s, n + 1)[Len(s) + 1] = n + 1
        /\ \A i \in 1..Len(s) : Append(s, n + 1)[i] = s[i]
    <3>1. PICK k \in Nat : k = n + 1
      OBVIOUS
    <3>2. s \in Seq(Nat)
      <4>1. 1..n \subseteq Nat
        OBVIOUS
      <4>2. QED
        BY <4>1, LargerSet, Zenon
    <3>3. /\ Len(Append(s, k)) = Len(s) + 1 /\ Append(s, k)[Len(s) + 1] = k
          /\ \A i \in 1..Len(s) : Append(s, k)[i] = s[i]
      BY <3>2
    <3>4. QED
      BY <3>1, <3>3
  <2>2. QED
    BY <1>1, <2>1
<1>3. \A i \in 1..l : s[i] \in 1..n
  BY <1>1
<1>4. ASSUME NEW i \in 1..l PROVE t[i] < t[i + 1]
  <2>1. CASE i = l
    <3>1. t[i] \in 1..n /\ t[i + 1] = n + 1
      BY <1>2, <1>3, <2>1
    <3>2. QED
      BY <3>1
  <2>2. CASE i # l
    <3>1. i \in 1..(l - 1) /\ i + 1 \in 1..l
      BY <2>2
    <3>2. QED
      BY <1>1, <1>2, <3>1 DEF Increasing
  <2>3. QED
    BY <2>1, <2>2
<1>5. Increasing(t)
  BY <1>2, <1>4 DEF Increasing
<1>6. QED
  BY <1>1, <1>2, <1>5

(* What is left behind the first ones.                                     *)
LEMMA IncreasingRest ==
  ASSUME NEW n \in Nat, NEW a \in Seq(1..n), NEW b \in Seq(1..n), Increasing(a \o b)
  PROVE  Increasing(b) /\ Len(a \o b) = Len(a) + Len(b)
<1>0. PICK k \in Nat, l \in Nat : k = Len(a) /\ l = Len(b)
  OBVIOUS
<1>1. PICK s : s = a \o b /\ k = Len(a) /\ l = Len(b)
  BY <1>0
<1>2. Len(s) = k + l /\ \A i \in 1..l : s[k + i] = b[i]
  BY <1>1
<1>3. \A i \in 1..(k + l - 1) : s[i] < s[i + 1]
  BY <1>1, <1>2, SMTT(30) DEF Increasing
<1>4. ASSUME NEW i \in 1..(l - 1) PROVE b[i] < b[i + 1]
  <2>1. i \in 1..l /\ i + 1 \in 1..l /\ k + i \in 1..(k + l - 1) /\ (k + i) + 1 = k + (i + 1)
    OBVIOUS
  <2>2. s[k + i] < s[(k + i) + 1]
    BY <1>3, <2>1
  <2>3. QED
    BY <1>2, <2>1, <2>2
<1>5. QED
  BY <1>1, <1>2, <1>4 DEF Increasing

(* A stream, in its three parts.                                           *)
LEMMA TransitTypes ==
  ASSUME Memory, Traffic, NEW p \in Peer
  PROVE  LET f == FifoOf(p) IN
         /\ f \in Stream /\ Filler(f) = p /\ made[f] \in Nat
         /\ InTransit(f) = (fifo[Other(p)][f] \o Carried(out[p])) \o fifo[p][f]
         /\ fifo[Other(p)][f] \in Seq(1..made[f]) /\ fifo[p][f] \in Seq(1..made[f])
         /\ Carried(out[p]) \in Seq(1..made[f])
         /\ InTransit(f) \in Seq(1..made[f])
<1> DEFINE f == FifoOf(p)
<1>1. f \in Stream /\ Filler(f) = p /\ Other(p) \in Peer
  BY DEF FifoOf, Stream, Filler, Other, Peer
<1>2. InTransit(f) = (fifo[Other(p)][f] \o Carried(out[p])) \o fifo[p][f]
  BY <1>1 DEF InTransit
<1>3. fifo[Other(p)][f] \in Seq(1..made[f]) /\ fifo[p][f] \in Seq(1..made[f])
  BY <1>1 DEF Memory
<1>4. made \in [Stream -> Nat] /\ out[p] \in Seq(Good(p, made))
  BY DEF Memory, Traffic
<1>5. Carried(out[p]) \in Seq(1..made[f])
  BY <1>4, CarriedType
<1> HIDE DEF f
<1>6. InTransit(f) \in Seq(1..made[f])
  BY <1>2, <1>3, <1>5, Brackets
<1>7. QED
  BY <1>1, <1>2, <1>3, <1>4, <1>5, <1>6 DEF f

(* StreamsIntact, end by end.                                              *)
Intact(p) ==
  /\ Increasing(InTransit(FifoOf(p)))
  /\ Len(InTransit(FifoOf(p))) + taken[FifoOf(p)] + cleared[FifoOf(p)] = made[FifoOf(p)]

(* There is one stream for each end to fill, so that both may be shown end *)
(* by end.                                                                 *)
LEMMA IntactByEnds == StreamsIntact <=> \A p \in Peer : Intact(p)
<1>1. \A p \in Peer : FifoOf(p) \in Stream
  BY DEF FifoOf, Stream
<1>2. \A f \in Stream : \E p \in Peer : f = FifoOf(p)
  BY Ends DEF Stream
<1>3. QED
  BY <1>1, <1>2 DEF StreamsIntact, Intact, Increasing

(* The same after a step.                                                  *)
LEMMA IntactByEndsNext == StreamsIntact' <=> (\A p \in Peer : Intact(p))'
  BY IntactByEnds, PTL

(* Two ends, two streams.                                                  *)
LEMMA TwoStreams ==
  ASSUME NEW p \in Peer, NEW e \in Peer, e # p
  PROVE  /\ e = Other(p) /\ p = Other(e) /\ FifoOf(e) # FifoOf(p)
         /\ FifoOf(e) \in Stream /\ FifoOf(p) \in Stream
         /\ Filler(FifoOf(e)) = e /\ Filler(FifoOf(p)) = p
  BY DEF Peer, Other, FifoOf, Stream, Filler

(* Sending moves bytes from a fifo into a message.                         *)
LEMMA SendTransit ==
  ASSUME Places, Memory, Traffic, Ready, NEW p \in Peer, Send(p), NEW e \in Peer
  PROVE  InTransit(FifoOf(e))' = InTransit(FifoOf(e))
<1> DEFINE m == Outgoing(p)
           f == FifoOf(e)
<1>1. /\ m \in Message /\ ~m.ret /\ out'[p] = Append(out[p], m)
      /\ \A x \in Peer : out[x] \in Seq(Message) /\ (x # p => out'[x] = out[x])
  BY OutAfterSend
<1>2. /\ f \in Stream /\ Filler(f) = e /\ made[f] \in Nat
      /\ InTransit(f) = (fifo[Other(e)][f] \o Carried(out[e])) \o fifo[e][f]
      /\ fifo[Other(e)][f] \in Seq(1..made[f]) /\ fifo[e][f] \in Seq(1..made[f])
      /\ Carried(out[e]) \in Seq(1..made[f])
  BY TransitTypes
<1>3. InTransit(f)' = (fifo'[Other(e)][f] \o Carried(out'[e])) \o fifo'[e][f]
  BY <1>2 DEF InTransit
<1>4. /\ fifo' = IF m.type # "write_fifo" THEN fifo
                 ELSE [fifo EXCEPT ![p][FifoOf(p)] = SubSeq(@, m.len + 1, Len(@))]
      /\ at[p].do = "room"
  BY DEF Send
<1>5. m.type = at[p].type /\ m.len = at[p].len
  BY DEF Outgoing, Request
<1>6. fifo \in [Peer -> [Stream -> Seq(Nat)]]
  BY DEF Memory, Fifos
<1>7. CASE e = p
  <2>1. Carried(out'[p]) = Carried(out[p]) \o Cargo(m)
    BY <1>1, ListsAppend
  <2>2. CASE m.type = "write_fifo"
    <3>1. PICK has, n : has = fifo[p][f] /\ n = at[p].len
      OBVIOUS
    <3>2. n \in Nat /\ has \in Seq(1..made[f]) /\ n <= Len(has) /\ Len(has) \in Nat
      <4>1. n <= Len(has)
        BY <1>4, <1>5, <1>7, <2>2, <3>1 DEF Ready, Calling, Stock
      <4>2. at[p].len \in 0..FifoLength
        BY DEF Places, PlaceOf, Place
      <4>3. has \in Seq(1..made[f])
        BY <1>2, <1>7, <3>1
      <4>4. QED
        BY <3>1, <4>1, <4>2, <4>3, Lengths
    <3>3. PICK d, c : d = SubSeq(has, 1, n) /\ c = SubSeq(has, n + 1, Len(has))
      OBVIOUS
    <3>4. d \in Seq(1..made[f]) /\ c \in Seq(1..made[f]) /\ d \o c = has
      BY <3>2, <3>3, Halves
    <3>5. Smaller(n, Len(has)) = n
      BY <3>2 DEF Smaller
    <3>6. m.data = d
      BY <1>5, <1>7, <2>2, <3>1, <3>3, <3>5 DEF Outgoing, Request
    <3>7. Cargo(m) = d
      BY <1>1, <2>2, <3>6 DEF Cargo
    <3>8. fifo'[p][f] = c /\ fifo'[Other(p)] = fifo[Other(p)]
      <4>1. Other(p) # p
        BY DEF Other, Peer
      <4>2. fifo' = [fifo EXCEPT ![p][f] = SubSeq(@, n + 1, Len(@))]
        BY <1>4, <1>5, <1>7, <2>2, <3>1
      <4> HIDE DEF f, m
      <4>3. f \in Stream /\ fifo[p][f] = has
        BY <1>2, <3>1
      <4>4. fifo' = [fifo EXCEPT ![p] = [fifo[p] EXCEPT ![f] = c]]
        BY <1>6, <3>3, <4>2, <4>3
      <4>5. fifo'[p] = [fifo[p] EXCEPT ![f] = c] /\ fifo'[Other(p)] = fifo[Other(p)]
        <5>1. Other(p) \in Peer
          BY DEF Other, Peer
        <5>2. QED
          BY <1>6, <4>1, <4>4, <5>1
      <4>6. QED
        BY <1>6, <4>3, <4>5
    <3>9. PICK a \in Seq(1..made[f]), b \in Seq(1..made[f]) :
             a = fifo[Other(e)][f] /\ b = Carried(out[e])
      BY <1>2
    <3>10. (a \o (b \o d)) \o c = (a \o b) \o (d \o c)
      <4>1. PICK S : S = 1..made[f]
        OBVIOUS
      <4>2. a \in Seq(S) /\ b \in Seq(S) /\ c \in Seq(S) /\ d \in Seq(S)
        BY <3>4, <4>1
      <4>3. Cat(Cat(a, Cat(b, d)), c) = Cat(Cat(a, b), Cat(d, c))
        BY <4>2, CatMoves
      <4>4. QED
        BY <4>3 DEF Cat
    <3> HIDE DEF f, m
    <3>11. InTransit(f)' = (a \o (b \o d)) \o c
      BY <1>3, <1>7, <2>1, <3>7, <3>8, <3>9
    <3>12. InTransit(f) = (a \o b) \o (d \o c)
      BY <1>2, <1>7, <3>1, <3>4, <3>9
    <3>13. QED
      BY <3>10, <3>11, <3>12 DEF f
  <2>3. CASE m.type # "write_fifo"
    <3>1. fifo' = fifo
      BY <1>4, <2>3
    <3>2. Cargo(m) = <<>>
      BY <1>1, <2>3 DEF Cargo
    <3> HIDE DEF f, m
    <3>3. Carried(out'[p]) = Carried(out[p])
      BY <1>2, <1>7, <2>1, <3>2, Brackets
    <3>4. QED
      BY <1>2, <1>3, <1>7, <3>1, <3>3 DEF f
  <2>4. QED
    BY <2>2, <2>3
<1>8. CASE e # p
  <2>1. p = Other(e) /\ f # FifoOf(p) /\ FifoOf(p) \in Stream
    BY <1>8, TwoStreams
  <2>2. out'[e] = out[e]
    BY <1>1, <1>8
  <2> HIDE DEF f, m
  <2>3. fifo'[e] = fifo[e] /\ fifo'[p][f] = fifo[p][f]
    BY <1>2, <1>4, <1>6, <1>8, <2>1
  <2>4. QED
    BY <1>2, <1>3, <2>1, <2>2, <2>3 DEF f
<1>9. QED
  BY <1>7, <1>8

(* What is left of a stream on its way out of the fifo it was put into.    *)
Outstanding(f) == made[f] - Len(fifo[Filler(f)][f]) - taken[f] - cleared[f]

(* A fifo that holds all that is on its way has room for what comes in.    *)
LEMMA OutstandingFits ==
  ASSUME Memory, Traffic, NEW q \in Peer, out[Other(q)] # <<>>, Intact(Other(q)),
         Carrying(Head(out[Other(q)])), Outstanding(FifoOf(Other(q))) < FifoLength
  PROVE  Len(fifo[q][FifoOf(Other(q))]) + Len(Head(out[Other(q)]).data) < FifoLength
<1> DEFINE p == Other(q)
           m == Head(out[p])
           f == FifoOf(p)
<1>1. p \in Peer /\ p # q
  BY DEF Other, Peer
<1>2. out[p] \in Seq(Good(p, made)) /\ out[p] \in Seq(Message) /\ made \in [Stream -> Nat]
  BY <1>1 DEF Traffic, Memory
<1>3. q = Other(p) /\ f \in Stream /\ Filler(f) = p
  BY <1>1, TwoStreams
<1>4. /\ made[f] \in Nat
      /\ InTransit(f) = (fifo[q][f] \o Carried(out[p])) \o fifo[p][f]
      /\ fifo[q][f] \in Seq(1..made[f]) /\ fifo[p][f] \in Seq(1..made[f])
      /\ Carried(out[p]) \in Seq(1..made[f])
  BY <1>1, <1>3, TransitTypes
<1>5. Carried(out[p]) = Cargo(m) \o Carried(Tail(out[p]))
  BY <1>2, ListsTail
<1>6. Carried(Tail(out[p])) \in Seq(1..made[f])
  <2>1. Tail(out[p]) \in Seq(Good(p, made))
    BY <1>2
  <2>2. QED
    BY <1>1, <1>2, <2>1, CarriedType
<1>7. m \in Good(p, made)
  BY <1>2
<1>8. Cargo(m) = m.data /\ m.data \in Seq(1..made[f])
  BY <1>7 DEF Good, Cargo, Carrying
<1>9. /\ made[f] - Len(fifo[p][f]) - taken[f] - cleared[f] < FifoLength
      /\ taken[f] \in Nat /\ cleared[f] \in Nat
  BY <1>3 DEF Memory, Outstanding
<1>10. Len(InTransit(f)) + taken[f] + cleared[f] = made[f]
  BY DEF Intact
<1>11. PICK S : S = 1..made[f]
  OBVIOUS
<1>12. PICK a \in Seq(S), b \in Seq(S), c \in Seq(S), d \in Seq(S) :
         /\ a = fifo[q][f] /\ b = Carried(Tail(out[p])) /\ c = fifo[p][f] /\ d = m.data
  BY <1>4, <1>6, <1>8, <1>11, SMTT(30)
<1>13. InTransit(f) = (a \o (d \o b)) \o c
  BY <1>4, <1>5, <1>8, <1>12
<1>14. Len(InTransit(f)) = (Len(a) + (Len(d) + Len(b))) + Len(c)
  <2>1. d \o b \in Seq(S) /\ Len(d \o b) = Len(d) + Len(b)
    OBVIOUS
  <2>2. PICK g \in Seq(S) : g = d \o b
    BY <2>1, Zenon
  <2>3. a \o g \in Seq(S) /\ Len(a \o g) = Len(a) + Len(g)
    OBVIOUS
  <2>4. PICK h \in Seq(S) : h = a \o g
    BY <2>3, Zenon
  <2>5. Len(h \o c) = Len(h) + Len(c)
    OBVIOUS
  <2>6. QED
    BY <1>13, <2>1, <2>2, <2>3, <2>4, <2>5
<1>15. Len(a) \in Nat /\ Len(b) \in Nat /\ Len(c) \in Nat /\ Len(d) \in Nat
  OBVIOUS
<1> HIDE DEF m, f
<1>16. Len(a) + Len(d) < FifoLength
  <2>1. PICK w \in Nat, x \in Nat, y \in Nat, z \in Nat :
          w = Len(a) /\ x = Len(b) /\ y = Len(c) /\ z = Len(d)
    BY <1>15
  <2>2. PICK n \in Nat, t \in Nat, g \in Nat : n = made[f] /\ t = taken[f] /\ g = cleared[f]
    BY <1>4, <1>9
  <2>3. Len(fifo[p][f]) = y
    BY <1>12, <2>1
  <2>4. n - y - t - g < FifoLength
    BY <1>9, <2>2, <2>3
  <2>5. (w + (z + x)) + y + t + g = n
    BY <1>10, <1>14, <2>1, <2>2
  <2>6. w + z < FifoLength
    BY <2>4, <2>5, Lengths
  <2>7. QED
    BY <2>1, <2>6
<1>17. QED
  BY <1>12, <1>16 DEF m, f

(* A fifo that holds the whole stream holds what is on its way.            *)
LEMMA OutstandingMade ==
  ASSUME Memory, NEW f \in Stream, MaxMade[f] < FifoLength
  PROVE  Outstanding(f) < FifoLength
<1>1. Filler(f) \in Peer
  BY DEF Filler, Peer
<1>2. /\ made[f] \in Nat /\ taken[f] \in Nat /\ cleared[f] \in Nat
      /\ made[f] <= MaxMade[f] /\ MaxMade[f] \in Nat /\ FifoLength \in Nat
  BY BoundsAssumption, Lengths DEF Memory, Stream
<1>3. Len(fifo[Filler(f)][f]) \in Nat
  <2>1. fifo[Filler(f)][f] \in Seq(Nat)
    BY <1>1 DEF Memory, Fifos
  <2>2. QED
    BY <2>1
<1>4. PICK x \in Nat : x = Len(fifo[Filler(f)][f])
  BY <1>3
<1>5. made[f] - x - taken[f] - cleared[f] < FifoLength
  BY <1>2
<1>6. QED
  BY <1>4, <1>5 DEF Outstanding

(* A fifo takes in what comes: of a write_fifo because of the assertion,   *)
(* of the answer to a read_fifo because it holds the whole stream.         *)
LEMMA Fitting ==
  ASSUME ReadsFit, Memory, Traffic, NEW q \in Peer, Handled(q), Intact(Other(q)),
         Carrying(Head(out[Other(q)]))
  PROVE  LET f == FifoOf(Other(q))
             m == Head(out[Other(q)])
         IN  Enque(fifo[q][f], m.data) = fifo[q][f] \o m.data
<1> DEFINE p == Other(q)
           m == Head(out[p])
           f == FifoOf(p)
<1>1. p \in Peer /\ p # q /\ out[p] # <<>> /\ m \in Good(p, made)
  BY OutAfterHandling
<1>2. AssertionOn(q, m) = "none"
  BY DEF Handled
<1>3. fifo[q][f] \in Seq(1..made[f]) /\ m.data \in Seq(1..made[f])
  <2>1. f \in Stream
    BY <1>1, TwoStreams
  <2>2. QED
    BY <1>1, <2>1 DEF Memory, Good
<1>4. PICK S : S = 1..made[f]
  OBVIOUS
<1>5. PICK a \in Seq(S), d \in Seq(S) : a = fifo[q][f] /\ d = m.data
  BY <1>3, <1>4
<1>6. Len(a) \in Nat /\ Len(d) \in Nat
  OBVIOUS
<1>7. Len(a) + Len(d) < FifoLength
  <2>1. CASE m.type = "write_fifo" /\ ~m.ret
    <3>1. ~(FifoLength - 1 - Len(fifo[q][f]) < Len(m.data))
      BY <1>2, <2>1 DEF AssertionOn
    <3>2. ~(FifoLength - 1 - Len(a) < Len(d))
      BY <1>5, <3>1
    <3> HIDE DEF m, f
    <3>3. QED
      BY <1>6, <3>2, Lengths
  <2>2. CASE m.type = "read_fifo" /\ m.ret
    <3>1. f = "up" /\ "read_fifo" \in Calls
      BY <1>1, <2>2, Ends DEF Good, MayAsk, Peer
    <3>2. Outstanding(f) < FifoLength
      BY <3>1, OutstandingMade DEF ReadsFit, Stream
    <3>3. Len(fifo[q][f]) + Len(m.data) < FifoLength
      BY <1>1, <3>2, OutstandingFits
    <3>4. QED
      BY <1>5, <3>3
  <2>3. QED
    BY <2>1, <2>2 DEF Carrying
<1>8. Enque(a, d) = a \o d
  BY <1>7, EnqueType
<1>9. QED
  BY <1>5, <1>8

(* What q takes out of the stream that the other end fills arrives in its  *)
(* fifo, unless the fifo is cleared.                                       *)
LEMMA HandledFront ==
  ASSUME ReadsFit, Memory, Traffic, NEW q \in Peer, Handled(q), Intact(Other(q))
  PROVE  Intact(Other(q))'
<1> DEFINE p == Other(q)
           m == Head(out[p])
           f == FifoOf(p)
<1>1. /\ p \in Peer /\ p # q /\ out[p] # <<>> /\ m \in Good(p, made) /\ m \in Message
      /\ out[p] \in Seq(Message) /\ out'[p] = Tail(out[p])
  BY OutAfterHandling
<1>2. /\ AssertionOn(q, m) = "none" /\ made' = made /\ taken' = taken
      /\ fifo' = [fifo EXCEPT ![q] = NewFifo(q, m)]
      /\ cleared' = IF m.type = "clear_fifo" /\ ~m.ret
                    THEN [cleared EXCEPT !["down"] = @ + Len(fifo[q]["down"])]
                    ELSE cleared
  BY DEF Handled, Apply
<1>3. q = Other(p) /\ f # FifoOf(q) /\ f \in Stream /\ Filler(f) = p
  BY <1>1, TwoStreams
<1>4. /\ made[f] \in Nat
      /\ InTransit(f) = (fifo[q][f] \o Carried(out[p])) \o fifo[p][f]
      /\ fifo[q][f] \in Seq(1..made[f]) /\ fifo[p][f] \in Seq(1..made[f])
      /\ Carried(out[p]) \in Seq(1..made[f])
  BY <1>1, <1>3, TransitTypes
<1>5. InTransit(f)' = (fifo'[q][f] \o Carried(out'[p])) \o fifo'[p][f]
  BY <1>3 DEF InTransit
<1>6. Carried(out[p]) = Cargo(m) \o Carried(Tail(out[p]))
  BY <1>1, ListsTail
<1>7. Carried(Tail(out[p])) \in Seq(1..made[f])
  <2>1. out[p] \in Seq(Good(p, made)) /\ made \in [Stream -> Nat]
    BY <1>1 DEF Traffic, Memory
  <2>2. Tail(out[p]) \in Seq(Good(p, made))
    BY <1>1, <2>1
  <2>3. QED
    BY <1>1, <2>1, <2>2, CarriedType
<1>8. Carrying(m) => m.data \in Seq(1..made[f]) /\ Len(m.data) = m.len
  BY <1>1 DEF Good
<1>9. Cargo(m) = IF Carrying(m) THEN m.data ELSE <<>>
  BY DEF Cargo, Carrying
<1>10. Cargo(m) \in Seq(1..made[f])
  BY <1>8, <1>9, LargerSet
<1>11. /\ fifo \in [Peer -> [Stream -> Seq(Nat)]] /\ Len(fifo[q][f]) < FifoLength
       /\ made \in [Stream -> Nat] /\ taken \in [Stream -> Nat] /\ cleared \in [Stream -> Nat]
       /\ \A x \in Stream : made[x] <= MaxMade[x]
  BY <1>3 DEF Memory, Fifos
<1>12. fifo'[p] = fifo[p] /\ fifo'[q] = NewFifo(q, m)
  <2> HIDE DEF m
  <2>1. QED
    BY <1>1, <1>2, <1>11
<1>13. /\ Increasing(InTransit(f)) /\ Len(InTransit(f)) + taken[f] + cleared[f] = made[f]
  BY DEF Intact
<1> SUFFICES /\ Increasing(InTransit(f)')
             /\ Len(InTransit(f)') + taken'[f] + cleared'[f] = made'[f]
  BY <1>3 DEF Intact
<1>14. PICK S : S = 1..made[f]
  OBVIOUS
<1>15. PICK a \in Seq(S), b \in Seq(S), c \in Seq(S), d \in Seq(S) :
         /\ a = fifo[q][f] /\ b = Carried(Tail(out[p])) /\ c = fifo[p][f] /\ d = Cargo(m)
  BY <1>4, <1>7, <1>10, <1>14, SMTT(30)
<1>16. InTransit(f) = (a \o (d \o b)) \o c
  BY <1>4, <1>6, <1>15
<1>17. (a \o d) \o b = a \o (d \o b)
  <2>1. Cat(Cat(a, d), b) = Cat(a, Cat(d, b))
    BY CatAssociative, SMTT(30)
  <2>2. QED
    BY <2>1 DEF Cat
<1>18. InTransit(f)' = (fifo'[q][f] \o b) \o c
  BY <1>1, <1>5, <1>12, <1>15
<1>19. CASE Carrying(m)
  <2>1. NewFifo(q, m)[f] = Enque(a, d)
    <3>1. CASE m.type = "write_fifo" /\ ~m.ret
      <4>1. NewFifo(q, m) = [fifo[q] EXCEPT ![f] = Enque(fifo[q][f], m.data)]
        BY <1>3, <1>11, <3>1 DEF NewFifo
      <4>2. QED
        BY <1>3, <1>9, <1>11, <1>15, <1>19, <4>1
    <3>2. CASE m.type = "read_fifo" /\ m.ret
      <4>1. q = "pc" /\ f = "up"
        BY <1>1, <3>2, Ends DEF Good, MayAsk, Peer
      <4>2. NewFifo(q, m) = [fifo[q] EXCEPT !["up"] = Enque(fifo[q]["up"], m.data)]
        BY <1>11, <3>2, <4>1, KeepsAssumption DEF NewFifo
      <4>3. QED
        BY <1>3, <1>9, <1>11, <1>15, <1>19, <4>1, <4>2
    <3>3. QED
      BY <1>19, <3>1, <3>2 DEF Carrying
  <2>2. d = m.data
    BY <1>9, <1>15, <1>19
  <2>3. Enque(a, d) = a \o d
    BY <1>15, <1>19, <2>2, Fitting
  <2>4. InTransit(f)' = InTransit(f)
    BY <1>12, <1>16, <1>17, <1>18, <2>1, <2>3
  <2>5. cleared' = cleared
    BY <1>2, <1>19 DEF Carrying
  <2>6. QED
    BY <1>2, <1>13, <2>4, <2>5
<1>20. CASE m.type = "clear_fifo" /\ ~m.ret
  <2>1. q = "mcu" /\ f = "down"
    BY <1>1, <1>20, Ends DEF Good, MayAsk, Peer
  <2>2. NewFifo(q, m)[f] = <<>>
    <3>1. NewFifo(q, m) = [fifo[q] EXCEPT ![f] = <<>>]
      BY <1>3, <1>20 DEF NewFifo
    <3>2. QED
      BY <1>3, <1>11, <3>1
  <2>3. d = <<>>
    BY <1>9, <1>15, <1>20 DEF Carrying
  <2>4. PICK bc \in Seq(S) : bc = b \o c
    <3>1. b \o c \in Seq(S)
      OBVIOUS
    <3>2. QED
      BY <3>1, Zenon
  <2>5. InTransit(f) = a \o bc
    <3>1. d \o b = b
      BY <2>3
    <3>2. (a \o b) \o c = a \o (b \o c)
      <4>1. Cat(Cat(a, b), c) = Cat(a, Cat(b, c))
        BY CatAssociative, SMTT(30)
      <4>2. QED
        BY <4>1 DEF Cat
    <3>3. QED
      BY <1>16, <2>4, <3>1, <3>2
  <2>6. InTransit(f)' = bc
    <3>1. <<>> \o b = b
      OBVIOUS
    <3>2. QED
      BY <1>12, <1>18, <2>2, <2>4, <3>1
  <2>7. Increasing(bc) /\ Len(a \o bc) = Len(a) + Len(bc)
    BY <1>4, <1>13, <1>14, <2>5, IncreasingRest
  <2>8. cleared'[f] = cleared[f] + Len(a)
    BY <1>2, <1>11, <1>15, <1>20, <2>1 DEF Stream
  <2>9. Len(bc) + taken[f] + (cleared[f] + Len(a)) = made[f]
    <3>1. /\ Len(a) \in Nat /\ Len(bc) \in Nat /\ taken[f] \in Nat /\ cleared[f] \in Nat
      BY <1>3, <1>11
    <3>2. (Len(a) + Len(bc)) + taken[f] + cleared[f] = made[f]
      BY <1>13, <2>5, <2>7
    <3>3. QED
      BY <3>1, <3>2
  <2>10. QED
    BY <1>2, <2>6, <2>7, <2>8, <2>9
<1>21. CASE ~Carrying(m) /\ ~(m.type = "clear_fifo" /\ ~m.ret)
  <2>1. NewFifo(q, m)[f] = a
    <3>1. CASE m.type = "read_fifo" /\ ~m.ret
      <4>1. q = "mcu" /\ f = "down"
        BY <1>1, <3>1, Ends DEF Good, MayAsk, Peer
      <4>2. NewFifo(q, m) = [fifo[q] EXCEPT !["up"] = SubSeq(@, Smaller(m.len, Len(@)) + 1, Len(@))]
        BY <3>1 DEF NewFifo
      <4>3. QED
        BY <1>11, <1>15, <4>1, <4>2 DEF Stream
    <3>2. CASE ~(m.type = "read_fifo" /\ ~m.ret)
      <4>1. NewFifo(q, m) = fifo[q]
        BY <1>21, <3>2 DEF NewFifo, Carrying
      <4>2. QED
        BY <1>15, <4>1
    <3>3. QED
      BY <3>1, <3>2
  <2>2. d = <<>>
    BY <1>9, <1>15, <1>21, SMTT(30)
  <2>3. InTransit(f)' = InTransit(f)
    <3>1. d \o b = b
      BY <2>2
    <3>2. QED
      BY <1>12, <1>16, <1>18, <2>1, <3>1
  <2>4. cleared' = cleared
    BY <1>2, <1>21
  <2>5. QED
    BY <1>2, <1>13, <2>3, <2>4
<1>22. QED
  BY <1>19, <1>20, <1>21

(* What q takes out of the fifo it fills goes into the answer.             *)
LEMMA HandledBack ==
  ASSUME ReadsFit, Memory, Traffic, NEW q \in Peer, Handled(q), Intact(q)
  PROVE  Intact(q)'
<1> DEFINE p == Other(q)
           m == Head(out[p])
           f == FifoOf(q)
<1>1. /\ p \in Peer /\ p # q /\ m \in Good(p, made) /\ m \in Message
      /\ out[q] \in Seq(Message)
      /\ m.ret => out'[q] = out[q]
      /\ ~m.ret => /\ AnswerTo(q, m) \in Message /\ AnswerTo(q, m).ret
                   /\ AnswerTo(q, m).type = m.type
                   /\ out'[q] = Append(out[q], AnswerTo(q, m))
  BY OutAfterHandling
<1>2. /\ made' = made /\ taken' = taken
      /\ fifo' = [fifo EXCEPT ![q] = NewFifo(q, m)]
      /\ cleared' = IF m.type = "clear_fifo" /\ ~m.ret
                    THEN [cleared EXCEPT !["down"] = @ + Len(fifo[q]["down"])]
                    ELSE cleared
  BY DEF Handled, Apply
<1>3. q = Other(p) /\ f # FifoOf(p) /\ f \in Stream /\ Filler(f) = q /\ FifoOf(p) \in Stream
  BY <1>1, TwoStreams
<1>4. /\ made[f] \in Nat
      /\ InTransit(f) = (fifo[p][f] \o Carried(out[q])) \o fifo[q][f]
      /\ fifo[p][f] \in Seq(1..made[f]) /\ fifo[q][f] \in Seq(1..made[f])
      /\ Carried(out[q]) \in Seq(1..made[f])
  BY <1>3, TransitTypes
<1>5. InTransit(f)' = (fifo'[p][f] \o Carried(out'[q])) \o fifo'[q][f]
  BY <1>3 DEF InTransit
<1>6. fifo \in [Peer -> [Stream -> Seq(Nat)]] /\ cleared \in [Stream -> Nat]
  BY DEF Memory, Fifos
<1>7. fifo'[p] = fifo[p] /\ fifo'[q] = NewFifo(q, m)
  <2> HIDE DEF m
  <2>1. QED
    BY <1>1, <1>2, <1>6
<1>8. cleared'[f] = cleared[f]
  <2>1. m.type = "clear_fifo" /\ ~m.ret => f # "down"
    BY <1>1, Ends DEF Good, MayAsk, Peer
  <2>2. QED
    BY <1>2, <1>3, <1>6, <2>1
<1> SUFFICES InTransit(f)' = InTransit(f)
  BY <1>2, <1>3, <1>8 DEF Intact
<1>9. CASE m.type = "read_fifo" /\ ~m.ret
  <2>1. q = "mcu" /\ f = "up"
    BY <1>1, <1>9, Ends DEF Good, MayAsk, Peer
  <2>2. PICK S : S = 1..made[f]
    OBVIOUS
  <2>3. PICK has \in Seq(S) : has = fifo[q][f]
    BY <1>4, <2>2
  <2>4. PICK n \in Nat : n = Smaller(m.len, Len(has)) /\ n <= Len(has)
    <3>1. m.len \in Nat /\ Len(has) \in Nat
      BY <1>1, Lengths DEF Message
    <3>2. QED
      BY <3>1 DEF Smaller
  <2>5. PICK d, c : d = SubSeq(has, 1, n) /\ c = SubSeq(has, n + 1, Len(has))
    OBVIOUS
  <2>6. d \in Seq(S) /\ c \in Seq(S) /\ d \o c = has
    BY <2>4, <2>5, Halves
  <2>7. Cargo(AnswerTo(q, m)) = d
    <3>1. AnswerTo(q, m) = Answer("read_fifo", d)
      BY <1>9, <2>1, <2>3, <2>4, <2>5 DEF AnswerTo
    <3>2. QED
      BY <3>1 DEF Answer, Cargo
  <2>8. fifo'[q][f] = c
    <3>1. NewFifo(q, m) = [fifo[q] EXCEPT !["up"] = SubSeq(@, Smaller(m.len, Len(@)) + 1, Len(@))]
      BY <1>9 DEF NewFifo
    <3>2. NewFifo(q, m)["up"] = c
      BY <1>6, <2>1, <2>3, <2>4, <2>5, <3>1 DEF Stream
    <3>3. QED
      BY <1>7, <2>1, <3>2
  <2>9. Carried(out'[q]) = Carried(out[q]) \o Cargo(AnswerTo(q, m))
    BY <1>1, <1>9, ListsAppend
  <2>10. PICK a \in Seq(S), b \in Seq(S) : a = fifo[p][f] /\ b = Carried(out[q])
    BY <1>4, <2>2
  <2>11. (a \o (b \o d)) \o c = (a \o b) \o (d \o c)
    <3>1. Cat(Cat(a, Cat(b, d)), c) = Cat(Cat(a, b), Cat(d, c))
      BY <2>6, CatMoves
    <3>2. QED
      BY <3>1 DEF Cat
  <2> HIDE DEF m
  <2>12. InTransit(f)' = (a \o (b \o d)) \o c
    BY <1>5, <1>7, <2>7, <2>8, <2>9, <2>10
  <2>13. InTransit(f) = (a \o b) \o (d \o c)
    BY <1>4, <2>3, <2>6, <2>10
  <2>14. QED
    BY <2>11, <2>12, <2>13
<1>10. CASE ~(m.type = "read_fifo" /\ ~m.ret)
  <2>1. Carried(out'[q]) = Carried(out[q])
    <3>1. CASE m.ret
      BY <1>1, <3>1
    <3>2. CASE ~m.ret
      <4>1. Carried(out'[q]) = Carried(out[q]) \o Cargo(AnswerTo(q, m))
        BY <1>1, <3>2, ListsAppend
      <4>2. Cargo(AnswerTo(q, m)) = <<>>
        BY <1>1, <1>10, <3>2 DEF Cargo
      <4>3. QED
        BY <1>4, <4>1, <4>2
    <3>3. QED
      BY <3>1, <3>2
  <2>2. NewFifo(q, m)[f] = fifo[q][f]
    <3>1. CASE m.type \in {"write_fifo", "clear_fifo"} /\ ~m.ret
      BY <1>3, <1>6, <3>1 DEF NewFifo
    <3>2. CASE m.type = "read_fifo" /\ m.ret
      <4>1. q = "pc" /\ f = "down" /\ "up" # "down"
        BY <1>1, <1>3, <3>2, Ends DEF Good, MayAsk, Peer
      <4>2. QED
        BY <1>6, <3>2, <4>1 DEF NewFifo
    <3>3. CASE /\ ~(m.type \in {"write_fifo", "clear_fifo"} /\ ~m.ret)
               /\ ~(m.type = "read_fifo" /\ m.ret)
      BY <1>10, <3>3 DEF NewFifo
    <3>4. QED
      BY <3>1, <3>2, <3>3
  <2> HIDE DEF m
  <2>3. QED
    BY <1>4, <1>5, <1>7, <2>1, <2>2
<1>11. QED
  BY <1>9, <1>10

(* A byte is produced, or consumed.                                        *)
LEMMA ProduceIntact ==
  ASSUME Memory, Traffic, NEW p \in Peer, Produce(p), NEW e \in Peer, Intact(e)
  PROVE  Intact(e)'
<1> DEFINE f == FifoOf(e)
<1>1. /\ f \in Stream /\ Filler(f) = e /\ made[f] \in Nat
      /\ InTransit(f) = (fifo[Other(e)][f] \o Carried(out[e])) \o fifo[e][f]
      /\ fifo[Other(e)][f] \in Seq(1..made[f]) /\ fifo[e][f] \in Seq(1..made[f])
      /\ Carried(out[e]) \in Seq(1..made[f]) /\ InTransit(f) \in Seq(1..made[f])
  BY TransitTypes
<1>2. InTransit(f)' = (fifo'[Other(e)][f] \o Carried(out'[e])) \o fifo'[e][f]
  BY <1>1 DEF InTransit
<1>3. /\ made' = [made EXCEPT ![FifoOf(p)] = @ + 1]
      /\ fifo' = [fifo EXCEPT ![p][FifoOf(p)] = Append(@, made[FifoOf(p)] + 1)]
      /\ out' = out /\ taken' = taken /\ cleared' = cleared
  BY DEF Produce
<1>4. /\ fifo \in [Peer -> [Stream -> Seq(Nat)]] /\ made \in [Stream -> Nat]
      /\ taken \in [Stream -> Nat] /\ cleared \in [Stream -> Nat]
  BY DEF Memory, Fifos
<1>5. /\ Increasing(InTransit(f)) /\ Len(InTransit(f)) + taken[f] + cleared[f] = made[f]
  BY DEF Intact
<1> SUFFICES /\ Increasing(InTransit(f)')
             /\ Len(InTransit(f)') + taken'[f] + cleared'[f] = made'[f]
  BY <1>1 DEF Intact
<1>6. Other(e) \in Peer /\ Other(e) # e
  BY DEF Other, Peer
<1>7. CASE e = p
  <2> HIDE DEF f
  <2>1. PICK n \in Nat : n = made[f]
    BY <1>1
  <2>2. PICK S : S = 1..n
    OBVIOUS
  <2>3. PICK s \in Seq(S), a \in Seq(S), b \in Seq(S), c \in Seq(S) :
           /\ s = InTransit(f) /\ a = fifo[Other(e)][f] /\ b = Carried(out[e]) /\ c = fifo[e][f]
    BY <1>1, <2>1, <2>2
  <2>4. made'[f] = n + 1 /\ fifo'[e][f] = Append(c, n + 1) /\ fifo'[Other(e)][f] = a
    <3>1. made' = [made EXCEPT ![f] = n + 1]
      BY <1>3, <1>7, <2>1 DEF f
    <3>2. fifo' = [fifo EXCEPT ![e] = [fifo[e] EXCEPT ![f] = Append(c, n + 1)]]
      BY <1>1, <1>3, <1>4, <1>7, <2>1, <2>3 DEF f
    <3>3. fifo'[e] = [fifo[e] EXCEPT ![f] = Append(c, n + 1)] /\ fifo'[Other(e)] = fifo[Other(e)]
      BY <1>4, <1>6, <3>2
    <3>4. QED
      BY <1>1, <1>4, <2>3, <3>1, <3>3
  <2>5. InTransit(f)' = Append(s, n + 1)
    <3>1. PICK w : w = n + 1
      OBVIOUS
    <3>2. PICK T : T = S \cup {w}
      OBVIOUS
    <3>3. a \in Seq(T) /\ b \in Seq(T) /\ c \in Seq(T) /\ w \in T
      <4>1. S \subseteq T
        BY <3>2
      <4>2. w \in T
        BY <3>2
      <4>3. QED
        BY <4>1, <4>2, LargerSet, Zenon
    <3>4. PICK x \in Seq(T) : x = <<w>>
      <4>1. <<w>> \in Seq(T)
        BY <3>3
      <4>2. QED
        BY <4>1, Zenon
    <3>5. PICK ab \in Seq(T) : ab = a \o b
      <4>1. a \o b \in Seq(T)
        BY <3>3
      <4>2. QED
        BY <4>1, Zenon
    <3>6. (ab \o c) \o x = ab \o (c \o x)
      <4>1. Cat(Cat(ab, c), x) = Cat(ab, Cat(c, x))
        BY <3>3, CatAssociative
      <4>2. QED
        BY <4>1 DEF Cat
    <3>7. ab \o c \in Seq(T)
      BY <3>3
    <3>8. Append(c, w) = c \o x /\ Append(ab \o c, w) = (ab \o c) \o x
      BY <3>3, <3>4, <3>7, AppendIsConcat
    <3>9. s = ab \o c
      BY <1>1, <2>3, <3>5, SMTT(30)
    <3>10. InTransit(f)' = ab \o Append(c, w)
      BY <1>2, <1>3, <2>3, <2>4, <3>1, <3>5
    <3>11. QED
      BY <3>1, <3>6, <3>8, <3>9, <3>10
  <2>6. Increasing(Append(s, n + 1)) /\ Len(Append(s, n + 1)) = Len(s) + 1
    BY <1>5, <2>2, <2>3, IncreasingMore
  <2>7. (Len(s) + 1) + taken[f] + cleared[f] = n + 1
    <3>1. Len(s) \in Nat /\ taken[f] \in Nat /\ cleared[f] \in Nat
      BY <1>1, <1>4
    <3>2. QED
      BY <1>5, <2>1, <2>3, <3>1, SMTT(30)
  <2>8. QED
    BY <1>3, <2>4, <2>5, <2>6, <2>7
<1>8. CASE e # p
  <2>1. p = Other(e) /\ f # FifoOf(p) /\ FifoOf(p) \in Stream
    BY <1>8, TwoStreams
  <2> HIDE DEF f
  <2>2. made'[f] = made[f] /\ fifo'[e] = fifo[e] /\ fifo'[p][f] = fifo[p][f]
    BY <1>1, <1>3, <1>4, <1>8, <2>1
  <2>3. InTransit(f)' = InTransit(f)
    BY <1>1, <1>2, <1>3, <2>1, <2>2
  <2>4. QED
    BY <1>3, <1>5, <2>2, <2>3
<1>9. QED
  BY <1>7, <1>8

(* A consumer takes the oldest byte of the stream, and the rest follows    *)
(* what was taken.                                                         *)
LEMMA ConsumeIntact ==
  ASSUME Memory, Traffic, NEW p \in Peer, Consume(p), NEW e \in Peer, Intact(e)
  PROVE  Intact(e)'
<1> DEFINE f == FifoOf(e)
<1>1. /\ f \in Stream /\ Filler(f) = e /\ made[f] \in Nat
      /\ InTransit(f) = (fifo[Other(e)][f] \o Carried(out[e])) \o fifo[e][f]
      /\ fifo[Other(e)][f] \in Seq(1..made[f]) /\ fifo[e][f] \in Seq(1..made[f])
      /\ Carried(out[e]) \in Seq(1..made[f])
  BY TransitTypes
<1>2. InTransit(f)' = (fifo'[Other(e)][f] \o Carried(out'[e])) \o fifo'[e][f]
  BY <1>1 DEF InTransit
<1>3. /\ taken' = [taken EXCEPT ![FifoOf(Other(p))] = @ + 1]
      /\ fifo' = [fifo EXCEPT ![p][FifoOf(Other(p))] = Tail(@)]
      /\ fifo[p][FifoOf(Other(p))] # <<>>
      /\ out' = out /\ made' = made /\ cleared' = cleared
  BY DEF Consume
<1>4. /\ fifo \in [Peer -> [Stream -> Seq(Nat)]] /\ made \in [Stream -> Nat]
      /\ taken \in [Stream -> Nat] /\ cleared \in [Stream -> Nat]
  BY DEF Memory, Fifos
<1>5. /\ Increasing(InTransit(f)) /\ Len(InTransit(f)) + taken[f] + cleared[f] = made[f]
  BY DEF Intact
<1> SUFFICES /\ Increasing(InTransit(f)')
             /\ Len(InTransit(f)') + taken'[f] + cleared'[f] = made'[f]
  BY <1>1 DEF Intact
<1>6. Other(e) \in Peer /\ Other(e) # e
  BY DEF Other, Peer
<1>7. CASE e # p
  <2>1. p = Other(e) /\ e = Other(p)
    BY <1>7, TwoStreams
  <2>2. PICK n \in Nat : n = made[f]
    BY <1>1
  <2>3. PICK S : S = 1..n
    OBVIOUS
  <2>4. PICK a \in Seq(S), b \in Seq(S), c \in Seq(S) :
           a = fifo[p][f] /\ b = Carried(out[e]) /\ c = fifo[e][f]
    BY <1>1, <2>1, <2>2, <2>3
  <2>5. PICK x : x = Head(a)
    OBVIOUS
  <2>6. PICK t \in Seq(S) : t = Tail(a) /\ a = <<x>> \o t /\ x \in S
    BY <1>3, <2>1, <2>4, <2>5, Rest
  <2> HIDE DEF f
  <2>7. taken'[f] = taken[f] + 1 /\ fifo'[p][f] = t /\ fifo'[e][f] = c
    <3>1. taken' = [taken EXCEPT ![f] = @ + 1]
      BY <1>3, <2>1 DEF f
    <3>2. fifo' = [fifo EXCEPT ![p] = [fifo[p] EXCEPT ![f] = t]]
      BY <1>1, <1>3, <1>4, <2>1, <2>4, <2>6 DEF f
    <3>3. fifo'[p] = [fifo[p] EXCEPT ![f] = t] /\ fifo'[e] = fifo[e]
      BY <1>4, <1>7, <3>2
    <3>4. QED
      BY <1>1, <1>4, <2>4, <3>1, <3>3
  <2>8. PICK y \in Seq(S) : y = <<x>>
    <3>1. <<x>> \in Seq(S)
      BY <2>6
    <3>2. QED
      BY <3>1, Zenon
  <2>9. PICK tb \in Seq(S) : tb = t \o b
    <3>1. t \o b \in Seq(S)
      OBVIOUS
    <3>2. QED
      BY <3>1, Zenon
  <2>10. PICK u \in Seq(S) : u = tb \o c
    <3>1. tb \o c \in Seq(S)
      OBVIOUS
    <3>2. QED
      BY <3>1, Zenon
  <2>11. (y \o t) \o b = y \o (t \o b)
    <3>1. Cat(Cat(y, t), b) = Cat(y, Cat(t, b))
      BY CatAssociative
    <3>2. QED
      BY <3>1 DEF Cat
  <2>12. (y \o tb) \o c = y \o (tb \o c)
    <3>1. Cat(Cat(y, tb), c) = Cat(y, Cat(tb, c))
      BY CatAssociative, SMTT(30)
    <3>2. QED
      BY <3>1 DEF Cat
  <2>13. InTransit(f) = y \o u
    BY <1>1, <2>1, <2>4, <2>6, <2>8, <2>9, <2>10, <2>11, <2>12, ZenonT(40)
  <2>14. InTransit(f)' = u
    BY <1>2, <1>3, <2>1, <2>4, <2>7, <2>9, <2>10
  <2>15. Increasing(u) /\ Len(y \o u) = Len(y) + Len(u)
    BY <1>5, <2>3, <2>13, IncreasingRest
  <2>16. Len(y) = 1
    BY <2>8
  <2>17. Len(u) + (taken[f] + 1) + cleared[f] = made[f]
    <3>1. Len(u) \in Nat /\ taken[f] \in Nat /\ cleared[f] \in Nat
      BY <1>1, <1>4
    <3>2. QED
      BY <1>5, <2>13, <2>15, <2>16, <3>1
  <2>18. QED
    BY <1>3, <2>7, <2>14, <2>15, <2>17
<1>8. CASE e = p
  <2>1. FifoOf(Other(p)) # f /\ FifoOf(Other(p)) \in Stream
    BY <1>6, <1>8, TwoStreams
  <2> HIDE DEF f
  <2>2. taken'[f] = taken[f] /\ fifo'[e][f] = fifo[e][f] /\ fifo'[Other(e)] = fifo[Other(e)]
    BY <1>1, <1>3, <1>4, <1>6, <1>8, <2>1, SMTT(30)
  <2>3. InTransit(f)' = InTransit(f)
    BY <1>1, <1>2, <1>3, <2>2
  <2>4. QED
    BY <1>3, <1>5, <2>2, <2>3
<1>9. QED
  BY <1>7, <1>8

(* No step loses, repeats or swaps a byte.                                 *)
LEMMA StreamsStep ==
  ASSUME ReadsFit, Places, Memory, Traffic, Ready, StreamsIntact, [Next]_vars
  PROVE  StreamsIntact'
<1>1. \A p \in Peer : Intact(p)
  BY IntactByEnds
<1>2. ASSUME NEW e \in Peer, made' = made, taken' = taken, cleared' = cleared,
             InTransit(FifoOf(e))' = InTransit(FifoOf(e))
      PROVE  Intact(e)'
  BY <1>1, <1>2 DEF Intact
<1>3. ASSUME UNCHANGED <<out, fifo, history>> PROVE StreamsIntact'
  BY <1>3 DEF StreamsIntact, InTransit, history
<1>4. CASE Still
  BY <1>3, <1>4 DEF Still
<1>5. CASE \E type \in Calls : Call(type)
  BY <1>3, <1>5 DEF Call
<1>6. CASE \E p \in Peer : Send(p)
  <2>1. made' = made /\ taken' = taken /\ cleared' = cleared
    BY <1>6 DEF Send, history
  <2>2. \A e \in Peer : InTransit(FifoOf(e))' = InTransit(FifoOf(e))
    BY <1>6, SendTransit
  <2>3. \A e \in Peer : Intact(e)'
    BY <1>2, <2>1, <2>2
  <2>4. QED
    BY <2>3, IntactByEndsNext
<1>7. CASE \E q \in Peer : Handled(q)
  <2>1. PICK q \in Peer : Handled(q)
    BY <1>7
  <2>2. Other(q) \in Peer /\ \A e \in Peer : e = q \/ e = Other(q)
    BY DEF Other, Peer
  <2>3. Intact(q)' /\ Intact(Other(q))'
    BY <1>1, <2>1, <2>2, HandledFront, HandledBack
  <2>4. \A e \in Peer : Intact(e)'
    BY <2>2, <2>3
  <2>5. QED
    BY <2>4, IntactByEndsNext
<1>8. CASE \E p \in Peer : Produce(p)
  BY <1>1, <1>8, ProduceIntact, IntactByEndsNext
<1>9. CASE \E p \in Peer : Consume(p)
  BY <1>1, <1>9, ConsumeIntact, IntactByEndsNext
<1>10. QED
  BY <1>4, <1>5, <1>6, <1>7, <1>8, <1>9, DataSteps

-----------------------------------------------------------------------------
(* What follows for Spec.                                                  *)

(* At first nothing is asked and nothing under way.                        *)
LEMMA NothingAsked ==
  ASSUME Init
  PROVE  Asking /\ Awaits /\ Ready /\ StreamsIntact
<1>1. /\ out = [p \in Peer |-> <<>>] /\ ring = [p \in Peer |-> <<>>]
      /\ at = [p \in Peer |-> [do |-> "idle", type |-> "read", len |-> 1, back |-> "idle"]]
      /\ fifo = [p \in Peer |-> [f \in Stream |-> <<>>]]
      /\ made = [f \in Stream |-> 0] /\ taken = [f \in Stream |-> 0]
      /\ cleared = [f \in Stream |-> 0]
      /\ calls = 0 /\ pushes = MaxPushes
  BY DEF Init
<1>2. Answers(<<>>) = <<>> /\ Requests(<<>>) = <<>> /\ Carried(<<>>) = <<>>
  BY ListsEmpty
<1>3. /\ Len(<<>>) = 0 /\ <<>> \o <<>> = <<>>
  OBVIOUS
<1>4. \A p \in Peer : Other(p) \in Peer /\ at[p].do = "idle" /\ ~Calling(at[p]) /\ ~Held(at[p])
  BY <1>1 DEF Other, Peer, Calling, Held
<1>5. Keeps \subseteq Peer /\ MaxCalls \in Nat /\ MaxPushes \in Nat /\ RingLength \in Nat
      /\ RingLength > 1
  BY KeepsAssumption, BoundsAssumption, SizeAssumption
<1>6. Asking
  <2>1. Counted
    <3>1. ASSUME NEW p \in Keeps
          PROVE  Len(ring[p]) + (IF Calling(at[p]) THEN 1 ELSE 0) <= Asked(p)
      <4>1. Len(ring[p]) = 0 /\ ~Calling(at[p])
        BY <1>1, <1>3, <1>4, <1>5
      <4>2. Asked(p) = 0
        BY <1>1, <1>5 DEF Asked
      <4>3. QED
        BY <4>1, <4>2
    <3>2. calls \in 0..MaxCalls /\ pushes \in 0..MaxPushes
      BY <1>1, <1>5
    <3>3. QED
      BY <3>1, <3>2 DEF Counted
  <2>2. Silent
    BY <1>1, <1>2, <1>4 DEF Silent
  <2>3. Gap
    BY <1>4, <1>5 DEF Gap
  <2>4. QED
    BY <2>1, <2>2, <2>3 DEF Asking
<1>7. Awaits
  <2>1. ASSUME NEW p \in Keeps PROVE Fits(ring[p], Unanswered(p))
    <3>1. ring[p] = <<>> /\ Unanswered(p) = <<>>
      BY <1>1, <1>2, <1>3, <1>4, <1>5 DEF Unanswered
    <3>2. QED
      BY <1>3, <3>1 DEF Fits
  <2>2. QED
    BY <2>1 DEF Awaits
<1>8. Ready
  BY <1>4 DEF Ready
<1>9. StreamsIntact
  <2>1. ASSUME NEW f \in Stream
        PROVE  InTransit(f) = <<>> /\ taken[f] = 0 /\ cleared[f] = 0 /\ made[f] = 0
    <3>1. Filler(f) \in Peer /\ Other(Filler(f)) \in Peer
      BY DEF Filler, Other, Peer
    <3>2. QED
      BY <1>1, <1>2, <1>3, <3>1 DEF InTransit
  <2>2. QED
    BY <1>3, <2>1 DEF StreamsIntact
<1>10. QED
  BY <1>6, <1>7, <1>8, <1>9

(* When no step is taken any more.                                         *)
LEMMA Stopped ==
  ASSUME ~Running, [Next]_vars
  PROVE  ~Running' /\ UNCHANGED <<ring, out, fifo, history, fault>>
<1>1. UNCHANGED vars
  BY StepsRun
<1>2. QED
  BY <1>1 DEF vars, Running

(* Rings, requests and answers, up to and in a state with a failed         *)
(* assertion.                                                              *)
AwaitsInv == Awaits /\ (Running => Typed /\ Asking)

(* Every step keeps it; a program that has stopped takes none but idle     *)
(* ones.                                                                   *)
LEMMA AwaitsInvStep ==
  ASSUME RingsSuffice, AwaitsInv, [Next]_vars
  PROVE  AwaitsInv'
<1>1. CASE Running
  <2>1. Typed /\ Asking /\ Awaits
    BY <1>1 DEF AwaitsInv
  <2>2. Places /\ Memory /\ Traffic /\ Rings
    BY <2>1 DEF Typed
  <2>3. Awaits'
    BY <2>1, <2>2, AwaitsStep
  <2>4. Asking'
    BY <2>1, <2>2, AskingStep
  <2>5. Running' => Typed'
    BY <2>1, TypedStep
  <2>6. QED
    BY <2>3, <2>4, <2>5 DEF AwaitsInv
<1>2. CASE ~Running
  <2>1. ~Running' /\ ring' = ring /\ out' = out
    BY <1>2, Stopped
  <2>2. Awaits'
    BY <2>1 DEF AwaitsInv, Awaits, Unanswered
  <2>3. QED
    BY <2>1, <2>2 DEF AwaitsInv
<1>3. QED
  BY <1>1, <1>2

(* So it holds in every state.                                             *)
LEMMA AwaitsAlways == RingsSuffice /\ Spec => []AwaitsInv
<1> SUFFICES ASSUME RingsSuffice PROVE Spec => []AwaitsInv
  OBVIOUS
<1>1. Init => AwaitsInv
  BY NothingAsked, TypedInit DEF AwaitsInv
<1>2. AwaitsInv /\ [Next]_vars => AwaitsInv'
  BY AwaitsInvStep
<1>3. QED
  BY <1>1, <1>2, PTL DEF Spec

(* In every state, one in which an assertion has failed included, the ring *)
(* of an end holds the heads of the answers that come back to it and of    *)
(* its requests that go out, one for each, in order.                       *)
THEOREM RingsMatch == RingsSuffice /\ Spec => []RingMatchesTraffic
<1> SUFFICES ASSUME RingsSuffice PROVE Spec => []RingMatchesTraffic
  OBVIOUS
<1>1. AwaitsInv => RingMatchesTraffic
  BY DEF AwaitsInv, Awaits, Fits, Matches, RingMatchesTraffic
<1>2. Spec => []AwaitsInv
  BY AwaitsAlways
<1>3. QED
  BY <1>1, <1>2, PTL

(* The assertions that a message fails, or the others.                     *)
LEMMA Faults ==
  ASSUME [Next]_vars
  PROVE  \/ fault' = fault
         \/ \E p \in Peer : Send(p) /\ RoomOf(p) < NeedBytes(p)
                           /\ fault' = "cannot_push_head_inside_fifo"
         \/ \E p \in Peer : /\ Send(p) /\ fault' = "fifo_is_empty"
                           /\ at[p].type = "write_fifo"
                           /\ Len(Outgoing(p).data) < at[p].len
         \/ UsbReceive /\ fault' = "siorx_overflow"
         \/ \E q \in Peer : out[Other(q)] # <<>> /\ fault' = AssertionOn(q, Head(out[Other(q)]))
<1>1. ASSUME NEW p \in Peer, Library(p)
      PROVE  \/ fault' = fault
             \/ Send(p) /\ RoomOf(p) < NeedBytes(p) /\ fault' = "cannot_push_head_inside_fifo"
             \/ /\ Send(p) /\ fault' = "fifo_is_empty"
                /\ at[p].type = "write_fifo" /\ Len(Outgoing(p).data) < at[p].len
             \/ out[Other(p)] # <<>> /\ fault' = AssertionOn(p, Head(out[Other(p)]))
  <2>1. CASE Slot(p) \/ Room(p) \/ Flush(p)
    BY <2>1 DEF Slot, Room, Flush
  <2>2. CASE HandleOne(p)
    BY <2>2 DEF HandleOne, Handle
  <2>3. CASE Send(p)
    <3>1. Outgoing(p).type = at[p].type /\ Outgoing(p).len = at[p].len
      BY DEF Outgoing, Request
    <3>2. QED
      BY <2>3, <3>1 DEF Send
  <2>4. QED
    BY <1>1, <2>1, <2>2, <2>3 DEF Library
<1>2. CASE WaitAll \/ WaitMore \/ FlushTry \/ BoardPush \/ BoardPushed
  BY <1>2 DEF WaitAll, WaitMore, FlushTry, BoardPush, BoardPushed
<1>3. CASE TryAll
  BY <1>3, Ends DEF TryAll, Try, Handle
<1>4. CASE BoardTry
  BY <1>4, Ends DEF BoardTry, Try, Handle
<1>5. CASE UsbReceive
  BY <1>5 DEF UsbReceive
<1>6. CASE UsbTransmit \/ UNCHANGED vars
  BY <1>6 DEF UsbTransmit, vars
<1>7. CASE \E type \in Calls : Call(type)
  BY <1>7 DEF Call
<1>8. CASE \E p \in Peer : Produce(p) \/ Consume(p)
  BY <1>8 DEF Produce, Consume
<1>9. QED
  BY <1>1, <1>2, <1>3, <1>4, <1>5, <1>6, <1>7, <1>8 DEF Next, Host, Board

(* The assertions about the answers that come.                             *)
Unexpected == {"transaction_empty_but_receive_respond",
               "ret_and_request_must_be_the_same_type",
               "transaction_length_not_equal"}

(* The answer that comes first is the one that the oldest head is for.     *)
LEMMA AnswerExpected ==
  ASSUME Typed, Awaits, NEW q \in Peer, out[Other(q)] # <<>>
  PROVE  AssertionOn(q, Head(out[Other(q)])) \in {"none", "fifo_is_not_enough_to_write"}
<1> DEFINE m == Head(out[Other(q)])
<1>1. CASE ~m.ret
  BY <1>1 DEF AssertionOn
<1>2. CASE m.ret /\ q \notin Keeps
  BY <1>2 DEF AssertionOn
<1>3. CASE m.ret /\ q \in Keeps
  <2>1. Traffic /\ Rings
    BY DEF Typed
  <2>2. /\ Other(q) \in Peer /\ out[Other(q)] \in Seq(Message) /\ Requests(out[q]) \in Seq(Message)
    BY <2>1, TrafficTypes
  <2>3. /\ Tail(out[Other(q)]) \in Seq(Message) /\ m \in Message
        /\ Answers(out[Other(q)]) = <<m>> \o Answers(Tail(out[Other(q)]))
    BY <1>3, <2>2, ListsTail
  <2>4. Answers(Tail(out[Other(q)])) \in Seq(Message)
    BY <2>3, ListTypes
  <2> HIDE DEF m
  <2>5. PICK b \in Seq(Message), r \in Seq(Message) :
           b = Answers(Tail(out[Other(q)])) /\ r = Requests(out[q])
    BY <2>2, <2>4
  <2>6. PICK c \in Seq(Message) : c = <<m>>
    <3>1. <<m>> \in Seq(Message)
      BY <2>3
    <3>2. QED
      BY <3>1, Zenon
  <2>7. PICK u \in Seq(Message) : u = b \o r
    <3>1. b \o r \in Seq(Message)
      OBVIOUS
    <3>2. QED
      BY <3>1, Zenon
  <2>8. Unanswered(q) = <<m>> \o u
    <3>1. Unanswered(q) = (c \o b) \o r
      BY <2>3, <2>5, <2>6 DEF Unanswered
    <3>2. (c \o b) \o r = c \o (b \o r)
      BY Associative
    <3>3. QED
      BY <2>6, <2>7, <3>1, <3>2
  <2>9. Fits(ring[q], <<m>> \o u) /\ ring[q] \in Seq(Heads)
    BY <1>3, <2>1, <2>8 DEF Awaits, Rings
  <2>10. ring[q] # <<>> /\ Matches(Head(ring[q]), m)
    BY <2>3, <2>9, FitsTail
  <2>11. m.type \in Types /\ m.len \in Nat /\ Head(ring[q]).len \in Nat
    <3>1. Head(ring[q]) \in Heads
      BY <2>9, <2>10
    <3>2. QED
      BY <2>3, <3>1, Lengths DEF Message, Heads
  <2>12. AssertionOn(q, m) = "none"
    BY <1>3, <2>10, <2>11 DEF AssertionOn, Matches
  <2>13. QED
    BY <2>12 DEF m
<1>4. QED
  BY <1>1, <1>2, <1>3

(* No answer comes without a head that waits for it, and none is of        *)
(* another type or of a wrong length.                                      *)
AnswersExpected == fault \notin Unexpected

(* No step lets one of these assertions fail, since each answer has its    *)
(* head in the ring.                                                       *)
LEMMA ExpectedStep ==
  ASSUME RingsSuffice, AwaitsInv, AnswersExpected, [Next]_vars
  PROVE  AnswersExpected'
<1>1. CASE Running
  <2>1. Typed /\ Awaits
    BY <1>1 DEF AwaitsInv
  <2>2. ASSUME NEW q \in Peer, out[Other(q)] # <<>>, fault' = AssertionOn(q, Head(out[Other(q)]))
        PROVE  fault' \notin Unexpected
    <3>1. fault' \in {"none", "fifo_is_not_enough_to_write"}
      BY <2>1, <2>2, AnswerExpected
    <3>2. QED
      BY <3>1 DEF Unexpected
  <2>3. fault \notin Unexpected
    BY DEF AnswersExpected
  <2>4. fault' \notin Unexpected
    BY <2>2, <2>3, Faults DEF Unexpected
  <2>5. QED
    BY <2>4 DEF AnswersExpected, Unexpected
<1>2. CASE ~Running
  BY <1>2, Stopped DEF AnswersExpected, Unexpected
<1>3. QED
  BY <1>1, <1>2

(* Every answer is awaited.  Two more assertions that never fail come with *)
(* it: the answer has the type and the length that its request had.        *)
THEOREM Awaited == RingsSuffice /\ Spec => [](AnswersAreAwaited /\ AnswersExpected)
<1> SUFFICES ASSUME RingsSuffice PROVE Spec => [](AnswersAreAwaited /\ AnswersExpected)
  OBVIOUS
<1>1. Init => AnswersExpected
  BY DEF Init, AnswersExpected, Unexpected
<1>2. AwaitsInv /\ AnswersExpected /\ [Next]_vars => AnswersExpected'
  BY ExpectedStep
<1>3. Spec => []AwaitsInv
  BY AwaitsAlways
<1>4. AnswersExpected => AnswersAreAwaited
  BY DEF AnswersExpected, Unexpected, AnswersAreAwaited
<1>5. QED
  BY <1>1, <1>2, <1>3, <1>4, PTL DEF Spec

(* The streams, up to and in a state with a failed assertion.              *)
IntactInv == StreamsIntact /\ (Running => Typed /\ Ready)

(* Every step keeps them.                                                  *)
LEMMA IntactInvStep ==
  ASSUME ReadsFit, IntactInv, [Next]_vars
  PROVE  IntactInv'
<1>1. CASE Running
  <2>1. Typed /\ Ready /\ StreamsIntact
    BY <1>1 DEF IntactInv
  <2>2. Places /\ Memory /\ Traffic
    BY <2>1 DEF Typed
  <2>3. StreamsIntact'
    BY <2>1, <2>2, StreamsStep
  <2>4. Ready'
    BY <2>1, <2>2, ReadyStep
  <2>5. Running' => Typed'
    BY <2>1, TypedStep
  <2>6. QED
    BY <2>3, <2>4, <2>5 DEF IntactInv
<1>2. CASE ~Running
  <2>1. ~Running' /\ UNCHANGED <<out, fifo, history>>
    BY <1>2, Stopped
  <2>2. StreamsIntact'
    BY <2>1 DEF IntactInv, StreamsIntact, InTransit, history
  <2>3. QED
    BY <2>1, <2>2 DEF IntactInv
<1>3. QED
  BY <1>1, <1>2

(* So they are intact in every state.                                      *)
LEMMA IntactAlways == ReadsFit /\ Spec => []IntactInv
<1> SUFFICES ASSUME ReadsFit PROVE Spec => []IntactInv
  OBVIOUS
<1>1. Init => IntactInv
  BY NothingAsked, TypedInit DEF IntactInv
<1>2. IntactInv /\ [Next]_vars => IntactInv'
  BY IntactInvStep
<1>3. QED
  BY <1>1, <1>2, PTL DEF Spec

(* No byte of either stream is lost, repeated or overtaken on its way from *)
(* fifo to fifo, whichever of the two ways it goes, and whatever assertion *)
(* stops the program; only clear_fifo throws bytes away.                   *)
THEOREM StreamsKept == ReadsFit /\ Spec => []StreamsIntact
<1> SUFFICES ASSUME ReadsFit PROVE Spec => []StreamsIntact
  OBVIOUS
<1>1. IntactInv => StreamsIntact
  BY DEF IntactInv
<1>2. Spec => []IntactInv
  BY IntactAlways
<1>3. QED
  BY <1>1, <1>2, PTL

-----------------------------------------------------------------------------
(* The calls that the two ends make each other.                            *)

(* The state of RemoteCalls, and its names.                                *)
Todo    == [p \in Peer |-> Requests(out[p])]
Replies == [p \in Peer |-> Answers(out[Other(p)])]

(* The two modules mean the same by ends, types and streams.               *)
LEMMA RemoteNames ==
  /\ Remote!Peer = Peer /\ Remote!Types = Types /\ {"up", "down"} = Stream
  /\ \A p \in Peer : Remote!Other(p) = Other(p) /\ Remote!Fills(p) = FifoOf(p)
  BY DEF Remote!Peer, Remote!Types, Remote!Other, Remote!Fills, Peer, Types, Stream,
         Other, FifoOf

(* Nothing happens that either end could tell.                             *)
LEMMA RemoteStutters ==
  ASSUME UNCHANGED <<ring, out, value, fifo>>
  PROVE  UNCHANGED Remote!vars
  BY DEF Remote!vars

(* A request is made.                                                      *)
LEMMA SendAsks ==
  ASSUME RingsSuffice, Places, Memory, Traffic, Rings, Asking, Ready,
         NEW p \in Peer, Send(p)
  PROVE  Remote!Ask(p, at[p].type, at[p].len)
<1> DEFINE m == Outgoing(p)
           f == FifoOf(p)
           len == at[p].len
           type == at[p].type
           data == CASE type = "write"      -> <<value[p]>>
                     [] type = "write_fifo" -> SubSeq(fifo[p][f], 1, len)
                     [] OTHER               -> <<>>
<1>1. /\ m \in Message /\ ~m.ret /\ out'[p] = Append(out[p], m)
      /\ \A e \in Peer : out[e] \in Seq(Message) /\ (e # p => out'[e] = out[e])
  BY OutAfterSend
<1>2. /\ ring' = IF p \notin Keeps THEN ring
                ELSE [ring EXCEPT ![p] = PutHead(@, [type |-> m.type, len |-> m.len])]
      /\ fifo' = IF m.type # "write_fifo" THEN fifo
                ELSE [fifo EXCEPT ![p][FifoOf(p)] = SubSeq(@, m.len + 1, Len(@))]
      /\ at[p].do = "room" /\ value' = value
  BY DEF Send
<1>3. type = "write_fifo" => len <= Len(fifo[p][f])
  BY <1>2 DEF Ready, Calling, Stock
<1>4. len \in Nat /\ Len(fifo[p][f]) \in Nat /\ f \in Stream
  <2>1. at[p].len \in 0..FifoLength /\ fifo[p][f] \in Seq(Nat) /\ f \in Stream
    BY DEF Places, PlaceOf, Place, Memory, Fifos, FifoOf, Stream
  <2>2. QED
    BY <2>1, Lengths
<1>5. m = [type |-> type, ret |-> FALSE, len |-> len, data |-> data]
  <2>1. type = "write_fifo" => Smaller(len, Len(fifo[p][f])) = len
    BY <1>3, <1>4 DEF Smaller
  <2>2. QED
    BY <2>1 DEF Outgoing, Request
<1>6. \A e \in Peer : Other(e) \in Peer
  BY DEF Other, Peer
<1> HIDE DEF m
<1>7. /\ Requests(out'[p]) = Append(Requests(out[p]), m)
      /\ \A e \in Peer : Answers(out'[e]) = Answers(out[e])
      /\ \A e \in Peer : e # p => Requests(out'[e]) = Requests(out[e])
  <2>1. out[p] \in Seq(Message)
    BY <1>1
  <2>2. /\ Requests(Append(out[p], m)) = Append(Requests(out[p]), m)
        /\ Answers(Append(out[p], m)) = Answers(out[p])
    BY <1>1, <2>1, ListsAppend
  <2>3. ASSUME NEW e \in Peer
        PROVE  /\ Answers(out'[e]) = Answers(out[e])
               /\ e # p => Requests(out'[e]) = Requests(out[e])
    BY <1>1, <2>2
  <2>4. QED
    BY <1>1, <2>2, <2>3
<1>8. Todo' = [Todo EXCEPT ![p] = Append(@, m)]
  BY <1>7 DEF Todo
<1>9. Replies' = Replies
  BY <1>6, <1>7 DEF Replies
<1>10. ring' = IF p \in Keeps
               THEN [ring EXCEPT ![p] = Append(@, [type |-> type, len |-> len])]
               ELSE ring
  <2>1. CASE p \in Keeps
    <3>1. PICK h : h = [type |-> type, len |-> len]
      OBVIOUS
    <3>2. m.type = type /\ m.len = len
      BY <1>5
    <3>3. ring' = [ring EXCEPT ![p] = PutHead(@, h)]
      BY <1>2, <2>1, <3>1, <3>2
    <3>4. Len(ring[p]) + 1 < RingLength /\ Len(ring[p]) \in Nat
      BY <1>2, <2>1, RoomInRing
    <3>5. PutHead(ring[p], h) = Append(ring[p], h)
      BY <3>4, AskLengths DEF PutHead
    <3>6. QED
      BY <2>1, <3>1, <3>3, <3>5 DEF Rings
  <2>2. CASE p \notin Keeps
    BY <1>2, <2>2
  <2>3. QED
    BY <2>1, <2>2
<1>11. fifo' = IF type = "write_fifo"
               THEN [fifo EXCEPT ![p][f] = SubSeq(@, len + 1, Len(@))] ELSE fifo
  <2>1. m.type = type /\ m.len = len
    BY <1>5
  <2>2. QED
    BY <1>2, <2>1
<1>12. Todo' = [Todo EXCEPT ![p] =
                  Append(@, [type |-> type, ret |-> FALSE, len |-> len, data |-> data])]
  BY <1>5, <1>8
<1>13. Remote!Fills(p) = f
  BY RemoteNames
<1> HIDE DEF f, type, len
<1>14. QED
  BY <1>2, <1>3, <1>9, <1>10, <1>11, <1>12, <1>13
  DEF Remote!Ask, Remote!Behind, Todo, Replies, f, type, len

(* What handling a message m of p = Other(q) does to the lists.            *)
LEMMA ListsHandled ==
  ASSUME Memory, Traffic, NEW q \in Peer, Handled(q)
  PROVE  LET p == Other(q)
             m == Head(out[p])
         IN  /\ m.ret => /\ Replies[q] # <<>> /\ m = Head(Replies[q])
                         /\ Replies' = [Replies EXCEPT ![q] = Tail(@)]
                         /\ Todo' = Todo
             /\ ~m.ret => /\ Todo[p] # <<>> /\ m = Head(Todo[p])
                          /\ Todo' = [Todo EXCEPT ![p] = Tail(@)]
                          /\ Replies' = [Replies EXCEPT ![p] = Append(@, AnswerTo(q, m))]
<1> DEFINE p == Other(q)
           m == Head(out[p])
<1>1. /\ p \in Peer /\ p # q /\ out[p] # <<>> /\ m \in Good(p, made) /\ m \in Message
      /\ out[p] \in Seq(Message) /\ out[q] \in Seq(Message)
      /\ out'[p] = Tail(out[p]) /\ Tail(out[p]) \in Seq(Message)
      /\ m.ret => out'[q] = out[q]
      /\ ~m.ret => /\ AnswerTo(q, m) \in Message /\ AnswerTo(q, m).ret
                   /\ out'[q] = Append(out[q], AnswerTo(q, m))
  BY OutAfterHandling
<1>2. /\ Answers(out[p]) = IF m.ret THEN <<m>> \o Answers(Tail(out[p])) ELSE Answers(Tail(out[p]))
      /\ Requests(out[p]) = IF m.ret THEN Requests(Tail(out[p]))
                            ELSE <<m>> \o Requests(Tail(out[p]))
  BY <1>1, ListsTail
<1>3. Answers(Tail(out[p])) \in Seq(Message) /\ Requests(Tail(out[p])) \in Seq(Message)
  BY <1>1, ListTypes
<1> HIDE DEF m
<1>4. PICK a : a = AnswerTo(q, m)
  OBVIOUS
<1>5. ~m.ret => /\ Answers(out'[q]) = Append(Answers(out[q]), a)
                /\ Requests(out'[q]) = Requests(out[q])
  BY <1>1, <1>4, ListsAppend
<1>6. ASSUME NEW s \in Seq(Message)
      PROVE  <<m>> \o s # <<>> /\ Head(<<m>> \o s) = m /\ Tail(<<m>> \o s) = s
  BY <1>1
<1>7. Other(p) = q /\ \A e \in Peer : e = p \/ e = q
  BY DEF Other, Peer
<1> HIDE DEF p
<1>8. CASE m.ret
  <2>1. PICK s \in Seq(Message) : s = Answers(Tail(out[p]))
    BY <1>3
  <2>2. Answers(out[p]) = <<m>> \o s /\ Answers(out'[p]) = s
    BY <1>1, <1>2, <1>8, <2>1
  <2>3. Answers(out[p]) # <<>> /\ Head(Answers(out[p])) = m /\ Answers(out'[p]) = Tail(Answers(out[p]))
    BY <1>6, <2>2
  <2>4. Answers(out'[q]) = Answers(out[q]) /\ Requests(out'[q]) = Requests(out[q])
        /\ Requests(out'[p]) = Requests(out[p])
    BY <1>1, <1>2, <1>8
  <2>5. Replies[q] = Answers(out[p]) /\ Replies[p] = Answers(out[q])
        /\ Replies'[q] = Answers(out'[p]) /\ Replies'[p] = Answers(out'[q])
    BY <1>1, <1>7 DEF Replies, p
  <2>6. Replies' = [Replies EXCEPT ![q] = Tail(@)]
    <3>1. Replies = [x \in Peer |-> Replies[x]] /\ Replies' = [x \in Peer |-> Replies'[x]]
      BY DEF Replies
    <3>2. \A x \in Peer : Replies'[x] = IF x = q THEN Tail(Replies[q]) ELSE Replies[x]
      BY <1>1, <1>7, <2>3, <2>4, <2>5
    <3>3. QED
      BY <3>1, <3>2
  <2>7. Todo' = Todo
    BY <1>7, <2>4 DEF Todo
  <2>8. QED
    BY <1>8, <2>3, <2>5, <2>6, <2>7 DEF m, p
<1>9. CASE ~m.ret
  <2>1. PICK s \in Seq(Message) : s = Requests(Tail(out[p]))
    BY <1>3
  <2>2. Requests(out[p]) = <<m>> \o s /\ Requests(out'[p]) = s
    BY <1>1, <1>2, <1>9, <2>1
  <2>3. Requests(out[p]) # <<>> /\ Head(Requests(out[p])) = m /\ Requests(out'[p]) = Tail(Requests(out[p]))
    BY <1>6, <2>2
  <2>4. Answers(out'[p]) = Answers(out[p])
    BY <1>1, <1>2, <1>9
  <2>5. Replies[q] = Answers(out[p]) /\ Replies[p] = Answers(out[q])
        /\ Replies'[q] = Answers(out'[p]) /\ Replies'[p] = Answers(out'[q])
    BY <1>1, <1>7 DEF Replies, p
  <2>6. Replies' = [Replies EXCEPT ![p] = Append(@, a)]
    <3>1. Replies = [x \in Peer |-> Replies[x]] /\ Replies' = [x \in Peer |-> Replies'[x]]
      BY DEF Replies
    <3>2. \A x \in Peer : Replies'[x] = IF x = p THEN Append(Replies[p], a) ELSE Replies[x]
      BY <1>1, <1>5, <1>7, <1>9, <2>4, <2>5
    <3>3. QED
      BY <1>1, <3>1, <3>2
  <2>7. Todo[p] = Requests(out[p]) /\ Todo[q] = Requests(out[q])
        /\ Todo'[p] = Requests(out'[p]) /\ Todo'[q] = Requests(out'[q])
    BY <1>1 DEF Todo
  <2>8. Todo' = [Todo EXCEPT ![p] = Tail(@)]
    <3>1. Todo = [x \in Peer |-> Todo[x]] /\ Todo' = [x \in Peer |-> Todo'[x]]
      BY DEF Todo
    <3>2. \A x \in Peer : Todo'[x] = IF x = p THEN Tail(Todo[p]) ELSE Todo[x]
      BY <1>1, <1>5, <1>7, <1>9, <2>3, <2>7
    <3>3. QED
      BY <1>1, <3>1, <3>2
  <2>9. QED
    BY <1>4, <1>9, <2>3, <2>6, <2>7, <2>8 DEF m, p
<1>10. QED
  BY <1>8, <1>9

(* A request is carried out ...                                            *)
LEMMA HandledExecutes ==
  ASSUME ReadsFit, Memory, Traffic, NEW q \in Peer, Handled(q), Intact(Other(q)),
         ~Head(out[Other(q)]).ret
  PROVE  Remote!Execute(Other(q))
<1> DEFINE p == Other(q)
           m == Head(out[p])
           f == FifoOf(p)
           n == Smaller(m.len, Len(fifo[q]["up"]))
           a == AnswerTo(q, m)
<1>1. p \in Peer /\ p # q /\ out[p] # <<>> /\ m \in Good(p, made) /\ m \in Message
  BY OutAfterHandling
<1>2. /\ Todo[p] # <<>> /\ m = Head(Todo[p])
      /\ Todo' = [Todo EXCEPT ![p] = Tail(@)]
      /\ Replies' = [Replies EXCEPT ![p] = Append(@, a)]
  BY ListsHandled
<1>3. /\ value' = [value EXCEPT ![q] = NewValue(q, m)]
      /\ fifo' = [fifo EXCEPT ![q] = NewFifo(q, m)]
      /\ ring' = ring
  BY DEF Handled, Apply
<1>4. /\ fifo \in [Peer -> [Stream -> Seq(Nat)]] /\ value \in [Peer -> Values]
  BY DEF Memory, Fifos
<1>5. /\ m.type \in Types /\ ~m.ret
      /\ m.type \in {"read", "write"} => m.len = 1
      /\ m.type = "clear_fifo" => m.len = 0
  BY <1>1 DEF Good, Message
<1>6. /\ Remote!Other(p) = q /\ Remote!Fills(p) = f /\ f \in Stream
  BY <1>1, RemoteNames, TwoStreams
<1>7. Enque(fifo[q][f], m.data) = fifo[q][f] \o m.data \/ m.type # "write_fifo"
  BY <1>5, Fitting DEF Carrying
<1>8. Remote!Least(m.len, Len(fifo[q]["up"])) = n
  BY DEF Remote!Least, Smaller
<1>9. m.type \notin {"write"} => value' = value
  BY <1>3, <1>4, <1>5 DEF NewValue
<1>10. m.type \in {"read", "write"} => fifo' = fifo
  BY <1>3, <1>4, <1>5, SMTT(30) DEF NewFifo
<1>11. UNCHANGED ring
  BY <1>3
<1> HIDE DEF m, a, n, f, p
<1>12. CASE m.type = "read"
  <2>1. a = [type |-> m.type, ret |-> TRUE, len |-> 1, data |-> <<value[q]>>]
    BY <1>12, SMTT(30) DEF a, AnswerTo, Answer
  <2>2. QED
    BY <1>2, <1>6, <1>9, <1>10, <1>11, <1>12, <2>1 DEF Remote!Execute, Todo, Replies, p, m
<1>13. CASE m.type = "write"
  <2>1. a = [type |-> m.type, ret |-> TRUE, len |-> 1, data |-> <<>>]
    BY <1>5, <1>13 DEF a, AnswerTo, Acknowledge
  <2>2. value' = [value EXCEPT ![q] = m.data[1]]
    BY <1>3, <1>5, <1>13 DEF NewValue
  <2>3. QED
    BY <1>2, <1>6, <1>10, <1>11, <1>13, <2>1, <2>2 DEF Remote!Execute, Todo, Replies, p, m
<1>14. CASE m.type = "read_fifo"
  <2>1. PICK d : d = SubSeq(fifo[q]["up"], 1, n)
    OBVIOUS
  <2>2. Len(d) = n
    <3>1. fifo[q]["up"] \in Seq(Nat) /\ Len(fifo[q]["up"]) \in Nat
      BY <1>4 DEF Stream
    <3>2. m.len \in Nat
      BY <1>1, Lengths DEF Message
    <3>3. n \in Nat /\ n <= Len(fifo[q]["up"])
      BY <3>1, <3>2 DEF n, Smaller
    <3>4. QED
      BY <2>1, <3>1, <3>3, Halves
  <2>3. a = [type |-> m.type, ret |-> TRUE, len |-> n, data |-> d]
    BY <1>14, <2>1, <2>2 DEF a, n, AnswerTo, Answer
  <2>4. fifo' = [fifo EXCEPT ![q]["up"] = SubSeq(@, n + 1, Len(@))]
    <3>1. NewFifo(q, m) = [fifo[q] EXCEPT !["up"] = SubSeq(@, n + 1, Len(@))]
      BY <1>4, <1>5, <1>14 DEF NewFifo, n, Stream
    <3>2. QED
      BY <1>3, <1>4, <3>1
  <2>5. QED
    BY <1>2, <1>6, <1>8, <1>9, <1>11, <1>14, <2>1, <2>3, <2>4
    DEF Remote!Execute, Remote!Behind, Todo, Replies, p, m
<1>15. CASE m.type = "write_fifo"
  <2>1. a = [type |-> m.type, ret |-> TRUE, len |-> m.len, data |-> <<>>]
    BY <1>15 DEF a, AnswerTo, Acknowledge
  <2>2. fifo' = [fifo EXCEPT ![q][f] = @ \o m.data]
    <3>1. NewFifo(q, m) = [fifo[q] EXCEPT ![f] = Enque(@, m.data)]
      BY <1>5, <1>15 DEF NewFifo, f, p
    <3>2. NewFifo(q, m) = [fifo[q] EXCEPT ![f] = @ \o m.data]
      BY <1>4, <1>6, <1>7, <1>15, <3>1
    <3>3. QED
      BY <1>3, <1>4, <3>2
  <2>3. QED
    BY <1>2, <1>6, <1>9, <1>11, <1>15, <2>1, <2>2 DEF Remote!Execute, Todo, Replies, p, m
<1>16. CASE m.type = "clear_fifo"
  <2>1. a = [type |-> m.type, ret |-> TRUE, len |-> 0, data |-> <<>>]
    BY <1>16 DEF a, AnswerTo, Acknowledge
  <2>2. fifo' = [fifo EXCEPT ![q][f] = <<>>]
    <3>1. NewFifo(q, m) = [fifo[q] EXCEPT ![f] = <<>>]
      BY <1>5, <1>16 DEF NewFifo, f, p
    <3>2. QED
      BY <1>3, <1>4, <3>1
  <2>3. QED
    BY <1>2, <1>6, <1>9, <1>11, <1>16, <2>1, <2>2 DEF Remote!Execute, Todo, Replies, p, m
<1>17. QED
  BY <1>5, <1>12, <1>13, <1>14, <1>15, <1>16 DEF Types, p

(* ... and its answer comes back.                                          *)
LEMMA HandledCompletes ==
  ASSUME ReadsFit, Memory, Traffic, Rings, Awaits, NEW q \in Peer, Handled(q), Intact(Other(q)),
         Head(out[Other(q)]).ret
  PROVE  Remote!Complete(q)
<1> DEFINE p == Other(q)
           m == Head(out[p])
<1>1. p \in Peer /\ p # q /\ out[p] # <<>> /\ m \in Good(p, made) /\ m \in Message
  BY OutAfterHandling
<1>2. /\ Replies[q] # <<>> /\ m = Head(Replies[q])
      /\ Replies' = [Replies EXCEPT ![q] = Tail(@)] /\ Todo' = Todo
  BY ListsHandled
<1>3. /\ value' = [value EXCEPT ![q] = NewValue(q, m)]
      /\ fifo' = [fifo EXCEPT ![q] = NewFifo(q, m)]
      /\ ring' = IF q \in Keeps THEN [ring EXCEPT ![q] = Tail(@)] ELSE ring
      /\ AssertionOn(q, m) = "none"
  BY DEF Handled, Apply
<1>4. /\ fifo \in [Peer -> [Stream -> Seq(Nat)]] /\ value \in [Peer -> Values]
  BY DEF Memory, Fifos
<1>5. m.ret /\ m.type \in Types
  BY <1>1 DEF Message
<1>6. m.type = "read_fifo" => q = "pc" /\ FifoOf(p) = "up"
  BY <1>1, <1>5, Ends DEF Good, MayAsk, Peer
<1>7. m.type = "read_fifo" => Enque(fifo[q]["up"], m.data) = fifo[q]["up"] \o m.data
  BY <1>5, <1>6, Fitting DEF Carrying
<1> HIDE DEF m, p
<1>8. CASE q \notin Keeps
  <2>1. value' = value /\ fifo' = fifo /\ ring' = ring
    BY <1>3, <1>4, <1>5, <1>8, SMTT(30) DEF NewValue, NewFifo
  <2>2. QED
    BY <1>2, <1>8, <2>1 DEF Remote!Complete, Todo, Replies
<1>9. CASE q \in Keeps
  <2>1. ring[q] # <<>> /\ m.type = Head(ring[q]).type
    BY <1>3, <1>5, <1>9 DEF AssertionOn
  <2>2. value' = IF m.type = "read" THEN [value EXCEPT ![q] = m.data[1]] ELSE value
    <3>1. NewValue(q, m) = IF m.type = "read" THEN m.data[1] ELSE value[q]
      BY <1>5, <1>9 DEF NewValue
    <3>2. QED
      BY <1>3, <1>4, <3>1
  <2>3. fifo' = IF m.type = "read_fifo" THEN [fifo EXCEPT ![q]["up"] = @ \o m.data] ELSE fifo
    <3>1. CASE m.type = "read_fifo"
      <4>1. NewFifo(q, m) = [fifo[q] EXCEPT !["up"] = Enque(@, m.data)]
        BY <1>4, <1>5, <1>9, <3>1 DEF NewFifo
      <4>2. NewFifo(q, m) = [fifo[q] EXCEPT !["up"] = @ \o m.data]
        BY <1>4, <1>7, <3>1, <4>1 DEF Stream
      <4>3. QED
        BY <1>3, <1>4, <3>1, <4>2
    <3>2. CASE m.type # "read_fifo"
      <4>1. NewFifo(q, m) = fifo[q]
        BY <1>5, <3>2 DEF NewFifo
      <4>2. QED
        BY <1>3, <1>4, <3>2, <4>1
    <3>3. QED
      BY <3>1, <3>2
  <2>4. ring' = [ring EXCEPT ![q] = Tail(@)]
    BY <1>3, <1>9
  <2>5. QED
    BY <1>2, <1>9, <2>1, <2>2, <2>3, <2>4 DEF Remote!Complete, Todo, Replies
<1>10. QED
  BY <1>8, <1>9

(* The programs at the two ends work on their own memory.                  *)
LEMMA OwnMemory ==
  ASSUME Memory,
         \/ \E type \in Calls : Call(type)
         \/ \E p \in Peer : Produce(p) \/ Consume(p)
  PROVE  (\E p \in Peer : Remote!Local(p)) \/ UNCHANGED Remote!vars
<1>1. /\ fifo \in [Peer -> [Stream -> Seq(Nat)]] /\ made \in [Stream -> Nat]
      /\ \A p \in Peer : FifoOf(p) \in Stream /\ FifoOf(Other(p)) \in Stream
  BY DEF Memory, Fifos, FifoOf, Stream
<1>2. ASSUME UNCHANGED <<ring, out>>
      PROVE  Todo' = Todo /\ Replies' = Replies /\ ring' = ring
  BY <1>2 DEF Todo, Replies
<1>3. ASSUME NEW type \in Calls, Call(type)
      PROVE  (\E p \in Peer : Remote!Local(p)) \/ UNCHANGED Remote!vars
  <2>1. UNCHANGED <<ring, out>> /\ fifo' = fifo
    BY <1>3 DEF Call
  <2>2. CASE type = "write"
    <3>1. \E v \in Values : value' = [value EXCEPT !["pc"] = v]
      BY <1>3, <2>2 DEF Call
    <3>2. Remote!Local("pc")
      BY <1>2, <2>1, <3>1 DEF Remote!Local, Todo, Replies
    <3>3. QED
      BY <3>2, Ends
  <2>3. CASE type # "write"
    <3>1. value' = value
      BY <1>3, <2>3 DEF Call
    <3>2. QED
      BY <2>1, <3>1, RemoteStutters
  <2>4. QED
    BY <2>2, <2>3
<1>4. ASSUME NEW p \in Peer, Produce(p)
      PROVE  Remote!Local(p)
  <2>1. PICK f \in Stream : f = FifoOf(p)
    BY <1>1
  <2>2. PICK b : b = made[f] + 1
    OBVIOUS
  <2>3. b \in 1..(MaxMade["up"] + MaxMade["down"])
    <3>1. made[f] < MaxMade[f] /\ made[f] \in Nat
      BY <1>1, <1>4, <2>1 DEF Produce
    <3>2. MaxMade["up"] \in Nat /\ MaxMade["down"] \in Nat
      BY BoundsAssumption
    <3>3. MaxMade[f] <= MaxMade["up"] + MaxMade["down"] /\ MaxMade[f] \in Nat
      BY <3>2 DEF Stream
    <3>4. QED
      BY <2>2, <3>1, <3>2, <3>3
  <2>4. fifo' = [fifo EXCEPT ![p][f] = Append(@, b)] /\ value' = value /\ UNCHANGED <<ring, out>>
    BY <1>4, <2>1, <2>2 DEF Produce
  <2>5. f \in {"up", "down"}
    BY DEF Stream
  <2>6. Todo' = Todo /\ Replies' = Replies /\ ring' = ring
    BY <1>2, <2>4
  <2>7. QED
    BY <2>3, <2>4, <2>5, <2>6 DEF Remote!Local, Todo, Replies
<1>5. ASSUME NEW p \in Peer, Consume(p)
      PROVE  Remote!Local(p)
  <2>1. PICK f \in Stream : f = FifoOf(Other(p))
    BY <1>1
  <2>2. /\ fifo[p][f] # <<>> /\ fifo' = [fifo EXCEPT ![p][f] = Tail(@)]
        /\ value' = value /\ UNCHANGED <<ring, out>>
    BY <1>5, <2>1 DEF Consume
  <2>3. f \in {"up", "down"}
    BY DEF Stream
  <2>4. Todo' = Todo /\ Replies' = Replies /\ ring' = ring
    BY <1>2, <2>2
  <2>5. QED
    BY <2>2, <2>3, <2>4 DEF Remote!Local, Todo, Replies
<1>6. QED
  BY <1>3, <1>4, <1>5

(* Every step is one of RemoteCalls, or changes nothing it speaks of.      *)
LEMMA RemoteStep ==
  ASSUME RingsSuffice, ReadsFit, AwaitsInv, IntactInv, [Next]_vars
  PROVE  [Remote!Next]_(Remote!vars)
<1>1. CASE Running
  <2>1. Typed /\ Asking /\ Awaits /\ Ready /\ StreamsIntact
    BY <1>1 DEF AwaitsInv, IntactInv
  <2>2. Places /\ Memory /\ Traffic /\ Rings
    BY <2>1 DEF Typed
  <2>3. CASE Still
    BY <2>3, RemoteStutters DEF Still
  <2>4. CASE \/ \E type \in Calls : Call(type)
             \/ \E p \in Peer : Produce(p) \/ Consume(p)
    <3>1. (\E p \in Peer : Remote!Local(p)) \/ UNCHANGED Remote!vars
      BY <2>2, <2>4, OwnMemory
    <3>2. QED
      BY <3>1, RemoteNames DEF Remote!Next
  <2>5. ASSUME NEW p \in Peer, Send(p)
        PROVE  Remote!Next
    <3>1. Remote!Ask(p, at[p].type, at[p].len)
      BY <2>1, <2>2, <2>5, SendAsks
    <3>2. at[p].type \in Types /\ at[p].len \in 0..FifoLength
      BY <2>2 DEF Places, PlaceOf, Place
    <3>3. p \in Remote!Peer /\ at[p].type \in Remote!Types
      BY <3>2, RemoteNames
    <3>4. QED
      BY <3>1, <3>2, <3>3 DEF Remote!Next
  <2>6. ASSUME NEW q \in Peer, Handled(q)
        PROVE  Remote!Next
    <3>1. Other(q) \in Peer
      BY DEF Other, Peer
    <3>2. Intact(Other(q))
      BY <2>1, <3>1, IntactByEnds
    <3>3. Remote!Execute(Other(q)) \/ Remote!Complete(q)
      BY <2>1, <2>2, <2>6, <3>2, HandledExecutes, HandledCompletes
    <3>4. q \in Remote!Peer /\ Other(q) \in Remote!Peer
      BY <3>1, RemoteNames
    <3>5. QED
      BY <3>3, <3>4 DEF Remote!Next
  <2>7. QED
    BY <2>3, <2>4, <2>5, <2>6, DataSteps
<1>2. CASE ~Running
  <2>1. UNCHANGED vars
    BY <1>2, StepsRun
  <2>2. UNCHANGED <<ring, out, value, fifo>>
    BY <2>1 DEF vars
  <2>3. QED
    BY <2>2, RemoteStutters
<1>3. QED
  BY <1>1, <1>2

(* What the two ends promise together, RemoteCalls: each request is        *)
(* carried out once, in order, and answered once, in order, whatever comes *)
(* between, in as many bytes and packets as it may take.                   *)
THEOREM Implements == RingsSuffice /\ ReadsFit /\ Spec => ImplementsCalls
<1> SUFFICES ASSUME RingsSuffice, ReadsFit PROVE Spec => ImplementsCalls
  OBVIOUS
<1>1. Init => Remote!Init
  <2> SUFFICES ASSUME Init PROVE Remote!Init
    OBVIOUS
  <2>1. Answers(<<>>) = <<>> /\ Requests(<<>>) = <<>>
    BY ListsEmpty
  <2>2. \A p \in Peer : Other(p) \in Peer
    BY DEF Other, Peer
  <2>3. out = [p \in Peer |-> <<>>]
    BY DEF Init
  <2>4. Todo = [p \in Peer |-> <<>>] /\ Replies = [p \in Peer |-> <<>>]
    BY <2>1, <2>2, <2>3 DEF Todo, Replies
  <2>5. QED
    BY <2>4, RemoteNames DEF Init, Remote!Init, Todo, Replies
<1>2. AwaitsInv /\ IntactInv /\ [Next]_vars => [Remote!Next]_(Remote!vars)
  BY RemoteStep
<1>3. Spec => []AwaitsInv /\ []IntactInv
  BY AwaitsAlways, IntactAlways
<1>4. QED
  BY <1>1, <1>2, <1>3, PTL DEF Spec, ImplementsCalls, Remote!Spec

-----------------------------------------------------------------------------
(* The other assertions: bytes under way, and the room there is for them.  *)

(* The most that a request of the PC weighs besides the stream's bytes.    *)
Each == HeadBytes + SumBytes + MaxLen

(* What the code looks for nowhere: siorx of the board has room for all    *)
(* that the rings let be under way to it, and a stream that its program    *)
(* does not reckon with is not longer than a fifo; and what the board's    *)
(* loop does look for is enough for what it pushes.                        *)
BuffersSuffice ==
  /\ RingsSuffice /\ ReadsFit
  /\ Reckons \/ MaxMade["down"] < FifoLength
  /\ RxLength > Each * (RingLength - 1) + AckBytes * MaxPushes
  /\ "mcu" \notin Keeps => PushRoom >= HeadBytes + PushBytes + SumBytes

(* The program on the PC takes what the board pushes before more than a    *)
(* fifo is on its way.  Nothing in the code sees to that: the board pushes *)
(* as many packets as it was told, taken or not.                           *)
TakenInTime == Outstanding("up") < FifoLength

(* Products.                                                               *)
LEMMA Products ==
  /\ \A r, k \in Nat : r * k \in Nat /\ r * (k + 1) = r * k + r
  /\ \A r, j, k \in Nat : j <= k => r * j <= r * k
<1>1. \A r, k \in Nat : r * k \in Nat /\ r * (k + 1) = r * k + r
  OBVIOUS
<1>2. ASSUME NEW r \in Nat, NEW j \in Nat, NEW k \in Nat, j <= k
      PROVE  r * j <= r * k
  <2>1. PICK d \in Nat : k = j + d
    BY <1>2
  <2>2. r * (j + d) = r * j + r * d /\ r * j \in Nat /\ r * d \in Nat
    OBVIOUS
  <2>3. QED
    BY <2>1, <2>2
<1>3. QED
  BY <1>1, <1>2

(* A list of the PC's messages.                                            *)
Weighs(ms) ==
  Bytes(ms) <= Each * Len(Requests(ms)) + AckBytes * Len(Answers(ms))

(* The sizes are numbers.                                                  *)
LEMMA EachBytes ==
  /\ HeadBytes \in Nat /\ SumBytes \in Nat /\ AckBytes \in Nat
  /\ MaxLen \in Nat /\ MaxLen >= 1 /\ Each \in Nat
<1>1. HeadBytes \in Nat /\ SumBytes \in Nat
  BY WireLengths
<1>2. AckBytes \in Nat /\ MaxLen \in Nat /\ MaxLen >= 1
  <2>1. AckBytes \in Nat /\ MaxLen \in Nat /\ MaxLen > 0
    BY SizeAssumption
  <2>2. QED
    BY <2>1
<1>3. Each \in Nat
  BY <1>1, <1>2 DEF Each
<1>4. QED
  BY <1>1, <1>2, <1>3

(* No messages of the PC weigh more than that: by induction on how many    *)
(* there are.                                                              *)
LEMMA Weight ==
  ASSUME Memory
  PROVE  \A ms \in Seq(Good("pc", made)) : Weighs(ms)
<1> DEFINE G == Good("pc", made)
           T == {n \in Nat : \A ms \in Seq(G) : Len(ms) = n => Weighs(ms)}
<1>1. /\ HeadBytes \in Nat /\ SumBytes \in Nat /\ AckBytes \in Nat /\ Each \in Nat
      /\ MaxLen \in Nat /\ MaxLen >= 1
  BY EachBytes
<1>2. G \subseteq Message /\ made \in [Stream -> Nat] /\ "pc" \in Peer
  BY DEF Good, Memory, Peer
<1>3. \A ms \in Seq(G) : ms \in Seq(Message)
  BY <1>2, LargerSet, Zenon
<1>4. 0 \in T
  <2>1. ASSUME NEW ms \in Seq(G), Len(ms) = 0 PROVE Weighs(ms)
    <3>1. ms = <<>>
      BY <2>1
    <3>2. Bytes(ms) = 0 /\ Requests(ms) = <<>> /\ Answers(ms) = <<>>
      BY <3>1, ListsEmpty
    <3>3. Len(<<>>) = 0 /\ Each * 0 = 0 /\ AckBytes * 0 = 0
      BY <1>1
    <3>4. QED
      BY <3>2, <3>3 DEF Weighs
  <2>2. QED
    BY <2>1
<1>5. ASSUME NEW n \in T PROVE n + 1 \in T
  <2>1. ASSUME NEW ms \in Seq(G), Len(ms) = n + 1 PROVE Weighs(ms)
    <3> DEFINE m == Head(ms)
               es == Tail(ms)
    <3>1. ms # <<>> /\ m \in G /\ es \in Seq(G) /\ Len(es) = n
      BY <2>1
    <3>2. Weighs(es)
      BY <3>1
    <3>3. /\ es \in Seq(Message) /\ m \in Message
          /\ Answers(ms) = IF m.ret THEN <<m>> \o Answers(es) ELSE Answers(es)
          /\ Requests(ms) = IF m.ret THEN Requests(es) ELSE <<m>> \o Requests(es)
          /\ Bytes(ms) = Size(m) + Bytes(es)
      BY <1>3, <3>1, ListsTail
    <3> HIDE DEF m, es
    <3>4. Answers(es) \in Seq(Message) /\ Requests(es) \in Seq(Message) /\ Bytes(es) \in Nat
      BY <3>3, ListTypes
    <3>5. /\ m.ret => m.type = "write_fifo"
          /\ m.type \in Types
          /\ m.type = "write_fifo" => m.len <= MaxLen
          /\ Carrying(m) => m.data \in Seq(1..made["down"]) /\ Len(m.data) = m.len
          /\ Telling(m) => Len(m.data) = 1
      BY <3>1, Ends DEF G, Good, MayAsk, Message
    <3>6. ~m.ret /\ m.type = "write_fifo" => Len(m.data) \in 0..MaxLen
      <4> SUFFICES ASSUME ~m.ret, m.type = "write_fifo" PROVE Len(m.data) \in 0..MaxLen
        OBVIOUS
      <4>1. Carrying(m)
        BY DEF Carrying
      <4>2. PICK s \in Seq(1..made["down"]) : s = m.data
        BY <3>5, <4>1, Zenon
      <4>3. Len(s) = m.len /\ m.len <= MaxLen
        BY <3>5, <4>1, <4>2
      <4>4. Len(s) \in Nat /\ Len(s) <= MaxLen
        BY <4>3
      <4>5. Len(s) \in 0..MaxLen
        BY <1>1, <4>4
      <4>6. QED
        BY <4>2, <4>5
    <3>7. Size(m) = IF m.ret THEN AckBytes
                    ELSE IF m.type \in {"write", "write_fifo"}
                    THEN HeadBytes + Len(m.data) + SumBytes ELSE HeadBytes
      BY <3>5 DEF Size, Types
    <3>8. Size(m) \in Nat /\ Size(m) <= IF m.ret THEN AckBytes ELSE Each
      <4>1. CASE m.ret
        BY <1>1, <3>7, <4>1
      <4>2. CASE ~m.ret /\ m.type \in {"write", "write_fifo"}
        <5>1. Len(m.data) \in 0..MaxLen
          <6>1. CASE m.type = "write_fifo"
            BY <3>6, <4>2, <6>1
          <6>2. CASE m.type = "write"
            <7>1. Len(m.data) = 1
              BY <3>5, <4>2, <6>2 DEF Telling
            <7>2. 1 \in 0..MaxLen
              BY <1>1
            <7>3. QED
              BY <7>1, <7>2
          <6>3. QED
            BY <4>2, <6>1, <6>2
        <5>2. PICK d \in 0..MaxLen : d = Len(m.data)
          BY <5>1
        <5>3. Size(m) = HeadBytes + d + SumBytes
          BY <3>7, <4>2, <5>2
        <5>4. HeadBytes + d + SumBytes \in Nat /\ HeadBytes + d + SumBytes <= Each
          BY <1>1 DEF Each
        <5>5. QED
          BY <4>2, <5>3, <5>4
      <4>3. CASE ~m.ret /\ m.type \notin {"write", "write_fifo"}
        BY <1>1, <3>7, <4>3 DEF Each
      <4>4. QED
        BY <4>1, <4>2, <4>3
    <3>9. PICK a \in Nat, r \in Nat, b \in Nat, z \in Nat :
             a = Len(Answers(es)) /\ r = Len(Requests(es)) /\ b = Bytes(es) /\ z = Size(m)
      BY <3>4, <3>8
    <3>10. b <= Each * r + AckBytes * a
      BY <3>2, <3>9 DEF Weighs
    <3>11. PICK x \in Nat, y \in Nat : x = Each * r /\ y = AckBytes * a
      BY <1>1, Products
    <3>12. Each * (r + 1) = x + Each /\ AckBytes * (a + 1) = y + AckBytes
      BY <1>1, <3>11, Products
    <3>13. CASE m.ret
      <4>1. Len(Answers(ms)) = a + 1 /\ Len(Requests(ms)) = r
        <5>1. PICK s \in Seq(Message) : s = Answers(es)
          BY <3>4
        <5>2. Len(<<m>> \o s) = Len(s) + 1
          BY <3>3
        <5>3. QED
          BY <3>3, <3>9, <3>13, <5>1, <5>2
      <4>2. Bytes(ms) = z + b /\ z <= AckBytes
        BY <3>3, <3>8, <3>9, <3>13
      <4>3. z + b <= x + (y + AckBytes)
        BY <1>1, <3>10, <3>11, <4>2
      <4>4. QED
        BY <3>11, <3>12, <4>1, <4>2, <4>3 DEF Weighs
    <3>14. CASE ~m.ret
      <4>1. Len(Answers(ms)) = a /\ Len(Requests(ms)) = r + 1
        <5>1. PICK s \in Seq(Message) : s = Requests(es)
          BY <3>4
        <5>2. Len(<<m>> \o s) = Len(s) + 1
          BY <3>3
        <5>3. QED
          BY <3>3, <3>9, <3>14, <5>1, <5>2
      <4>2. Bytes(ms) = z + b /\ z <= Each
        BY <3>3, <3>8, <3>9, <3>14
      <4>3. z + b <= (x + Each) + y
        BY <1>1, <3>10, <3>11, <4>2
      <4>4. QED
        BY <3>11, <3>12, <4>1, <4>2, <4>3 DEF Weighs
    <3>15. QED
      BY <3>13, <3>14
  <2>2. QED
    BY <2>1
<1> HIDE DEF T
<1>6. T = Nat
  <2>1. T \subseteq Nat
    BY DEF T
  <2>2. QED
    BY <1>4, <1>5, <2>1, Induction
<1>7. ASSUME NEW ms \in Seq(G) PROVE Weighs(ms)
  <2>1. PICK n \in Nat : n = Len(ms)
    OBVIOUS
  <2>2. n \in T
    BY <1>6
  <2>3. QED
    BY <2>1, <2>2 DEF T
<1>8. QED
  BY <1>7

(* The requests that are under way or decided on were asked for, those of  *)
(* an end that keeps no heads included.                                    *)
Booked ==
  \A p \in Peer : Len(Unanswered(p)) + (IF Calling(at[p]) THEN 1 ELSE 0) <= Asked(p)

(* How many requests and answers an end waits for.                         *)
LEMMA UnansweredLength ==
  ASSUME Traffic, NEW p \in Peer
  PROVE  /\ Len(Answers(out[Other(p)])) \in Nat /\ Len(Requests(out[p])) \in Nat
         /\ Len(Unanswered(p)) = Len(Answers(out[Other(p)])) + Len(Requests(out[p]))
<1>1. Answers(out[Other(p)]) \in Seq(Message) /\ Requests(out[p]) \in Seq(Message)
  BY TrafficTypes
<1>2. PICK a \in Seq(Message), r \in Seq(Message) :
         a = Answers(out[Other(p)]) /\ r = Requests(out[p])
  BY <1>1
<1>3. Len(a \o r) = Len(a) + Len(r)
  BY BothLengths
<1>4. Len(a) \in Nat /\ Len(r) \in Nat
  OBVIOUS
<1>5. QED
  BY <1>2, <1>3, <1>4 DEF Unanswered

(* One more when an end sends.                                             *)
LEMMA SendLength ==
  ASSUME Places, Memory, Traffic, NEW p \in Peer, Send(p), Traffic'
  PROVE  /\ Len(Unanswered(p)') = Len(Unanswered(p)) + 1
         /\ \A e \in Peer : e # p => Unanswered(e)' = Unanswered(e)
<1>1. /\ Outgoing(p) \in Message /\ ~Outgoing(p).ret
      /\ out'[p] = Append(out[p], Outgoing(p))
      /\ \A e \in Peer : out[e] \in Seq(Message) /\ (e # p => out'[e] = out[e])
  BY OutAfterSend
<1>2. PICK m \in Message : m = Outgoing(p) /\ ~m.ret
  BY <1>1
<1>3. /\ Answers(out'[p]) = Answers(out[p])
      /\ Requests(out'[p]) = Append(Requests(out[p]), m)
  BY <1>1, <1>2, ListsAppend
<1>4. Other(p) \in Peer /\ Other(p) # p /\ Other(Other(p)) = p
  BY TrafficTypes
<1>5. PICK r \in Seq(Message), a \in Seq(Message) :
         r = Requests(out[p]) /\ a = Answers(out[Other(p)])
  BY <1>1, <1>4, ListTypes
<1>6. Unanswered(p) = a \o r
  BY <1>5 DEF Unanswered
<1>7. Unanswered(p)' = a \o Append(r, m)
  BY <1>1, <1>3, <1>4, <1>5 DEF Unanswered
<1>8. Len(a \o r) = Len(a) + Len(r)
  BY BothLengths
<1>9. Append(r, m) \in Seq(Message) /\ Len(Append(r, m)) = Len(r) + 1
  OBVIOUS
<1>10. Len(a \o Append(r, m)) = Len(a) + Len(Append(r, m))
  BY <1>9, BothLengths
<1>11. Len(a) \in Nat /\ Len(r) \in Nat
  OBVIOUS
<1>12. Len(Unanswered(p)') = Len(Unanswered(p)) + 1
  BY <1>6, <1>7, <1>8, <1>9, <1>10, <1>11
<1>13. ASSUME NEW e \in Peer, e # p PROVE Unanswered(e)' = Unanswered(e)
  <2>1. e = Other(p) /\ Other(e) = p
    BY <1>4, <1>13 DEF Peer, Other
  <2>2. Requests(out'[e]) = Requests(out[e])
    BY <1>1, <1>13
  <2>3. QED
    BY <1>3, <2>1, <2>2 DEF Unanswered
<1>14. QED
  BY <1>12, <1>13

(* No more and no less when one handles a message.                         *)
LEMMA HandledLength ==
  ASSUME Memory, Traffic, NEW q \in Peer, Handled(q), Traffic', NEW e \in Peer
  PROVE  Len(Unanswered(e)') <= Len(Unanswered(e))
<1> DEFINE p == Other(q)
           m == Head(out[p])
<1>1. /\ p \in Peer /\ p # q /\ out[p] # <<>> /\ m \in Message
      /\ out[p] \in Seq(Message) /\ out[q] \in Seq(Message)
      /\ out'[p] = Tail(out[p]) /\ Tail(out[p]) \in Seq(Message)
      /\ m.ret => out'[q] = out[q]
      /\ ~m.ret => /\ AnswerTo(q, m) \in Message /\ AnswerTo(q, m).ret
                   /\ out'[q] = Append(out[q], AnswerTo(q, m))
  BY OutAfterHandling
<1>2. /\ Answers(out[p]) = IF m.ret THEN <<m>> \o Answers(Tail(out[p])) ELSE Answers(Tail(out[p]))
      /\ Requests(out[p]) = IF m.ret THEN Requests(Tail(out[p]))
                            ELSE <<m>> \o Requests(Tail(out[p]))
  BY <1>1, ListsTail
<1>3. Other(p) = q /\ (e = p \/ e = q)
  BY <1>1 DEF Other, Peer
<1> HIDE DEF m, p
<1>4. PICK s : s = AnswerTo(q, m)
  OBVIOUS
<1>5. ~m.ret => /\ Answers(out'[q]) = Append(Answers(out[q]), s)
                /\ Requests(out'[q]) = Requests(out[q])
  BY <1>1, <1>4, ListsAppend
<1>6. PICK aq \in Seq(Message), rq \in Seq(Message) :
         aq = Answers(out[q]) /\ rq = Requests(out[q])
  BY <1>1, ListTypes
<1>7. PICK ap \in Seq(Message), rp \in Seq(Message) :
         ap = Answers(Tail(out[p])) /\ rp = Requests(Tail(out[p]))
  BY <1>1, ListTypes
<1>8. PICK i \in Nat, j \in Nat, k \in Nat, l \in Nat :
         i = Len(aq) /\ j = Len(rq) /\ k = Len(ap) /\ l = Len(rp)
  OBVIOUS
<1>9. PICK one \in Seq(Message) : one = <<m>>
  <2>1. <<m>> \in Seq(Message)
    BY <1>1
  <2>2. QED
    BY <2>1, Zenon
<1>10. Len(one \o ap) = k + 1 /\ Len(one \o rp) = l + 1
  <2>1. Len(one \o ap) = Len(one) + Len(ap) /\ Len(one \o rp) = Len(one) + Len(rp)
    BY BothLengths
  <2>2. Len(one) = 1
    BY <1>9
  <2>3. QED
    BY <1>8, <2>1, <2>2
<1>11. CASE m.ret
  <2>1. /\ Len(Answers(out[p])) = k + 1 /\ Len(Requests(out[p])) = l
        /\ Len(Answers(out'[p])) = k /\ Len(Requests(out'[p])) = l
        /\ Len(Answers(out[q])) = i /\ Len(Requests(out[q])) = j
        /\ Len(Answers(out'[q])) = i /\ Len(Requests(out'[q])) = j
    BY <1>1, <1>2, <1>6, <1>7, <1>8, <1>9, <1>10, <1>11
  <2>2. CASE e = q
    <3>1. Len(Unanswered(e)) = (k + 1) + j
      BY <1>1, <1>3, <2>1, <2>2, UnansweredLength DEF p
    <3>2. Len(Unanswered(e)') = k + j
      <4>1. Len(Unanswered(e)') = Len(Answers(out'[p])) + Len(Requests(out'[q]))
        <5>1. Answers(out'[p]) = ap /\ Requests(out'[q]) = rq
          BY <1>1, <1>6, <1>7, <1>11
        <5>2. Unanswered(e)' = ap \o rq
          BY <2>2, <5>1 DEF Unanswered, p
        <5>3. QED
          BY <5>1, <5>2, BothLengths
      <4>2. QED
        BY <2>1, <4>1
    <3>3. QED
      BY <3>1, <3>2
  <2>3. CASE e = p
    <3>1. Requests(out'[p]) = Requests(out[p]) /\ out'[q] = out[q]
      BY <1>1, <1>2, <1>11
    <3>2. Unanswered(e)' = Unanswered(e)
      BY <1>3, <2>3, <3>1 DEF Unanswered
    <3>3. Len(Unanswered(e)) \in Nat
      BY UnansweredLength
    <3>4. QED
      BY <3>2, <3>3
  <2>4. QED
    BY <1>3, <2>2, <2>3
<1>12. CASE ~m.ret
  <2>1. CASE e = q
    <3>1. Answers(out'[p]) = Answers(out[p]) /\ Requests(out'[q]) = Requests(out[q])
      BY <1>1, <1>2, <1>5, <1>12
    <3>2. Unanswered(e)' = Unanswered(e)
      BY <2>1, <3>1 DEF Unanswered, p
    <3>3. Len(Unanswered(e)) \in Nat
      BY UnansweredLength
    <3>4. QED
      BY <3>2, <3>3
  <2>2. CASE e = p
    <3>1. Unanswered(e) = aq \o (one \o rp)
      BY <1>2, <1>3, <1>6, <1>7, <1>9, <1>12, <2>2 DEF Unanswered
    <3>2. Unanswered(e)' = Append(aq, s) \o rp
      BY <1>1, <1>3, <1>5, <1>6, <1>7, <1>12, <2>2 DEF Unanswered
    <3>3. one \o rp \in Seq(Message)
      OBVIOUS
    <3>4. Append(aq, s) \in Seq(Message) /\ Len(Append(aq, s)) = i + 1
      BY <1>1, <1>4, <1>8, <1>12
    <3>5. Len(aq \o (one \o rp)) = i + (l + 1)
      BY <1>8, <1>10, <3>3, BothLengths
    <3>6. Len(Append(aq, s) \o rp) = (i + 1) + l
      BY <1>8, <3>4, BothLengths
    <3>7. QED
      BY <3>1, <3>2, <3>5, <3>6
  <2>3. QED
    BY <1>3, <2>1, <2>2
<1>13. QED
  BY <1>11, <1>12

(* What an end has asked for.                                              *)
LEMMA AskedType ==
  ASSUME Counted
  PROVE  \A p : Asked(p) \in Nat /\ (p # "pc" => Asked(p) <= MaxPushes)
<1>1. calls \in 0..MaxCalls /\ pushes \in 0..MaxPushes
  BY DEF Counted
<1>2. QED
  BY <1>1, AskLengths DEF Asked

(* Every step keeps the count.                                             *)
LEMMA BookedStep ==
  ASSUME Places, Memory, Traffic, Asking, Ready, Booked, [Next]_vars
  PROVE  Booked'
<1>1. Counted /\ Fifos
  BY DEF Asking, Memory
<1>2. \A p : Asked(p) \in Nat
  BY <1>1, AskedType
<1>3. \A p \in Peer : Len(Unanswered(p)) \in Nat
  BY UnansweredLength
<1>4. \A p \in Peer : Len(Unanswered(p)) + (IF Calling(at[p]) THEN 1 ELSE 0) <= Asked(p)
  BY DEF Booked
<1>5. CASE Quiet
  <2>1. \A p \in Peer : /\ Unanswered(p)' = Unanswered(p) /\ Asked(p)' = Asked(p)
                        /\ Calling(at[p])' <=> Calling(at[p])
    BY <1>5 DEF Quiet, Unanswered, Asked
  <2>2. QED
    BY <1>4, <2>1 DEF Booked
<1>6. ASSUME NEW p \in Peer, Decides(p) PROVE Booked'
  <2>1. /\ ~Calling(at[p]) /\ Calling(at[p])'
        /\ \A e \in Peer : e # p => at'[e] = at[e]
        /\ \A e \in Peer : Unanswered(e)' = Unanswered(e)
    BY <1>6 DEF Decides, Unanswered
  <2>2. Asked(p)' = Asked(p) + 1 /\ \A e \in Peer : e # p => Asked(e)' = Asked(e)
    <3>1. CASE p = "pc"
      <4>1. calls' = calls + 1 /\ pushes' = pushes
        BY <1>6, <3>1 DEF Decides
      <4>2. QED
        BY <3>1, <4>1 DEF Asked
    <3>2. CASE p # "pc"
      <4>1. pushes' = pushes - 1 /\ calls' = calls
        BY <1>6, <3>2 DEF Decides
      <4>2. pushes \in 0..MaxPushes
        BY <1>1 DEF Counted
      <4>3. Asked(p)' = Asked(p) + 1
        BY <3>2, <4>1, <4>2, AskLengths DEF Asked
      <4>4. QED
        BY <3>2, <4>1, <4>3 DEF Asked, Peer
    <3>3. QED
      BY <3>1, <3>2
  <2>3. ASSUME NEW e \in Peer
        PROVE  Len(Unanswered(e)') + (IF Calling(at[e])' THEN 1 ELSE 0) <= Asked(e)'
    <3>1. CASE e = p
      <4>1. Len(Unanswered(p)) <= Asked(p)
        <5>1. Len(Unanswered(p)) + 0 <= Asked(p)
          BY <1>4, <2>1
        <5>2. QED
          BY <1>2, <1>3, <5>1
      <4>2. (IF Calling(at[e])' THEN 1 ELSE 0) = 1
        BY <2>1, <3>1
      <4>3. Len(Unanswered(e)') = Len(Unanswered(p)) /\ Asked(e)' = Asked(p) + 1
        BY <2>1, <2>2, <3>1
      <4>4. Len(Unanswered(p)) + 1 <= Asked(p) + 1
        BY <1>2, <1>3, <4>1
      <4>5. QED
        BY <4>2, <4>3, <4>4
    <3>2. CASE e # p
      BY <1>4, <2>1, <2>2, <3>2
    <3>3. QED
      BY <3>1, <3>2
  <2>4. QED
    BY <2>3 DEF Booked
<1>7. ASSUME NEW p \in Peer, Sends(p) PROVE Booked'
  <2>1. /\ Send(p) /\ ~Calling(at[p])' /\ Calling(at[p])
        /\ \A e \in Peer : e # p => at'[e] = at[e]
        /\ calls' = calls /\ pushes' = pushes
    BY <1>7 DEF Sends, Send, Calling
  <2>2. at[p].type = "write_fifo" => at[p].len <= Len(fifo[p][FifoOf(p)])
    BY <2>1 DEF Ready, Stock
  <2>3. Traffic'
    BY <2>1, <2>2, SendMemory
  <2>4. /\ Len(Unanswered(p)') = Len(Unanswered(p)) + 1
        /\ \A e \in Peer : e # p => Unanswered(e)' = Unanswered(e)
    BY <2>1, <2>3, SendLength
  <2>5. \A e : Asked(e)' = Asked(e)
    BY <2>1 DEF Asked
  <2>6. ASSUME NEW e \in Peer
        PROVE  Len(Unanswered(e)') + (IF Calling(at[e])' THEN 1 ELSE 0) <= Asked(e)'
    <3>1. CASE e = p
      <4>1. (IF Calling(at[e])' THEN 1 ELSE 0) = 0
        BY <2>1, <3>1
      <4>2. Len(Unanswered(p)) + 1 <= Asked(p)
        BY <1>4, <2>1
      <4>3. Len(Unanswered(e)') = Len(Unanswered(p)) + 1 /\ Asked(e)' = Asked(p)
        BY <2>4, <2>5, <3>1
      <4>4. Len(Unanswered(e)') + 0 <= Asked(e)'
        BY <1>2, <1>3, <4>2, <4>3
      <4>5. QED
        BY <4>1, <4>4
    <3>2. CASE e # p
      BY <1>4, <2>1, <2>4, <2>5, <3>2
    <3>3. QED
      BY <3>1, <3>2
  <2>7. QED
    BY <2>6 DEF Booked
<1>8. ASSUME NEW q \in Peer, Handles(q) PROVE Booked'
  <2>1. /\ Handled(q) /\ calls' = calls /\ pushes' = pushes
        /\ \A e \in Peer : Calling(at[e])' <=> Calling(at[e])
    BY <1>8 DEF Handles
  <2>2. Traffic'
    BY <2>1, HandledMemory
  <2>3. \A e : Asked(e)' = Asked(e)
    BY <2>1 DEF Asked
  <2>4. ASSUME NEW e \in Peer
        PROVE  Len(Unanswered(e)') + (IF Calling(at[e])' THEN 1 ELSE 0) <= Asked(e)'
    <3>1. Len(Unanswered(e)') <= Len(Unanswered(e))
      BY <2>1, <2>2, HandledLength
    <3>2. Len(Unanswered(e)') \in Nat
      <4>1. \A p \in Peer : Other(p) \in Peer
        BY DEF Other, Peer
      <4>2. Answers(out'[Other(e)]) \in Seq(Message) /\ Requests(out'[e]) \in Seq(Message)
        BY <2>2, <4>1, ListTypes DEF Traffic
      <4>3. QED
        BY <4>2 DEF Unanswered
    <3>3. PICK n \in Nat, k \in Nat, a \in Nat :
             n = Len(Unanswered(e)') /\ k = Len(Unanswered(e)) /\ a = Asked(e)
      BY <1>2, <1>3, <3>2
    <3>4. PICK d \in {0, 1} : d = IF Calling(at[e]) THEN 1 ELSE 0
      OBVIOUS
    <3>5. k + d <= a
      BY <1>4, <3>3, <3>4
    <3>6. n + d <= a
      BY <3>1, <3>3, <3>5
    <3>7. QED
      BY <2>1, <2>3, <3>3, <3>4, <3>6
  <2>5. QED
    BY <2>4 DEF Booked
<1>9. QED
  BY <1>1, <1>5, <1>6, <1>7, <1>8, AskSteps

(* An end that keeps no heads goes straight on to send, and what it is to  *)
(* send has room since it has looked for it.                               *)
Reserved ==
  "mcu" \notin Keeps /\ at["mcu"].do \in {"slot", "room"}
    => RoomOf("mcu") >= NeedBytes("mcu")

(* The board's way there, in a build that keeps no heads.                  *)
LEMMA BoardWay ==
  ASSUME Places, Wire, Ready, [Next]_vars, "mcu" \notin Keeps,
         at'["mcu"].do \in {"slot", "room"}
  PROVE  \/ BoardPush
         \/ /\ at["mcu"].do \in {"slot", "room"}
            /\ at'["mcu"].type = at["mcu"].type /\ at'["mcu"].len = at["mcu"].len
            /\ queued'["mcu"] <= queued["mcu"] /\ queued'["mcu"] \in Nat
<1> DEFINE Goal == /\ at["mcu"].do \in {"slot", "room"}
                   /\ at'["mcu"].type = at["mcu"].type /\ at'["mcu"].len = at["mcu"].len
                   /\ queued'["mcu"] <= queued["mcu"] /\ queued'["mcu"] \in Nat
<1>1. /\ queued \in [Peer -> Nat] /\ DOMAIN at = Peer
      /\ at["mcu"] \in PlaceOf("mcu") /\ ~Held(at["mcu"])
  BY Ends DEF Wire, Places, Ready
<1>2. ASSUME at'["mcu"] = at["mcu"], queued'["mcu"] = queued["mcu"] PROVE Goal
  BY <1>1, <1>2, Ends
<1>3. CASE \E type \in Calls : Call(type)
  <2>1. PICK type \in Calls : \E len : Begin("pc", type, len, "slot") /\ queued' = queued
    BY <1>3 DEF Call, wire
  <2>2. at'["mcu"] = at["mcu"]
    BY <2>1, BeginMoves, Ends
  <2>3. QED
    BY <1>2, <2>1, <2>2
<1>4. ASSUME NEW do, GoTo("pc", do) PROVE at'["mcu"] = at["mcu"]
  BY <1>4, GoToMoves, Ends
<1>5. ASSUME NEW back, WaitOne("pc", back) PROVE at'["mcu"] = at["mcu"]
  BY <1>5, WaitOneMoves, Ends
<1>6. FlushBytes("pc") => queued'["mcu"] = queued["mcu"]
  BY <1>1, Ends DEF FlushBytes
<1>7. CASE Library("pc")
  <2>1. CASE Slot("pc") \/ Room("pc")
    <3>1. at'["mcu"] = at["mcu"] /\ queued' = queued
      BY <1>4, <1>5, <2>1 DEF Slot, Room, wire
    <3>2. QED
      BY <1>2, <3>1
  <2>2. CASE Send("pc")
    <3>1. at'["mcu"] = at["mcu"]
      BY <1>4, <2>2 DEF Send
    <3>2. queued'["mcu"] = queued["mcu"]
      BY <1>1, <2>2, Ends DEF Send
    <3>3. QED
      BY <1>2, <3>1, <3>2
  <2>3. CASE Flush("pc")
    BY <1>2, <1>4, <1>6, <2>3 DEF Flush
  <2>4. CASE HandleOne("pc")
    <3>1. at'["mcu"] = at["mcu"] /\ queued'["mcu"] = queued["mcu"]
      <4>1. \/ at' = at /\ queued' = queued
            \/ /\ GoTo("pc", at["pc"].back)
               /\ \E n : queued' = [queued EXCEPT !["pc"] = n]
        BY <2>4 DEF HandleOne, Handle, wire
      <4>2. QED
        BY <1>1, <1>4, <4>1, Ends
    <3>2. QED
      BY <1>2, <3>1
  <2>5. QED
    BY <1>7, <2>1, <2>2, <2>3, <2>4 DEF Library
<1>8. CASE Library("mcu")
  <2>1. CASE Slot("mcu")
    <3>1. GoTo("mcu", "room") /\ queued' = queued /\ at["mcu"].do = "slot"
      BY <2>1 DEF Slot, wire
    <3>2. at'["mcu"].type = at["mcu"].type /\ at'["mcu"].len = at["mcu"].len
      BY <3>1, GoToMoves, Ends
    <3>3. QED
      BY <1>1, <3>1, <3>2, Ends
  <2>2. CASE Room("mcu")
    BY <2>2 DEF Room
  <2>3. CASE Send("mcu")
    <3>1. GoTo("mcu", "push")
      BY <2>3, Ends DEF Send
    <3>2. at'["mcu"].do = "push"
      BY <3>1, GoToMoves, Ends
    <3>3. QED
      BY <3>2
  <2>4. CASE Flush("mcu")
    <3>1. at'["mcu"].do = "handle"
      BY <2>4, GoToMoves, Ends DEF Flush
    <3>2. QED
      BY <3>1
  <2>5. CASE HandleOne("mcu")
    <3>1. at["mcu"].do = "handle" /\ (at' = at \/ GoTo("mcu", at["mcu"].back))
      BY <2>5, Ends DEF HandleOne, Handle
    <3>2. at["mcu"].back = "room"
      BY <1>1, <3>1, Ends DEF PlaceOf
    <3>3. QED
      BY <1>1, <3>1, <3>2 DEF Held
  <2>6. QED
    BY <1>8, <2>1, <2>2, <2>3, <2>4, <2>5 DEF Library
<1>9. CASE WaitAll \/ WaitMore \/ FlushTry
  <2>1. at'["mcu"] = at["mcu"]
    BY <1>4, <1>5, <1>9 DEF WaitAll, WaitMore, FlushTry
  <2>2. queued'["mcu"] = queued["mcu"]
    BY <1>6, <1>9 DEF WaitAll, WaitMore, FlushTry, wire
  <2>3. QED
    BY <1>2, <2>1, <2>2
<1>10. CASE TryAll
  <2>1. \/ at' = at /\ queued' = queued
        \/ GoTo("pc", "idle") /\ queued' = queued
        \/ /\ GoTo("pc", at["pc"].do)
           /\ \E n : queued' = [queued EXCEPT !["pc"] = n]
    BY <1>10 DEF TryAll, Try, Handle, wire
  <2>2. at'["mcu"] = at["mcu"] /\ queued'["mcu"] = queued["mcu"]
    BY <1>1, <1>4, <2>1, Ends
  <2>3. QED
    BY <1>2, <2>2
<1>11. CASE BoardTry
  <2>1. at["mcu"].do = "idle" /\ (at' = at \/ GoTo("mcu", "idle"))
    BY <1>11 DEF BoardTry, Try, Handle
  <2>2. at'["mcu"].do = "idle"
    BY <2>1, GoToMoves, Ends
  <2>3. QED
    BY <2>2
<1>12. CASE BoardPushed
  <2>1. at'["mcu"].do = "idle"
    BY <1>12, GoToMoves, Ends DEF BoardPushed
  <2>2. QED
    BY <2>1
<1>13. CASE UsbTransmit
  <2>1. PICK n \in Nat : /\ at' = at /\ queued' = [queued EXCEPT !["mcu"] = @ - n]
                         /\ n <= queued["mcu"]
    <3>1. /\ Smaller(Packet, queued["mcu"]) \in Nat
          /\ Smaller(Packet, queued["mcu"]) <= queued["mcu"]
      BY <1>1, WireLengths, Ends DEF Smaller
    <3>2. QED
      BY <1>13, <3>1 DEF UsbTransmit
  <2>2. queued'["mcu"] = queued["mcu"] - n /\ queued["mcu"] \in Nat
    BY <1>1, <2>1, Ends
  <2>3. queued'["mcu"] <= queued["mcu"] /\ queued'["mcu"] \in Nat
    BY <2>1, <2>2
  <2>4. QED
    BY <2>1, <2>3
<1>14. CASE UsbReceive \/ UNCHANGED vars \/ \E p \in Peer : Produce(p) \/ Consume(p)
  BY <1>2, <1>14 DEF UsbReceive, vars, Produce, Consume, wire
<1>15. CASE BoardPush
  BY <1>15
<1>16. ASSUME NEW p \in Peer, Library(p) PROVE BoardPush \/ Goal
  BY <1>7, <1>8, <1>16 DEF Peer
<1>17. QED
  BY <1>3, <1>9, <1>10, <1>11, <1>12, <1>13, <1>14, <1>15, <1>16 DEF Next, Host, Board

(* The room it has found stays.                                            *)
LEMMA ReservedStep ==
  ASSUME BuffersSuffice, Places, Wire, Ready, Reserved, [Next]_vars
  PROVE  Reserved'
<1> SUFFICES ASSUME "mcu" \notin Keeps, at'["mcu"].do \in {"slot", "room"}
             PROVE  RoomOf("mcu")' >= NeedBytes("mcu")'
  BY DEF Reserved
<1>1. TxLength \in Nat /\ queued["mcu"] \in Nat
  BY WireLengths, Ends DEF Wire
<1>2. CASE BoardPush
  <2>1. at'["mcu"].type = "write_fifo" /\ at'["mcu"].len = PushBytes
    BY <1>2, BeginMoves, Ends DEF BoardPush
  <2>2. NeedBytes("mcu")' = HeadBytes + (PushBytes + SumBytes)
    BY <2>1 DEF NeedBytes
  <2>3. queued' = queued /\ RoomOf("mcu") >= PushRoom
    BY <1>2 DEF BoardPush, CanPush, wire
  <2>4. RoomOf("mcu")' = RoomOf("mcu") /\ RoomOf("mcu") \in Int
    BY <1>1, <2>3 DEF RoomOf
  <2>5. /\ PushRoom >= HeadBytes + PushBytes + SumBytes
        /\ PushRoom \in Nat /\ HeadBytes \in Nat /\ PushBytes \in Nat /\ SumBytes \in Nat
    <3>1. PushBytes \in Nat
      BY Lengths
    <3>2. PushRoom \in Nat
      BY SizeAssumption
    <3>3. QED
      BY <3>1, <3>2, WireLengths DEF BuffersSuffice
  <2>6. RoomOf("mcu") >= HeadBytes + (PushBytes + SumBytes)
    BY <2>3, <2>4, <2>5
  <2>7. QED
    BY <2>2, <2>4, <2>6
<1>3. CASE /\ at["mcu"].do \in {"slot", "room"}
           /\ at'["mcu"].type = at["mcu"].type /\ at'["mcu"].len = at["mcu"].len
           /\ queued'["mcu"] <= queued["mcu"] /\ queued'["mcu"] \in Nat
  <2>1. NeedBytes("mcu")' = NeedBytes("mcu")
    BY <1>3 DEF NeedBytes
  <2>2. RoomOf("mcu") >= NeedBytes("mcu")
    BY <1>3 DEF Reserved
  <2>3. NeedBytes("mcu") \in Nat
    <3>1. at["mcu"].len \in Nat
      BY Ends, Lengths DEF Places, PlaceOf, Place
    <3>2. QED
      BY <3>1, WireLengths DEF NeedBytes
  <2>4. RoomOf("mcu")' >= RoomOf("mcu") /\ RoomOf("mcu")' \in Int /\ RoomOf("mcu") \in Int
    BY <1>1, <1>3 DEF RoomOf
  <2>5. PICK r \in Int, s \in Int, n \in Nat :
           r = RoomOf("mcu") /\ s = RoomOf("mcu")' /\ n = NeedBytes("mcu")
    BY <2>3, <2>4
  <2>6. s >= n
    BY <2>2, <2>4, <2>5
  <2>7. QED
    BY <2>1, <2>5, <2>6
<1>4. QED
  BY <1>2, <1>3, BoardWay

(* What is under way to the board fits in its siorx.                       *)
LEMMA ReceiverHolds ==
  ASSUME BuffersSuffice, Typed, Awaits, Asking, Booked
  PROVE  flying["pc"] + arrived["pc"] < RxLength
<1>1. Memory /\ Traffic /\ Wire /\ Rings /\ Counted
  BY DEF Typed, Asking
<1>2. PICK q \in Nat, f \in Nat, a \in Nat, b \in Nat :
        /\ q = queued["pc"] /\ f = flying["pc"] /\ a = arrived["pc"] /\ b = Bytes(out["pc"])
        /\ q + f + a = b
  <2>1. queued["pc"] \in Nat /\ flying["pc"] \in Nat /\ arrived["pc"] \in Nat
    BY <1>1, Ends DEF Wire
  <2>2. queued["pc"] + flying["pc"] + arrived["pc"] = Bytes(out["pc"])
    BY <1>1, Ends DEF Wire
  <2>3. Bytes(out["pc"]) \in Nat
    BY <2>1, <2>2
  <2>4. QED
    BY <2>1, <2>2, <2>3
<1>3. out["pc"] \in Seq(Good("pc", made)) /\ out["pc"] \in Seq(Message)
  BY <1>1, Ends DEF Traffic
<1>4. Weighs(out["pc"])
  BY <1>1, <1>3, Weight
<1>5. PICK r \in Nat, s \in Nat :
         r = Len(Requests(out["pc"])) /\ s = Len(Answers(out["pc"]))
  <2>1. Len(Requests(out["pc"])) \in Nat /\ Len(Answers(out["pc"])) \in Nat
    BY <1>1, UnansweredLength, Ends
  <2>2. QED
    BY <2>1
<1>6. r <= RingLength - 1
  <2>1. Len(ring["pc"]) = Len(Unanswered("pc")) /\ Len(ring["pc"]) < RingLength
    BY <1>1, AskLengths, Ends DEF Awaits, Fits, Rings
  <2>2. /\ Len(Answers(out["mcu"])) \in Nat
        /\ Len(Unanswered("pc")) = Len(Answers(out["mcu"])) + Len(Requests(out["pc"]))
    BY <1>1, UnansweredLength, Ends
  <2>3. QED
    BY <1>5, <2>1, <2>2, AskLengths
<1>7. s <= MaxPushes
  <2>1. /\ Len(Requests(out["mcu"])) \in Nat
        /\ Len(Unanswered("mcu")) = Len(Answers(out["pc"])) + Len(Requests(out["mcu"]))
    BY <1>1, UnansweredLength, Ends
  <2>2. Asked("mcu") \in Nat /\ Asked("mcu") <= MaxPushes
    BY <1>1, AskedType, Ends
  <2>3. PICK d \in {0, 1} : d = IF Calling(at["mcu"]) THEN 1 ELSE 0
    OBVIOUS
  <2>4. Len(Unanswered("mcu")) + d <= Asked("mcu")
    BY <2>3, Ends DEF Booked
  <2>5. QED
    BY <1>5, <2>1, <2>2, <2>4, AskLengths
<1>8. RingLength - 1 \in Nat /\ MaxPushes \in Nat /\ Each \in Nat /\ AckBytes \in Nat
  BY AskLengths, EachBytes
<1>9. PICK n \in Nat : n = RingLength - 1
  BY <1>8
<1>10. Each * r <= Each * n /\ AckBytes * s <= AckBytes * MaxPushes
  BY <1>6, <1>7, <1>8, <1>9, Products
<1>11. PICK er \in Nat, en \in Nat, as \in Nat, am \in Nat :
         er = Each * r /\ en = Each * n /\ as = AckBytes * s /\ am = AckBytes * MaxPushes
  BY <1>8, Products
<1>12. b <= er + as
  BY <1>2, <1>4, <1>5, <1>11 DEF Weighs
<1>13. RxLength > en + am
  BY <1>9, <1>11 DEF BuffersSuffice
<1>14. RxLength \in Nat
  BY WireLengths
<1>15. f + a < RxLength
  BY <1>2, <1>10, <1>11, <1>12, <1>13, <1>14
<1>16. QED
  BY <1>2, <1>15

(* A program that reckons with the board's fifo has no more of its stream  *)
(* anywhere than that fifo holds, however long the stream becomes.         *)
Throttled ==
  Reckons => made["down"] - taken["down"] - cleared["down"] < FifoLength

(* What the board has taken or cleared never grows less, and more is made  *)
(* only after a look at that.                                              *)
LEMMA ThrottledStep ==
  ASSUME Memory, Throttled, [Next]_vars
  PROVE  Throttled'
<1> SUFFICES ASSUME Reckons
             PROVE  made'["down"] - taken'["down"] - cleared'["down"] < FifoLength
  BY DEF Throttled
<1>1. /\ made["down"] \in Nat /\ taken["down"] \in Nat /\ cleared["down"] \in Nat
      /\ made["down"] - taken["down"] - cleared["down"] < FifoLength /\ FifoLength \in Nat
      /\ made \in [Stream -> Nat] /\ taken \in [Stream -> Nat] /\ cleared \in [Stream -> Nat]
  BY Ends, Lengths DEF Memory, Throttled
<1>2. CASE UNCHANGED history
  BY <1>1, <1>2 DEF history
<1>3. ASSUME NEW q \in Peer, Handled(q)
      PROVE  made'["down"] - taken'["down"] - cleared'["down"] < FifoLength
  <2>1. Len(fifo[q]["down"]) \in Nat
    <3>1. fifo[q]["down"] \in Seq(Nat)
      BY Ends DEF Memory, Fifos
    <3>2. QED
      BY <3>1
  <2>2. PICK n \in Nat : n = Len(fifo[q]["down"])
    BY <2>1
  <2>3. made' = made /\ taken' = taken
    BY <1>3 DEF Handled
  <2>4. cleared' = cleared \/ cleared' = [cleared EXCEPT !["down"] = @ + n]
    BY <1>3, <2>2 DEF Handled, Apply
  <2>5. cleared'["down"] = cleared["down"] \/ cleared'["down"] = cleared["down"] + n
    BY <1>1, <2>4, Ends
  <2>6. QED
    BY <1>1, <2>3, <2>5
<1>4. ASSUME NEW p \in Peer, Produce(p)
      PROVE  made'["down"] - taken'["down"] - cleared'["down"] < FifoLength
  <2>1. taken' = taken /\ cleared' = cleared /\ made' = [made EXCEPT ![FifoOf(p)] = @ + 1]
    BY <1>4 DEF Produce
  <2>2. CASE p = "pc"
    <3>1. made["down"] - taken["down"] - cleared["down"] < FifoLength - 1
      BY <1>4, <2>2 DEF Produce, Reckoned
    <3>2. made'["down"] = made["down"] + 1
      BY <1>1, <2>1, <2>2, Ends
    <3>3. QED
      BY <1>1, <2>1, <3>1, <3>2
  <2>3. CASE p = "mcu"
    <3>1. made'["down"] = made["down"]
      BY <1>1, <2>1, <2>3, Ends
    <3>2. QED
      BY <1>1, <2>1, <3>1
  <2>4. QED
    BY <2>2, <2>3 DEF Peer
<1>5. ASSUME NEW p \in Peer, Consume(p)
      PROVE  made'["down"] - taken'["down"] - cleared'["down"] < FifoLength
  <2>1. /\ made' = made /\ cleared' = cleared
        /\ taken' = [taken EXCEPT ![FifoOf(Other(p))] = @ + 1]
    BY <1>5 DEF Consume
  <2>2. taken'["down"] = taken["down"] \/ taken'["down"] = taken["down"] + 1
    BY <1>1, <2>1, Ends
  <2>3. QED
    BY <1>1, <2>1, <2>2
<1>6. QED
  BY <1>2, <1>3, <1>4, <1>5, DataSteps DEF Still, Call, Send

(* All that is needed for the other assertions.                            *)
HoldsInv ==
  NoAssertionFails /\ AwaitsInv /\ IntactInv /\ Booked /\ Reserved /\ Throttled

(* None of them fails in the next step.                                    *)
LEMMA NoneStep ==
  ASSUME BuffersSuffice, HoldsInv, TakenInTime, [Next]_vars
  PROVE  NoAssertionFails'
<1>1. /\ Running /\ Typed /\ Awaits /\ Asking /\ StreamsIntact /\ Ready /\ Booked /\ Reserved
      /\ Throttled /\ fault = "none"
  BY DEF HoldsInv, NoAssertionFails, AwaitsInv, IntactInv, Running
<1>2. Places /\ Memory /\ Traffic /\ Wire
  BY <1>1 DEF Typed
<1>3. CASE fault' = fault
  BY <1>1, <1>3 DEF NoAssertionFails
<1>4. ASSUME NEW p \in Peer, Send(p) PROVE ~(RoomOf(p) < NeedBytes(p))
  <2>1. TxLength \in Nat /\ queued[p] \in Nat
    BY <1>2, WireLengths DEF Wire
  <2>2. RoomOf(p) \in Int
    BY <2>1 DEF RoomOf
  <2>3. NeedBytes(p) \in Nat
    <3>1. at[p].len \in Nat
      BY <1>2, Lengths DEF Places, PlaceOf, Place
    <3>2. QED
      BY <3>1, WireLengths DEF NeedBytes
  <2>4. RoomOf(p) >= NeedBytes(p)
    <3>1. CASE p \in Keeps
      BY <1>4, <3>1 DEF Send
    <3>2. CASE p \notin Keeps
      <4>1. p = "mcu"
        BY <3>2, AskLengths DEF Peer
      <4>2. at[p].do = "room"
        BY <1>4 DEF Send
      <4>3. QED
        BY <1>1, <3>2, <4>1, <4>2 DEF Reserved
    <3>3. QED
      BY <3>1, <3>2
  <2>5. QED
    BY <2>2, <2>3, <2>4
<1>5. ASSUME NEW p \in Peer, Send(p), at[p].type = "write_fifo"
      PROVE  ~(Len(Outgoing(p).data) < at[p].len)
  <2>1. at[p].do = "room"
    BY <1>5 DEF Send
  <2>2. at[p].len <= Len(Stock(p))
    BY <1>1, <1>5, <2>1 DEF Ready, Calling
  <2>3. Outgoing(p) \in Good(p, made)
    BY <1>2, <2>1, <2>2, OutgoingGood DEF Stock
  <2>4. Outgoing(p).type = "write_fifo" /\ ~Outgoing(p).ret /\ Outgoing(p).len = at[p].len
    BY <1>5 DEF Outgoing, Request
  <2>5. Len(Outgoing(p).data) = at[p].len
    BY <2>3, <2>4 DEF Good, Carrying
  <2>6. at[p].len \in Nat
    BY <1>2, Lengths DEF Places, PlaceOf, Place
  <2>7. QED
    BY <2>5, <2>6
<1>6. ~(UsbReceive /\ fault' = "siorx_overflow")
  <2> SUFFICES ASSUME UsbReceive, fault' = "siorx_overflow" PROVE FALSE
    OBVIOUS
  <2>1. flying["pc"] + arrived["pc"] < RxLength
    BY <1>1, ReceiverHolds
  <2>2. flying["pc"] \in Nat /\ arrived["pc"] \in Nat /\ RxLength \in Nat /\ Packet \in Nat
    BY <1>2, WireLengths, Ends DEF Wire
  <2>3. PICK f \in Nat, a \in Nat : f = flying["pc"] /\ a = arrived["pc"]
    BY <2>2
  <2>4. PICK n \in Nat : n = Smaller(Packet, f) /\ n <= f
    BY <2>2 DEF Smaller
  <2>5. n <= RxLength - 1 - a
    BY <2>1, <2>2, <2>3, <2>4
  <2>6. Smaller(n, RxLength - 1 - a) = n
    BY <2>5 DEF Smaller
  <2>7. ~(Smaller(n, RxLength - 1 - a) < n)
    BY <2>6
  <2>8. fault' = fault
    BY <2>3, <2>4, <2>7 DEF UsbReceive
  <2>9. QED
    BY <1>1, <2>8
<1>7. Outstanding("down") < FifoLength
  <2>1. CASE Reckons
    <3>1. Filler("down") = "pc"
      BY DEF Filler
    <3>2. fifo["pc"]["down"] \in Seq(Nat)
      BY <1>2, Ends DEF Memory, Fifos
    <3>3. PICK x \in Nat : x = Len(fifo["pc"]["down"])
      BY <3>2
    <3>4. /\ made["down"] - taken["down"] - cleared["down"] < FifoLength
          /\ made["down"] \in Nat /\ taken["down"] \in Nat /\ cleared["down"] \in Nat
      BY <1>1, <1>2, <2>1, Ends DEF Throttled, Memory
    <3>5. made["down"] - x - taken["down"] - cleared["down"] < FifoLength
      BY <3>4, Lengths
    <3>6. QED
      BY <3>1, <3>3, <3>5 DEF Outstanding
  <2>2. CASE ~Reckons
    BY <1>2, <2>2, OutstandingMade, Ends DEF BuffersSuffice
  <2>3. QED
    BY <2>1, <2>2
<1>8. ASSUME NEW q \in Peer, out[Other(q)] # <<>>,
             fault' = AssertionOn(q, Head(out[Other(q)]))
      PROVE  fault' = "none"
  <2> DEFINE m == Head(out[Other(q)])
  <2>1. fault' \in {"none", "fifo_is_not_enough_to_write"}
    BY <1>1, <1>8, AnswerExpected
  <2>2. CASE ~m.ret /\ m.type = "write_fifo"
    <3>1. Carrying(m) /\ Intact(Other(q)) /\ Outstanding(FifoOf(Other(q))) < FifoLength
      <4>1. Other(q) \in Peer /\ FifoOf(Other(q)) \in {"up", "down"}
        BY DEF Other, FifoOf, Peer
      <4>2. QED
        BY <1>2, <1>7, <2>2, <4>1, IntactByEnds, <1>1 DEF Carrying, TakenInTime
    <3>2. Len(fifo[q][FifoOf(Other(q))]) + Len(m.data) < FifoLength
      BY <1>2, <1>8, <3>1, OutstandingFits
    <3>3. Len(fifo[q][FifoOf(Other(q))]) \in Nat /\ Len(m.data) \in Nat /\ FifoLength \in Nat
      <4>1. FifoOf(Other(q)) \in Stream /\ Other(q) \in Peer
        BY DEF FifoOf, Stream, Other, Peer
      <4>2. fifo[q][FifoOf(Other(q))] \in Seq(Nat)
        BY <1>2, <4>1 DEF Memory, Fifos
      <4>3. m \in Message
        BY <1>2, <1>8, <4>1 DEF Traffic
      <4>4. m.data \in Seq(Values \cup Nat)
        BY <4>3 DEF Message
      <4>5. QED
        BY <4>2, <4>4, Lengths
    <3>4. ~(FifoLength - 1 - Len(fifo[q][FifoOf(Other(q))]) < Len(m.data))
      <4>1. PICK x \in Nat, y \in Nat :
               x = Len(fifo[q][FifoOf(Other(q))]) /\ y = Len(m.data)
        BY <3>3
      <4> HIDE DEF m
      <4>2. x + y < FifoLength
        BY <3>2, <4>1
      <4>3. ~(FifoLength - 1 - x < y)
        BY <3>3, <4>2
      <4>4. QED
        BY <4>1, <4>3
    <3>5. QED
      BY <1>8, <2>2, <3>4 DEF AssertionOn
  <2>3. CASE ~(~m.ret /\ m.type = "write_fifo")
    <3>1. fault' # "fifo_is_not_enough_to_write"
      BY <1>8, <2>3 DEF AssertionOn
    <3>2. QED
      BY <2>1, <3>1
  <2>4. QED
    BY <2>2, <2>3
<1>9. fault' = "none"
  BY <1>1, <1>4, <1>5, <1>6, <1>8, Faults
<1>10. QED
  BY <1>9 DEF NoAssertionFails

(* Nothing under way, nothing reserved.                                    *)
LEMMA HoldsInit ==
  ASSUME Init
  PROVE  NoAssertionFails /\ Booked /\ Reserved /\ Throttled
<1>1. /\ out = [p \in Peer |-> <<>>] /\ calls = 0 /\ pushes = MaxPushes /\ fault = "none"
      /\ \A p \in Peer : at[p].do = "idle"
  BY DEF Init
<1>2. Answers(<<>>) = <<>> /\ Requests(<<>>) = <<>>
  BY ListsEmpty
<1>3. Len(<<>>) = 0 /\ <<>> \o <<>> = <<>>
  OBVIOUS
<1>4. ASSUME NEW p \in Peer
      PROVE  Len(Unanswered(p)) + (IF Calling(at[p]) THEN 1 ELSE 0) <= Asked(p)
  <2>1. Other(p) \in Peer /\ ~Calling(at[p])
    BY <1>1 DEF Other, Peer, Calling
  <2>2. Len(Unanswered(p)) = 0
    BY <1>1, <1>2, <1>3, <2>1 DEF Unanswered
  <2>3. Asked(p) = 0
    BY <1>1, AskLengths DEF Asked
  <2>4. QED
    BY <2>1, <2>2, <2>3
<1>5. made["down"] = 0 /\ taken["down"] = 0 /\ cleared["down"] = 0
  BY Ends DEF Init
<1>6. Throttled
  BY <1>5, Lengths DEF Throttled
<1>7. QED
  BY <1>1, <1>4, <1>6, Ends DEF NoAssertionFails, Booked, Reserved

(* Every step keeps them together.                                         *)
LEMMA HoldsInvStep ==
  ASSUME BuffersSuffice, HoldsInv, TakenInTime, [Next]_vars
  PROVE  HoldsInv'
<1>1. /\ Running /\ Typed /\ Awaits /\ Asking /\ Ready /\ Booked /\ Reserved
      /\ Throttled /\ AwaitsInv /\ IntactInv
  BY DEF HoldsInv, NoAssertionFails, AwaitsInv, IntactInv, Running
<1>2. Places /\ Memory /\ Traffic /\ Wire /\ RingsSuffice /\ ReadsFit
  BY <1>1 DEF Typed, BuffersSuffice
<1>3. NoAssertionFails'
  BY NoneStep
<1>4. AwaitsInv'
  BY <1>1, <1>2, AwaitsInvStep
<1>5. IntactInv'
  BY <1>1, <1>2, IntactInvStep
<1>6. Booked'
  BY <1>1, <1>2, BookedStep
<1>7. Reserved'
  BY <1>1, <1>2, ReservedStep
<1>8. Throttled'
  BY <1>1, <1>2, ThrottledStep
<1>9. QED
  BY <1>3, <1>4, <1>5, <1>6, <1>7, <1>8 DEF HoldsInv

(* No assertion of the library fails and the receive interrupt drops no    *)
(* byte, however long the streams are, in programs that make no more of    *)
(* theirs than the board has room for and take the board's in time.        *)
THEOREM NoneFails ==
  BuffersSuffice /\ Spec /\ []TakenInTime => []NoAssertionFails
<1> SUFFICES ASSUME BuffersSuffice PROVE Spec /\ []TakenInTime => []NoAssertionFails
  OBVIOUS
<1>1. Init => HoldsInv
  BY NothingAsked, TypedInit, HoldsInit DEF HoldsInv, AwaitsInv, IntactInv
<1>2. HoldsInv /\ TakenInTime /\ [Next]_vars => HoldsInv'
  BY HoldsInvStep
<1>3. HoldsInv => NoAssertionFails
  BY DEF HoldsInv
<1>4. QED
  BY <1>1, <1>2, <1>3, PTL DEF Spec

(* In such programs everything has its type in every state.                *)
THEOREM AlwaysTyped ==
  BuffersSuffice /\ Spec /\ []TakenInTime => []TypeOK
<1> SUFFICES ASSUME BuffersSuffice PROVE Spec /\ []TakenInTime => []TypeOK
  OBVIOUS
<1>1. NoAssertionFails /\ (Running => TypeOK) => TypeOK
  BY DEF NoAssertionFails, Running
<1>2. Spec /\ []TakenInTime => []NoAssertionFails
  BY NoneFails
<1>3. Spec => [](Running => TypeOK)
  BY TypeCorrect
<1>4. QED
  BY <1>1, <1>2, <1>3, PTL

=============================================================================

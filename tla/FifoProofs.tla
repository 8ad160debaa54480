----------------------------- MODULE FifoProofs -----------------------------
(***************************************************************************)
(* Proofs, for a ring of any length, any bytes and any transfer lengths,   *)
(* of the invariants of module Fifo.                                       *)
(***************************************************************************)
EXTENDS Fifo, TLAPS

-----------------------------------------------------------------------------
(* Cursor arithmetic.                                                      *)

(* fifo_count without the modulus.                                         *)
LEMMA CountValue ==
  ASSUME NEW r \in Slots, NEW w \in Slots
  PROVE  /\ Count(r, w) = IF r <= w THEN w - r ELSE w - r + Length
         /\ Count(r, w) \in Slots
         /\ Remain(r, w) = Length - 1 - Count(r, w)
         /\ Remain(r, w) \in Slots
<1>1. w - r + Length \in 1..(2 * Length - 1)
  BY LengthAssumption DEF Slots
<1>2. (w - r + Length) % Length = IF r <= w THEN w - r ELSE w - r + Length
  BY <1>1, LengthAssumption DEF Slots
<1>3. QED
  BY <1>2, LengthAssumption DEF Slots, Count, Remain

(* Moving a cursor without the modulus.                                    *)
LEMMA AdvanceValue ==
  ASSUME NEW c \in Slots, NEW n \in Slots
  PROVE  /\ Advance(c, n) = IF c + n < Length THEN c + n ELSE c + n - Length
         /\ Advance(c, n) \in Slots
<1>1. c + n \in 0..(2 * Length - 1)
  BY LengthAssumption DEF Slots
<1>2. (c + n) % Length = IF c + n < Length THEN c + n ELSE c + n - Length
  BY <1>1, LengthAssumption DEF Slots
<1>3. QED
  BY <1>2, LengthAssumption DEF Slots, Advance

(* fifo_full is fifo_remain being zero.                                    *)
LEMMA FullIsNoRemain ==
  ASSUME NEW r \in Slots, NEW w \in Slots, ~Full(r, w)
  PROVE  1 <= Remain(r, w)
<1>1. (w + 1) % Length = IF w + 1 < Length THEN w + 1 ELSE 0
  BY LengthAssumption DEF Slots
<1>2. /\ Count(r, w) = IF r <= w THEN w - r ELSE w - r + Length
      /\ Remain(r, w) = Length - 1 - Count(r, w)
  BY CountValue
<1>3. QED
  BY <1>1, <1>2, LengthAssumption DEF Slots, Full

(* fifo_empty is fifo_count being zero.                                    *)
LEMMA EmptyIsNoCount ==
  ASSUME NEW r \in Slots, NEW w \in Slots, ~Empty(r, w)
  PROVE  1 <= Count(r, w)
<1>1. Count(r, w) = IF r <= w THEN w - r ELSE w - r + Length
  BY CountValue
<1>2. QED
  BY <1>1, LengthAssumption DEF Slots, Empty

(* Publishing n bytes that fit adds n to the count.                        *)
LEMMA CountAfterPublish ==
  ASSUME NEW r \in Slots, NEW w \in Slots, NEW n \in Slots,
         n <= Remain(r, w)
  PROVE  Count(r, Advance(w, n)) = Count(r, w) + n
<1> DEFINE a == Advance(w, n)
<1>1. a = (IF w + n < Length THEN w + n ELSE w + n - Length) /\ a \in Slots
  BY AdvanceValue
<1>2. /\ Count(r, w) = IF r <= w THEN w - r ELSE w - r + Length
      /\ Remain(r, w) = Length - 1 - Count(r, w)
  BY CountValue
<1>3. Count(r, a) = IF r <= a THEN a - r ELSE a - r + Length
  BY <1>1, CountValue
<1> HIDE DEF a
<1>4. Count(r, a) = Count(r, w) + n
  BY <1>1, <1>2, <1>3, LengthAssumption DEF Slots
<1>5. QED
  BY <1>4 DEF a

(* Giving back n bytes that are there takes n off the count.               *)
LEMMA CountAfterRelease ==
  ASSUME NEW r \in Slots, NEW w \in Slots, NEW n \in Slots,
         n <= Count(r, w)
  PROVE  Count(Advance(r, n), w) = Count(r, w) - n
<1> DEFINE a == Advance(r, n)
<1>1. a = (IF r + n < Length THEN r + n ELSE r + n - Length) /\ a \in Slots
  BY AdvanceValue
<1>2. Count(r, w) = IF r <= w THEN w - r ELSE w - r + Length
  BY CountValue
<1>3. Count(a, w) = IF a <= w THEN w - a ELSE w - a + Length
  BY <1>1, CountValue
<1> HIDE DEF a
<1>4. Count(a, w) = Count(r, w) - n
  BY <1>1, <1>2, <1>3, LengthAssumption DEF Slots
<1>5. QED
  BY <1>4 DEF a

(* The two slices of a transfer are one run of slots: in range, all        *)
(* different, and the same run seen from a cursor further on.              *)
LEMMA SlotInRange ==
  ASSUME NEW c \in Slots, NEW k \in Slots
  PROVE  Slot(c, k) \in Slots
BY LengthAssumption DEF Slots, Slot

(* Two bytes of one transfer never share a slot. *)
LEMMA SlotInjective ==
  ASSUME NEW c \in Slots, NEW i \in Slots, NEW j \in Slots,
         Slot(c, i) = Slot(c, j)
  PROVE  i = j
BY LengthAssumption DEF Slots, Slot

(* What is stored behind the write cursor continues the readable bytes. *)
LEMMA SlotFromRead ==
  ASSUME NEW r \in Slots, NEW w \in Slots, NEW k \in Slots,
         Count(r, w) + k < Length
  PROVE  Slot(w, k) = Slot(r, Count(r, w) + k)
<1>1. Count(r, w) = IF r <= w THEN w - r ELSE w - r + Length
  BY CountValue
<1>2. QED
  BY <1>1, LengthAssumption DEF Slots, Slot

(* Moving the read cursor on leaves the bytes behind it in their slots. *)
LEMMA SlotAfterRelease ==
  ASSUME NEW r \in Slots, NEW n \in Slots, NEW i \in Slots,
         n + i < Length
  PROVE  Slot(Advance(r, n), i) = Slot(r, n + i)
<1>1. Advance(r, n) = IF r + n < Length THEN r + n ELSE r + n - Length
  BY AdvanceValue
<1>2. QED
  BY <1>1, LengthAssumption DEF Slots, Slot

-----------------------------------------------------------------------------
(* What the type invariant says of the cursors and of the two transfers.   *)
LEMMA CursorFacts ==
  ASSUME TypeOK
  PROVE  /\ read \in Slots /\ write \in Slots
         /\ Count(read, write) \in Slots /\ Remain(read, write) \in Slots
         /\ Remain(read, write) = Length - 1 - Count(read, write)
         /\ fill.len \in Slots /\ fill.done \in Slots /\ drain.len \in Slots
         /\ drain.dst \in Seq(Data) /\ Len(drain.dst) \in Nat
         /\ gone \in Nat /\ stored \in Seq(Data) /\ Len(stored) \in Nat
<1>1. read \in Slots /\ write \in Slots
  BY DEF TypeOK
<1>2. /\ Count(read, write) \in Slots /\ Remain(read, write) \in Slots
      /\ Remain(read, write) = Length - 1 - Count(read, write)
  BY <1>1, CountValue
<1>3. QED
  BY <1>1, <1>2 DEF TypeOK

(* The inductive invariant.  Each part needs the others: a slot is safe    *)
(* from the fill side because the lengths are, the lengths stay good       *)
(* because the cursors account for every byte, and what a read copies is   *)
(* right because the slots still hold what was stored.                     *)

Resting == fill.op = "idle" => fill.done = 0

IInv ==
  /\ TypeOK
  /\ Resting
  /\ StaleLengthIsSafe
  /\ NothingLost
  /\ NothingOverwritten
  /\ DeliveredInOrder

(* fifo_init leaves an empty ring with both sides idle. *)
LEMMA InitIInv == Init => IInv
<1> SUFFICES ASSUME Init PROVE IInv
  OBVIOUS
<1>1. Count(read, write) = 0 /\ Remain(read, write) = Length - 1
  BY CountValue, LengthAssumption DEF Init, Slots
<1>2. TypeOK
  BY LengthAssumption DEF Init, TypeOK, Slots
<1>3. Resting /\ StaleLengthIsSafe /\ NothingLost
  BY <1>1, LengthAssumption DEF Init, Resting, StaleLengthIsSafe, NothingLost
<1>4. NothingOverwritten /\ DeliveredInOrder
  BY <1>1 DEF Init, NothingOverwritten, DeliveredInOrder
<1>5. QED
  BY <1>2, <1>3, <1>4 DEF IInv

(* Beginning a transfer that fits, whichever operation begins it.          *)
LEMMA BeginFillKeepsIInv ==
  ASSUME IInv, NEW n \in Nat, n <= Remain(read, write), BeginFill(n)
  PROVE  IInv'
<1> USE DEF IInv, BeginFill
<1>1. n \in Slots /\ 0 \in Slots
  BY CursorFacts, LengthAssumption DEF Slots
<1>2. TypeOK'
  BY <1>1 DEF TypeOK
<1>3. fill.done = 0 /\ fill'.done = 0 /\ fill'.len = n
  BY DEF Resting
<1>4. Resting' /\ StaleLengthIsSafe'
  BY <1>3 DEF Resting, StaleLengthIsSafe
<1>5. NothingLost'
  BY <1>3 DEF NothingLost
<1>6. NothingOverwritten'
  BY <1>3 DEF NothingOverwritten
<1>7. DeliveredInOrder'
  BY DEF DeliveredInOrder
<1>8. QED
  BY <1>2, <1>4, <1>5, <1>6, <1>7

(* A drain starts with a length that is there now. *)
LEMMA BeginDrainKeepsIInv ==
  ASSUME IInv, NEW op \in {"copy", "clear"}, NEW n \in Nat,
         n <= Count(read, write), BeginDrain(op, n)
  PROVE  IInv'
<1> USE DEF IInv, BeginDrain
<1>1. n \in Slots
  BY CursorFacts, LengthAssumption DEF Slots
<1>2. TypeOK'
  BY <1>1 DEF TypeOK
<1>3. Resting' /\ StaleLengthIsSafe'
  BY DEF Resting, StaleLengthIsSafe
<1>4. NothingLost' /\ NothingOverwritten'
  BY DEF NothingLost, NothingOverwritten
<1>5. DeliveredInOrder'
  BY DEF DeliveredInOrder
<1>6. QED
  BY <1>2, <1>3, <1>4, <1>5

(* Storing a byte touches the first slot after the readable bytes only. *)
LEMMA StoreKeepsIInv ==
  ASSUME IInv, Store
  PROVE  IInv'
<1> USE DEF IInv
<1> DEFINE at == Count(read, write) + fill.done
<1>1. PICK byte \in Data :
        /\ buf' = [buf EXCEPT ![Slot(write, fill.done)] = byte]
        /\ stored' = Append(stored, byte)
  BY DEF Store
<1>2. /\ fill.op = "copy" /\ fill.done < fill.len
      /\ fill' = [fill EXCEPT !.done = @ + 1]
      /\ UNCHANGED <<read, write, drain, got, gone>>
  BY DEF Store
<1>3. /\ read \in Slots /\ write \in Slots
      /\ fill.done \in Slots /\ fill.len \in Slots
      /\ Count(read, write) \in Slots /\ gone \in Nat /\ Len(stored) \in Nat
      /\ Remain(read, write) = Length - 1 - Count(read, write)
  BY CursorFacts
<1>4. at < Length /\ at \in Slots /\ fill.done + 1 \in Slots
  BY <1>2, <1>3, LengthAssumption, SMTT(30) DEF StaleLengthIsSafe, Slots
<1>5. Slot(write, fill.done) = Slot(read, at) /\ Slot(read, at) \in Slots
  <2>1. Slot(write, fill.done) = Slot(read, at)
    BY <1>3, <1>4, SlotFromRead
  <2>2. Slot(read, at) \in Slots
    BY <1>3, <1>4, SlotInRange
  <2>3. QED
    BY <2>1, <2>2
<1>6. TypeOK'
  <2>1. buf' \in [Slots -> Data]
    BY <1>1 DEF TypeOK
  <2>2. fill' \in [op : {"idle", "copy"}, len : Slots, done : Slots]
    BY <1>2, <1>4 DEF TypeOK
  <2>3. stored' \in Seq(Data)
    BY <1>1 DEF TypeOK
  <2>4. QED
    BY <1>2, <2>1, <2>2, <2>3 DEF TypeOK
<1>7. fill'.done = fill.done + 1 /\ fill'.len = fill.len /\ fill'.op = fill.op
  BY <1>2 DEF TypeOK
<1>8. Resting' /\ StaleLengthIsSafe'
  BY <1>2, <1>3, <1>7 DEF Resting, StaleLengthIsSafe, Slots
<1>9. Len(stored) = gone + at /\ Len(stored') = Len(stored) + 1
  BY <1>1, <1>3, LengthAssumption, SMTT(30) DEF NothingLost, TypeOK, Slots
<1>10. NothingLost'
  BY <1>2, <1>3, <1>7, <1>9 DEF NothingLost, Slots
<1>11. NothingOverwritten'
  <2> SUFFICES ASSUME NEW i \in 0..at
               PROVE  buf'[Slot(read, i)] = stored'[gone + i + 1]
    BY <1>2, <1>3, <1>7 DEF NothingOverwritten, Slots
  <2>1. i \in Slots
    BY <1>3, <1>4, LengthAssumption DEF Slots
  <2>2. CASE i = at
    <3>1. stored'[Len(stored) + 1] = byte
      BY <1>1 DEF TypeOK
    <3>2. buf'[Slot(read, at)] = byte
      BY <1>1, <1>5 DEF TypeOK
    <3>3. QED
      BY <2>2, <3>1, <3>2, <1>9
  <2>3. CASE i # at
    <3>1. i \in 0..(at - 1) /\ gone + i + 1 \in 1..Len(stored)
      <4>1. at \in Nat /\ i \in Nat /\ i < at
        BY <2>1, <2>3, <1>4 DEF Slots
      <4>2. QED
        BY <4>1, <1>3, <1>9
    <3>2. Slot(read, i) # Slot(read, at) /\ Slot(read, i) \in Slots
      BY <2>1, <2>3, <1>3, <1>4, SlotInjective, SlotInRange
    <3>3. buf'[Slot(read, i)] = buf[Slot(read, i)]
      BY <3>2, <1>1, <1>5 DEF TypeOK
    <3>4. stored'[gone + i + 1] = stored[gone + i + 1]
      BY <3>1, <1>1 DEF TypeOK
    <3>5. buf[Slot(read, i)] = stored[gone + i + 1]
      <4>1. i \in 0..((Count(read, write) + fill.done) - 1)
        BY <3>1
      <4> HIDE DEF at
      <4>2. QED
        BY <4>1 DEF NothingOverwritten
    <3>6. QED
      BY <3>3, <3>4, <3>5
  <2>4. QED
    BY <2>2, <2>3
<1>12. DeliveredInOrder'
  <2> SUFFICES ASSUME NEW k \in 1..Len(drain.dst)
               PROVE  drain.dst[k] = stored'[gone + k]
    BY <1>2 DEF DeliveredInOrder
  <2>1. gone + k \in 1..Len(stored)
    BY <1>3, <1>9, SMTT(30) DEF StaleLengthIsSafe, TypeOK, Slots
  <2>2. stored'[gone + k] = stored[gone + k]
    BY <2>1, <1>1 DEF TypeOK
  <2>3. QED
    BY <2>2 DEF DeliveredInOrder
<1>13. QED
  BY <1>6, <1>8, <1>10, <1>11, <1>12

(* Publishing turns stored bytes into readable ones. *)
LEMMA PublishKeepsIInv ==
  ASSUME IInv, Publish
  PROVE  IInv'
<1> USE DEF IInv
<1>0. /\ fill.op = "copy" /\ fill.done = fill.len
      /\ write' = Advance(write, fill.len)
      /\ fill' = [op |-> "idle", len |-> 0, done |-> 0]
      /\ UNCHANGED <<buf, read, drain, got, stored, gone>>
  BY DEF Publish
<1>1. /\ read \in Slots /\ write \in Slots /\ write' \in Slots
      /\ fill.len \in Slots /\ 0 \in Slots /\ gone \in Nat
  <2>1. read \in Slots /\ write \in Slots /\ fill.len \in Slots /\ gone \in Nat
    BY CursorFacts
  <2>2. write' \in Slots
    BY <1>0, <2>1, AdvanceValue
  <2>3. QED
    BY <2>1, <2>2, LengthAssumption DEF Slots
<1>2. Count(read, write') = Count(read, write) + fill.len
  BY <1>0, <1>1, CountAfterPublish DEF StaleLengthIsSafe
<1>3. TypeOK'
  BY <1>0, <1>1 DEF TypeOK
<1>4. fill'.op = "idle" /\ fill'.len = 0 /\ fill'.done = 0
  BY <1>0
<1>5. Count(read, write) \in Slots
  BY <1>1, CountValue
<1>6. Resting' /\ StaleLengthIsSafe'
  <2>1. drain.len \in Slots /\ Len(drain.dst) \in Nat
    BY CursorFacts
  <2>2. Remain(read, write') \in Slots
    BY <1>1, CountValue
  <2>3. QED
    BY <1>0, <1>1, <1>2, <1>4, <1>5, <2>1, <2>2
       DEF Resting, StaleLengthIsSafe, Slots
<1>7. Count(read, write') + fill'.done = Count(read, write) + fill.done
  BY <1>0, <1>1, <1>2, <1>4, <1>5 DEF Slots
<1>8. NothingLost' /\ NothingOverwritten'
  <2>1. NothingLost'
    <3>1. Len(stored) = gone + Count(read, write) + fill.done
      BY DEF NothingLost
    <3>2. Len(stored') = gone' + Count(read', write') + fill'.done
      BY <3>1, <1>0, <1>1, <1>2, <1>4, <1>5 DEF Slots
    <3>3. QED
      BY <3>2 DEF NothingLost
  <2>2. NothingOverwritten'
    <3>1. \A i \in 0..((Count(read, write) + fill.done) - 1) :
            buf[Slot(read, i)] = stored[gone + i + 1]
      BY DEF NothingOverwritten
    <3>2. \A i \in 0..((Count(read', write') + fill'.done) - 1) :
            buf'[Slot(read', i)] = stored'[gone' + i + 1]
      BY <3>1, <1>0, <1>7
    <3>3. QED
      BY <3>2 DEF NothingOverwritten
  <2>3. QED
    BY <2>1, <2>2
<1>9. DeliveredInOrder'
  BY <1>0 DEF DeliveredInOrder
<1>10. QED
  BY <1>3, <1>6, <1>8, <1>9

(* Copying a byte out takes the next of the readable bytes. *)
LEMMA LoadKeepsIInv ==
  ASSUME IInv, Load
  PROVE  IInv'
<1> USE DEF IInv
<1> DEFINE at == Len(drain.dst)
           byte == buf[Slot(read, at)]
<1>1. /\ drain.op = "copy" /\ at < drain.len
      /\ drain' = [drain EXCEPT !.dst = Append(drain.dst, byte)]
      /\ UNCHANGED <<buf, read, write, fill, got, stored, gone>>
  BY DEF Load
<1>2. /\ read \in Slots /\ write \in Slots /\ at \in Nat
      /\ drain.len \in Slots /\ fill.done \in Slots
      /\ Count(read, write) \in Slots /\ gone \in Nat
      /\ drain.dst \in Seq(Data)
  BY CursorFacts
<1>3. at \in Slots /\ at \in 0..((Count(read, write) + fill.done) - 1)
  <2>1. drain.len <= Count(read, write)
    BY DEF StaleLengthIsSafe
  <2>2. /\ at \in Nat /\ drain.len \in Nat /\ fill.done \in Nat
        /\ Count(read, write) \in 0..(Length - 1)
    BY <1>2, LengthAssumption DEF Slots
  <2> HIDE DEF at
  <2>3. at \in Slots
    BY <2>1, <2>2, <1>1, LengthAssumption DEF Slots
  <2>4. at \in 0..((Count(read, write) + fill.done) - 1)
    BY <2>1, <2>2, <1>1
  <2>5. QED
    BY <2>3, <2>4
<1>4. byte \in Data
  BY <1>2, <1>3, SlotInRange DEF TypeOK
<1>5. byte = stored[gone + at + 1]
  BY <1>3 DEF NothingOverwritten
<1>6. /\ drain'.dst = Append(drain.dst, byte)
      /\ drain'.len = drain.len /\ drain'.op = drain.op
  BY <1>1 DEF TypeOK
<1>7. TypeOK'
  <2>1. Append(drain.dst, byte) \in Seq(Data)
    BY <1>2, <1>4
  <2>2. drain' \in [op : {"idle", "copy", "clear"}, len : Slots,
                    dst : Seq(Data)]
    BY <2>1, <1>1 DEF TypeOK
  <2>3. QED
    BY <1>1, <2>2 DEF TypeOK
<1>8. Resting' /\ StaleLengthIsSafe'
  BY <1>1, <1>2, <1>6 DEF Resting, StaleLengthIsSafe, Slots
<1>9. NothingLost' /\ NothingOverwritten'
  BY <1>1 DEF NothingLost, NothingOverwritten
<1>10. DeliveredInOrder'
  <2> SUFFICES ASSUME NEW k \in 1..(at + 1)
               PROVE  Append(drain.dst, byte)[k] = stored[gone + k]
    BY <1>1, <1>2, <1>6 DEF DeliveredInOrder
  <2>1. CASE k = at + 1
    BY <2>1, <1>2, <1>5
  <2>2. CASE k # at + 1
    <3>1. k \in 1..at
      BY <2>2, <1>2
    <3>2. QED
      BY <3>1, <1>2 DEF DeliveredInOrder
  <2>3. QED
    BY <2>1, <2>2
<1>11. QED
  BY <1>7, <1>8, <1>9, <1>10

(* Giving slots back drops the oldest readable bytes. *)
LEMMA ReleaseKeepsIInv ==
  ASSUME IInv, Release
  PROVE  IInv'
<1> USE DEF IInv
<1>1. /\ read' = Advance(read, drain.len)
      /\ gone' = gone + drain.len
      /\ drain' = [op |-> "idle", len |-> 0, dst |-> <<>>]
      /\ UNCHANGED <<buf, write, fill, stored>>
  BY DEF Release
<1>2. /\ read \in Slots /\ write \in Slots /\ read' \in Slots
      /\ drain.len \in Slots /\ fill.done \in Slots /\ fill.len \in Slots
      /\ Count(read, write) \in Slots /\ gone \in Nat /\ 0 \in Slots
      /\ drain.len <= Count(read, write)
  <2>1. /\ read \in Slots /\ write \in Slots
        /\ drain.len \in Slots /\ fill.done \in Slots /\ fill.len \in Slots
        /\ Count(read, write) \in Slots /\ gone \in Nat
    BY CursorFacts
  <2>2. read' \in Slots
    BY <1>1, <2>1, AdvanceValue
  <2>3. QED
    BY <2>1, <2>2, LengthAssumption DEF StaleLengthIsSafe, Slots
<1>3. Count(read', write) = Count(read, write) - drain.len
  BY <1>1, <1>2, CountAfterRelease
<1>4. got' \in Seq(Data)
  BY DEF Release, TypeOK
<1>5. TypeOK'
  BY <1>1, <1>2, <1>4 DEF TypeOK, Slots
<1>6. drain'.len = 0 /\ drain'.dst = <<>> /\ Len(drain'.dst) = 0
  BY <1>1
<1>7. /\ Remain(read', write) = Length - 1 - Count(read', write)
      /\ Remain(read, write) = Length - 1 - Count(read, write)
  BY <1>2, CountValue
<1>8. Resting' /\ StaleLengthIsSafe'
  BY <1>1, <1>2, <1>3, <1>6, <1>7, LengthAssumption, SMTT(30)
     DEF Resting, StaleLengthIsSafe, Slots
<1>9. NothingLost'
  BY <1>1, <1>2, <1>3, SMTT(30) DEF NothingLost, Slots
<1>10. NothingOverwritten'
  <2> SUFFICES ASSUME NEW i \in 0..((Count(read', write) + fill.done) - 1)
               PROVE  buf[Slot(read', i)] = stored[gone' + i + 1]
    BY <1>1 DEF NothingOverwritten
  <2>1. /\ drain.len + i \in 0..((Count(read, write) + fill.done) - 1)
        /\ drain.len + i < Length /\ i \in Slots
    <3>1. fill.done <= Remain(read, write)
      <4>1. fill.done <= fill.len /\ fill.len <= Remain(read, write)
        BY DEF StaleLengthIsSafe
      <4>2. /\ fill.done \in Int /\ fill.len \in Int
            /\ Remain(read, write) \in Int
        BY <1>2, <1>7, LengthAssumption DEF Slots
      <4>3. QED
        BY <4>1, <4>2
    <3>2. i \in 0..((Count(read, write) - drain.len + fill.done) - 1)
      BY <1>3
    <3>3. QED
      BY <3>1, <3>2, <1>2, <1>7, LengthAssumption DEF Slots
  <2>2. Slot(read', i) = Slot(read, drain.len + i)
    <3>1. /\ read \in Slots /\ drain.len \in Slots /\ i \in Slots
          /\ drain.len + i < Length
      BY <1>2, <2>1
    <3>2. Slot(Advance(read, drain.len), i) = Slot(read, drain.len + i)
      BY <3>1, SlotAfterRelease, Zenon
    <3>3. QED
      BY <3>2, <1>1
  <2>3. gone' + i + 1 = gone + (drain.len + i) + 1
    BY <1>1, <1>2, <2>1 DEF Slots
  <2>4. buf[Slot(read, drain.len + i)] = stored[gone + (drain.len + i) + 1]
    <3>1. \A j \in 0..((Count(read, write) + fill.done) - 1) :
            buf[Slot(read, j)] = stored[gone + j + 1]
      BY DEF NothingOverwritten
    <3>2. QED
      BY <2>1, <3>1
  <2>5. QED
    BY <2>2, <2>3, <2>4
<1>11. DeliveredInOrder'
  BY <1>6 DEF DeliveredInOrder
<1>12. QED
  BY <1>5, <1>8, <1>9, <1>10, <1>11

-----------------------------------------------------------------------------
(* One case per operation. *)
LEMMA NextKeepsIInv == IInv /\ [Next]_vars => IInv'
<1> SUFFICES ASSUME IInv, [Next]_vars PROVE IInv'
  OBVIOUS
<1>1. /\ read \in Slots /\ write \in Slots
      /\ Count(read, write) \in Slots /\ Remain(read, write) \in Slots
      /\ Remain(read, write) = Length - 1 - Count(read, write)
  BY CountValue DEF IInv, TypeOK
<1>2. CASE Enque
  BY <1>1, <1>2, FullIsNoRemain, BeginFillKeepsIInv DEF Enque
<1>3. CASE CopyFromBuffer
  <2>1. PICK max \in Request : BeginFill(Smaller(Remain(read, write), max))
    BY <1>3 DEF CopyFromBuffer
  <2>2. /\ Smaller(Remain(read, write), max) \in Nat
        /\ Smaller(Remain(read, write), max) <= Remain(read, write)
    BY <1>1, RequestAssumption DEF Smaller, Slots
  <2>3. QED
    BY <2>1, <2>2, BeginFillKeepsIInv
<1>4. CASE GetsIntoFifo
  <2>1. PICK size \in Request \cap Slots :
          /\ Count(read, write) < size
          /\ \E ret \in 0..Smaller(size - Count(read, write), Length - write) :
               BeginFill(ret)
    BY <1>4 DEF GetsIntoFifo
  <2>2. PICK ret \in 0..Smaller(size - Count(read, write), Length - write) :
          BeginFill(ret)
    BY <2>1
  <2>3. ret \in Nat /\ ret <= Remain(read, write)
    BY <1>1, <2>1, LengthAssumption DEF Smaller, Slots
  <2>4. QED
    BY <2>2, <2>3, BeginFillKeepsIInv
<1>5. CASE Store
  BY <1>5, StoreKeepsIInv
<1>6. CASE Publish
  BY <1>6, PublishKeepsIInv
<1>7. CASE Deque
  BY <1>1, <1>7, EmptyIsNoCount, BeginDrainKeepsIInv DEF Deque
<1>8. CASE MoveToBuffer
  <2>1. PICK max \in Request :
          BeginDrain("copy", Smaller(Count(read, write), max))
    BY <1>8 DEF MoveToBuffer
  <2>2. /\ Smaller(Count(read, write), max) \in Nat
        /\ Smaller(Count(read, write), max) <= Count(read, write)
    BY <1>1, RequestAssumption DEF Smaller, Slots
  <2>3. QED
    BY <2>1, <2>2, BeginDrainKeepsIInv
<1>9. CASE PutsFromFifo
  <2>1. PICK size \in Request \cap Slots :
          /\ Remain(read, write) < size
          /\ \E ret \in 0..Smaller(size - Remain(read, write), Length - read) :
               BeginDrain("copy", ret)
    BY <1>9 DEF PutsFromFifo
  <2>2. PICK ret \in 0..Smaller(size - Remain(read, write), Length - read) :
          BeginDrain("copy", ret)
    BY <2>1
  <2>3. ret \in Nat /\ ret <= Count(read, write)
    BY <1>1, <2>1, LengthAssumption DEF Smaller, Slots
  <2>4. QED
    BY <2>2, <2>3, BeginDrainKeepsIInv
<1>10. CASE Clear
  <2>1. Count(read, write) \in Nat /\ Count(read, write) <= Count(read, write)
    BY <1>1 DEF Slots
  <2>2. QED
    BY <1>10, <2>1, BeginDrainKeepsIInv DEF Clear
<1>11. CASE Load
  BY <1>11, LoadKeepsIInv
<1>12. CASE Release
  BY <1>12, ReleaseKeepsIInv
<1>13. CASE UNCHANGED vars
  BY <1>13 DEF vars, IInv, TypeOK, Resting, StaleLengthIsSafe, NothingLost,
               NothingOverwritten, DeliveredInOrder
<1>14. QED
  BY <1>2, <1>3, <1>4, <1>5, <1>6, <1>7, <1>8, <1>9, <1>10, <1>11, <1>12,
     <1>13 DEF Next

(* The invariant holds in every behaviour. *)
LEMMA SpecIInv == Spec => []IInv
BY InitIInv, NextKeepsIInv, PTL DEF Spec

(* Every cursor stays inside its ring, whatever the length.                *)
THEOREM TypeCorrect == Spec => []TypeOK
<1>1. IInv => TypeOK
  BY DEF IInv
<1>2. QED
  BY <1>1, SpecIInv, PTL

(* A length computed from a cursor the other side goes on moving is never  *)
(* too long when it is used.                                               *)
THEOREM StaleLengths == Spec => []StaleLengthIsSafe
<1>1. IInv => StaleLengthIsSafe
  BY DEF IInv
<1>2. QED
  BY <1>1, SpecIInv, PTL

(* The cursors account for every byte stored.                              *)
THEOREM Conservation == Spec => []NothingLost
<1>1. IInv => NothingLost
  BY DEF IInv
<1>2. QED
  BY <1>1, SpecIInv, PTL

(* The fill side never stores over a byte the drain side has yet to read.  *)
THEOREM NoOverwriting == Spec => []NothingOverwritten
<1>1. IInv => NothingOverwritten
  BY DEF IInv
<1>2. QED
  BY <1>1, SpecIInv, PTL

(* A read copies out the oldest bytes, in order, whatever is stored behind *)
(* its back.                                                               *)
THEOREM DeliveryOrder == Spec => []DeliveredInOrder
<1>1. IInv => DeliveredInOrder
  BY DEF IInv
<1>2. QED
  BY <1>1, SpecIInv, PTL

-----------------------------------------------------------------------------
(* The refinement of BoundedQueue.                                         *)

(* A window of a sequence: the c elements behind the first g.              *)
LEMMA Window ==
  ASSUME NEW s \in Seq(Data), NEW g \in Nat, NEW c \in Nat, g + c <= Len(s)
  PROVE  /\ SubSeq(s, g + 1, g + c) \in Seq(Data)
         /\ Len(SubSeq(s, g + 1, g + c)) = c
         /\ \A i \in 1..c : SubSeq(s, g + 1, g + c)[i] = s[g + i]
OBVIOUS

(* Sequences are equal that have the same elements.                        *)
LEMMA SameElements ==
  ASSUME NEW s \in Seq(Data), NEW t \in Seq(Data),
         Len(s) = Len(t), \A i \in 1..Len(s) : s[i] = t[i]
  PROVE  s = t
OBVIOUS

(* The window of a sequence that was extended is the same one.             *)
LEMMA WindowKept ==
  ASSUME NEW s \in Seq(Data), NEW t \in Seq(Data), NEW g \in Nat, NEW c \in Nat,
         g + c <= Len(s), g + c <= Len(t), \A i \in 1..Len(s) : t[i] = s[i]
  PROVE  SubSeq(t, g + 1, g + c) = SubSeq(s, g + 1, g + c)
<1>1. /\ SubSeq(s, g + 1, g + c) \in Seq(Data)
      /\ Len(SubSeq(s, g + 1, g + c)) = c
      /\ \A i \in 1..c : SubSeq(s, g + 1, g + c)[i] = s[g + i]
  BY Window
<1>2. /\ SubSeq(t, g + 1, g + c) \in Seq(Data)
      /\ Len(SubSeq(t, g + 1, g + c)) = c
      /\ \A i \in 1..c : SubSeq(t, g + 1, g + c)[i] = t[g + i]
  BY Window
<1>3. \A i \in 1..c : t[g + i] = s[g + i]
  OBVIOUS
<1>4. QED
  BY <1>1, <1>2, <1>3, SameElements

(* The window grown by n elements.                                         *)
LEMMA WindowGrown ==
  ASSUME NEW s \in Seq(Data), NEW g \in Nat, NEW c \in Nat, NEW n \in Nat,
         g + c + n <= Len(s)
  PROVE  \E batch \in [1..n -> Data] :
           SubSeq(s, g + 1, g + (c + n)) = SubSeq(s, g + 1, g + c) \o batch
<1> DEFINE batch == [i \in 1..n |-> s[g + c + i]]
           w == SubSeq(s, g + 1, g + c)
<1>1. batch \in [1..n -> Data] /\ batch \in Seq(Data) /\ Len(batch) = n
  OBVIOUS
<1>2. w \in Seq(Data) /\ Len(w) = c /\ \A i \in 1..c : w[i] = s[g + i]
  <2>1. g + c <= Len(s)
    OBVIOUS
  <2>2. QED
    BY <2>1, Window
<1>3. /\ SubSeq(s, g + 1, g + (c + n)) \in Seq(Data)
      /\ Len(SubSeq(s, g + 1, g + (c + n))) = c + n
      /\ \A i \in 1..(c + n) : SubSeq(s, g + 1, g + (c + n))[i] = s[g + i]
  <2>1. c + n \in Nat /\ g + (c + n) <= Len(s)
    OBVIOUS
  <2>2. QED
    BY <2>1, Window
<1>4. \A i \in 1..n : batch[i] = s[g + c + i]
  OBVIOUS
<1> HIDE DEF batch, w
<1>5. /\ w \o batch \in Seq(Data) /\ Len(w \o batch) = c + n
      /\ \A i \in 1..(c + n) : (w \o batch)[i] = s[g + i]
  <2>1. /\ w \o batch \in Seq(Data) /\ Len(w \o batch) = c + n
        /\ \A i \in 1..(c + n) :
             (w \o batch)[i] = IF i <= c THEN w[i] ELSE batch[i - c]
    BY <1>1, <1>2
  <2>2. ASSUME NEW i \in 1..(c + n) PROVE (w \o batch)[i] = s[g + i]
    <3>1. CASE i <= c
      BY <2>1, <1>2, <3>1
    <3>2. CASE ~(i <= c)
      <4>1. i - c \in 1..n /\ g + c + (i - c) = g + i
        BY <3>2
      <4>2. QED
        BY <2>1, <1>4, <3>2, <4>1
    <3>3. QED
      BY <3>1, <3>2
  <2>3. QED
    BY <2>1, <2>2
<1>6. SubSeq(s, g + 1, g + (c + n)) = w \o batch
  BY <1>3, <1>5, SameElements
<1>7. QED
  BY <1>1, <1>6 DEF batch, w

(* The window shrunk by its first n elements.                              *)
LEMMA WindowShrunk ==
  ASSUME NEW s \in Seq(Data), NEW g \in Nat, NEW c \in Nat, NEW n \in 0..c,
         g + c <= Len(s)
  PROVE  SubSeq(s, (g + n) + 1, (g + n) + (c - n))
           = SubSeq(SubSeq(s, g + 1, g + c), n + 1, c)
<1> DEFINE w == SubSeq(s, g + 1, g + c)
<1>1. w \in Seq(Data) /\ Len(w) = c /\ \A i \in 1..c : w[i] = s[g + i]
  BY Window
<1>2. /\ SubSeq(s, (g + n) + 1, (g + n) + (c - n)) \in Seq(Data)
      /\ Len(SubSeq(s, (g + n) + 1, (g + n) + (c - n))) = c - n
      /\ \A i \in 1..(c - n) :
           SubSeq(s, (g + n) + 1, (g + n) + (c - n))[i] = s[g + n + i]
  BY Window
<1> HIDE DEF w
<1>3. /\ SubSeq(w, n + 1, n + (c - n)) \in Seq(Data)
      /\ Len(SubSeq(w, n + 1, n + (c - n))) = c - n
      /\ \A i \in 1..(c - n) : SubSeq(w, n + 1, n + (c - n))[i] = w[n + i]
  BY <1>1, Window
<1>4. \A i \in 1..(c - n) : w[n + i] = s[g + n + i]
  BY <1>1
<1>5. SubSeq(s, (g + n) + 1, (g + n) + (c - n)) = SubSeq(w, n + 1, n + (c - n))
  BY <1>2, <1>3, <1>4, SameElements
<1>6. n + (c - n) = c
  OBVIOUS
<1>7. QED
  BY <1>5, <1>6 DEF w

(* Every initial state is an empty queue.                                  *)
LEMMA InitRefines == Init => Queue!Init
<1> SUFFICES ASSUME Init PROVE Queue!Init
  OBVIOUS
<1>1. read = 0 /\ write = 0 /\ gone = 0 /\ stored = <<>> /\ got = <<>>
  BY DEF Init
<1>2. 0 \in Slots
  BY LengthAssumption DEF Slots
<1>3. Count(0, 0) = 0
  BY <1>2, CountValue
<1>4. SubSeq(<<>>, 0 + 1, 0 + 0) = <<>>
  OBVIOUS
<1>5. QED
  BY <1>1, <1>3, <1>4 DEF Queue!Init, Published

(* Publishing appends the bytes that were stored, all together; of the     *)
(* stored ones it may be none.                                             *)
LEMMA PublishRefines ==
  ASSUME IInv, Publish
  PROVE  Queue!Next \/ UNCHANGED <<Published, got>>
<1> DEFINE c == Count(read, write)
           n == fill.len
<1>1. /\ read \in Slots /\ write \in Slots /\ n \in Slots /\ fill.done = n
      /\ c \in Slots /\ gone \in Nat /\ stored \in Seq(Data)
      /\ n <= Remain(read, write) /\ Remain(read, write) = Length - 1 - c
  BY CursorFacts DEF Publish, IInv, TypeOK, StaleLengthIsSafe
<1>2. c \in Nat /\ n \in Nat /\ gone + c + n <= Len(stored) /\ c + n <= Length - 1
  BY <1>1, LengthAssumption DEF IInv, NothingLost, Slots
<1>3. Count(read, Advance(write, n)) = c + n
  BY <1>1, CountAfterPublish
<1>4. /\ Published = SubSeq(stored, gone + 1, gone + c)
      /\ Published' = SubSeq(stored, gone + 1, gone + (c + n))
      /\ got' = got
  BY <1>3 DEF Publish, Published
<1>5. Len(Published) = c
  BY <1>1, <1>2, <1>4, Window, SMTT(30)
<1> HIDE DEF c, n
<1>6. PICK batch \in [1..n -> Data] :
        SubSeq(stored, gone + 1, gone + (c + n))
          = SubSeq(stored, gone + 1, gone + c) \o batch
  <2>1. gone \in Nat /\ c \in Nat /\ n \in Nat /\ stored \in Seq(Data)
    BY <1>1, <1>2
  <2>2. gone + c + n <= Len(stored)
    BY <1>2
  <2>3. \E batch \in [1..n -> Data] :
          SubSeq(stored, gone + 1, gone + (c + n))
            = SubSeq(stored, gone + 1, gone + c) \o batch
    BY <2>1, <2>2, WindowGrown, Zenon
  <2>4. QED
    BY <2>3
<1>7. CASE n = 0
  BY <1>2, <1>4, <1>7
<1>8. CASE n # 0
  <2>1. n \in 1..(Length - 1)
    BY <1>2, <1>8, LengthAssumption
  <2>2. Queue!Put(n)
    BY <1>2, <1>4, <1>5, <1>6 DEF Queue!Put
  <2>3. QED
    BY <2>1, <2>2 DEF Queue!Next
<1>9. QED
  BY <1>7, <1>8

(* Giving slots back takes the oldest bytes, which a read has copied and a *)
(* clear drops.                                                            *)
LEMMA ReleaseRefines ==
  ASSUME IInv, Release
  PROVE  Queue!Next
<1> DEFINE c == Count(read, write)
           n == drain.len
<1>1. /\ read \in Slots /\ write \in Slots /\ n \in Slots /\ n <= c
      /\ c \in Slots /\ gone \in Nat /\ stored \in Seq(Data)
      /\ drain.dst \in Seq(Data) /\ fill.done \in Slots
  BY CursorFacts DEF IInv, StaleLengthIsSafe
<1>2. c \in Nat /\ n \in 0..c /\ gone + c <= Len(stored)
  BY <1>1, LengthAssumption DEF IInv, NothingLost, Slots
<1>3. Count(Advance(read, n), write) = c - n
  BY <1>1, CountAfterRelease
<1>4. /\ Published = SubSeq(stored, gone + 1, gone + c)
      /\ Published' = SubSeq(stored, (gone + n) + 1, (gone + n) + (c - n))
  BY <1>3 DEF Release, Published
<1>5. /\ Published \in Seq(Data) /\ Len(Published) = c
      /\ \A i \in 1..c : Published[i] = stored[gone + i]
  BY <1>1, <1>2, <1>4, Window
<1> HIDE DEF c, n
<1>6. Published' = SubSeq(Published, n + 1, Len(Published))
  <2>1. SubSeq(stored, (gone + n) + 1, (gone + n) + (c - n))
          = SubSeq(SubSeq(stored, gone + 1, gone + c), n + 1, c)
    BY <1>1, <1>2, WindowShrunk, Zenon
  <2>2. QED
    BY <1>4, <1>5, <2>1
<1>7. CASE drain.op = "copy"
  <2>1. Len(drain.dst) = n /\ got' = drain.dst
    BY <1>7 DEF Release, n
  <2>2. \A k \in 1..n : drain.dst[k] = stored[gone + k]
    BY <2>1 DEF IInv, DeliveredInOrder
  <2>3. /\ SubSeq(Published, 1, n) \in Seq(Data)
        /\ Len(SubSeq(Published, 1, n)) = n
        /\ \A i \in 1..n : SubSeq(Published, 1, n)[i] = Published[i]
    BY <1>2, <1>5
  <2>4. drain.dst = SubSeq(Published, 1, n)
    <3>1. \A i \in 1..n : drain.dst[i] = SubSeq(Published, 1, n)[i]
      <4>1. \A i \in 1..n : i \in 1..c
        BY <1>2
      <4>2. QED
        BY <1>5, <2>2, <2>3, <4>1
    <3>2. QED
      BY <1>1, <2>1, <2>3, <3>1, SameElements
  <2>5. Queue!Take(n)
    BY <1>6, <2>1, <2>4 DEF Queue!Take
  <2>6. QED
    BY <1>2, <1>5, <2>5 DEF Queue!Next
<1>8. CASE drain.op = "clear"
  <2>1. got' = got
    BY <1>8 DEF Release
  <2>2. Queue!Drop(n)
    BY <1>6, <2>1 DEF Queue!Drop
  <2>3. QED
    BY <1>2, <1>5, <2>2 DEF Queue!Next
<1>9. QED
  BY <1>7, <1>8 DEF Release

(* Storing a byte behind the window does not change it.                    *)
LEMMA StoreRefines ==
  ASSUME IInv, Store
  PROVE  UNCHANGED <<Published, got>>
<1> DEFINE c == Count(read, write)
<1>1. c \in Slots /\ gone \in Nat /\ stored \in Seq(Data) /\ fill.done \in Slots
  BY CursorFacts DEF IInv
<1>2. c \in Nat /\ gone + c <= Len(stored)
  BY <1>1, LengthAssumption DEF IInv, NothingLost, Slots
<1>3. PICK byte \in Data : stored' = Append(stored, byte)
  BY DEF Store
<1>4. /\ stored' \in Seq(Data) /\ gone + c <= Len(stored')
      /\ \A i \in 1..Len(stored) : stored'[i] = stored[i]
  BY <1>1, <1>2, <1>3
<1>5. SubSeq(stored', gone + 1, gone + c) = SubSeq(stored, gone + 1, gone + c)
  BY <1>1, <1>2, <1>4, WindowKept
<1>6. QED
  BY <1>5 DEF Published, Store

(* Each step of the ring is one of the queue, or none.                     *)
LEMMA StepRefines ==
  IInv /\ [Next]_vars => [Queue!Next]_<<Published, got>>
<1> SUFFICES ASSUME IInv, [Next]_vars
             PROVE  Queue!Next \/ UNCHANGED <<Published, got>>
  OBVIOUS
<1>1. CASE Publish
  BY <1>1, PublishRefines
<1>2. CASE Release
  BY <1>2, ReleaseRefines
<1>3. CASE Store
  BY <1>3, StoreRefines
<1>4. CASE Enque \/ CopyFromBuffer \/ GetsIntoFifo
  BY <1>4 DEF Enque, CopyFromBuffer, GetsIntoFifo, BeginFill, Published
<1>5. CASE Deque \/ MoveToBuffer \/ PutsFromFifo \/ Clear
  BY <1>5 DEF Deque, MoveToBuffer, PutsFromFifo, Clear, BeginDrain, Published
<1>6. CASE Load
  BY <1>6 DEF Load, Published
<1>7. CASE UNCHANGED vars
  BY <1>7 DEF vars, Published
<1>8. QED
  BY <1>1, <1>2, <1>3, <1>4, <1>5, <1>6, <1>7 DEF Next

(* The ring implements the queue that loses, repeats and reorders nothing, *)
(* for every interleaving of its two sides (fifo.h).                       *)
THEOREM Refinement == Spec => ImplementsQueue
BY SpecIInv, InitRefines, StepRefines, PTL
   DEF Spec, ImplementsQueue, Queue!Spec
=============================================================================

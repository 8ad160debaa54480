---------------------------- MODULE RemoteCalls -----------------------------
(***************************************************************************)
(* What softio promises its two ends: every request is carried out by the  *)
(* other end once, in the order of the requests, and its answer comes back *)
(* to the end that asked, in that order too.  How many bytes any of it     *)
(* takes, and how they travel, is left to module SoftIO.                   *)
(***************************************************************************)
EXTENDS Naturals, Sequences

CONSTANTS Keeps, Values, Byte, FifoLength

Peer == {"pc", "mcu"}
Other(p) == IF p = "pc" THEN "mcu" ELSE "pc"
Fills(p) == IF p = "pc" THEN "down" ELSE "up"
Types == {"read", "write", "read_fifo", "write_fifo", "clear_fifo"}

VARIABLES
  asked,    \* heads of the requests an end has not had the answer to
  todo,     \* its requests that are not carried out yet
  answers,  \* the answers that are on their way to it
  value,    \* each end's copy of the variable
  fifo      \* each end's two fifos

vars == <<asked, todo, answers, value, fifo>>

Init ==
  /\ asked = [p \in Peer |-> <<>>]
  /\ todo = [p \in Peer |-> <<>>]
  /\ answers = [p \in Peer |-> <<>>]
  /\ value \in [Peer -> Values]
  /\ fifo = [p \in Peer |-> [f \in {"up", "down"} |-> <<>>]]

Behind(s, n) == SubSeq(s, n + 1, Len(s))
Least(a, b) == IF a <= b THEN a ELSE b

Ask(p, type, len) ==
  LET data == CASE type = "write"      -> <<value[p]>>
                [] type = "write_fifo" -> SubSeq(fifo[p][Fills(p)], 1, len)
                [] OTHER               -> <<>>
  IN
  /\ type = "write_fifo" => len <= Len(fifo[p][Fills(p)])
  /\ todo' = [todo EXCEPT ![p] =
                Append(@, [type |-> type, ret |-> FALSE, len |-> len, data |-> data])]
  /\ asked' = IF p \in Keeps
              THEN [asked EXCEPT ![p] = Append(@, [type |-> type, len |-> len])]
              ELSE asked
  /\ fifo' = IF type = "write_fifo"
             THEN [fifo EXCEPT ![p][Fills(p)] = Behind(@, len)] ELSE fifo
  /\ UNCHANGED <<answers, value>>

(* q = Other(p) carries out the oldest request of p. *)
Execute(p) ==
  LET q == Other(p)
      m == Head(todo[p])
      n == Least(m.len, Len(fifo[q]["up"]))
      Reply(len, data) ==
        answers' = [answers EXCEPT ![p] =
          Append(@, [type |-> m.type, ret |-> TRUE, len |-> len, data |-> data])]
  IN
  /\ todo[p] # <<>>
  /\ todo' = [todo EXCEPT ![p] = Tail(@)]
  /\ \/ /\ m.type = "read"
        /\ Reply(1, <<value[q]>>)
        /\ UNCHANGED <<value, fifo>>
     \/ /\ m.type = "write"
        /\ Reply(1, <<>>)
        /\ value' = [value EXCEPT ![q] = m.data[1]]
        /\ UNCHANGED fifo
     \/ /\ m.type = "read_fifo"
        /\ Reply(n, SubSeq(fifo[q]["up"], 1, n))
        /\ fifo' = [fifo EXCEPT ![q]["up"] = Behind(@, n)]
        /\ UNCHANGED value
     \/ /\ m.type = "write_fifo"
        /\ Reply(m.len, <<>>)
        /\ fifo' = [fifo EXCEPT ![q][Fills(p)] = @ \o m.data]
        /\ UNCHANGED value
     \/ /\ m.type = "clear_fifo"
        /\ Reply(0, <<>>)
        /\ fifo' = [fifo EXCEPT ![q][Fills(p)] = <<>>]
        /\ UNCHANGED value
  /\ UNCHANGED asked

(* The answer to the oldest request of p arrives; an end that does not     *)
(* handle responses throws it away.                                        *)
Complete(p) ==
  LET m == Head(answers[p]) IN
  /\ answers[p] # <<>>
  /\ answers' = [answers EXCEPT ![p] = Tail(@)]
  /\ IF p \notin Keeps THEN UNCHANGED <<asked, value, fifo>>
     ELSE /\ asked[p] # <<>>
          /\ m.type = Head(asked[p]).type
          /\ asked' = [asked EXCEPT ![p] = Tail(@)]
          /\ value' = IF m.type = "read" THEN [value EXCEPT ![p] = m.data[1]] ELSE value
          /\ fifo' = IF m.type = "read_fifo"
                     THEN [fifo EXCEPT ![p]["up"] = @ \o m.data] ELSE fifo
  /\ UNCHANGED todo

(* The programs at the two ends, on their own memory. *)
Local(p) ==
  /\ \/ \E v \in Values : value' = [value EXCEPT ![p] = v] /\ UNCHANGED fifo
     \/ \E f \in {"up", "down"} :
          \/ fifo[p][f] # <<>> /\ fifo' = [fifo EXCEPT ![p][f] = Tail(@)] /\ UNCHANGED value
          \/ \E b \in Byte : fifo' = [fifo EXCEPT ![p][f] = Append(@, b)] /\ UNCHANGED value
  /\ UNCHANGED <<asked, todo, answers>>

Next == \E p \in Peer :
  \/ \E type \in Types, len \in 0..FifoLength : Ask(p, type, len)
  \/ Execute(p) \/ Complete(p) \/ Local(p)

Spec == Init /\ [][Next]_vars
=============================================================================

-------------------------- MODULE TurboHostProofs --------------------------
(***************************************************************************)
(* Exclusive execution of scripts by TurboHost: for any number of commands *)
(* and any kinds of scripts, each command is answered at most once and     *)
(* with the result of its own script (IInv).  Then its recorder: a file    *)
(* without gaps, for every size of the fifo (Flags, Recorded).             *)
(***************************************************************************)
EXTENDS TurboHost, TLAPS

Places ==
  Kinds \cup {"none", "begin", "load", "opening", "closing", "ret", "unlock"}

(* The globals belong to the script that runs: it is the one of a command  *)
(* that has come, both are of the same command, and that has no answer     *)
(* before the script has published it.                                     *)
Owned ==
  /\ locked <=> script.pc # "none"
  /\ script.pc # "none" => luascript = luacid /\ luacid \in 1..asked
  /\ script.pc \notin {"none", "unlock"} => answers[luacid] = <<>>
  /\ script.pc \notin {"none", "begin", "load"} => script.of = luascript

IInv ==
  /\ asked \in 0..Commands
  /\ luascript \in 0..Commands /\ luacid \in 0..Commands
  /\ script \in [pc : Places, of : 0..Commands]
  /\ answers = [n \in 1..Commands |-> answers[n]]
  /\ Owned
  /\ \A n \in 1..Commands : n > asked => answers[n] = <<>>
  /\ AnswersAreOwn

LEMMA Initially == Init => IInv
  <1> SUFFICES ASSUME Init PROVE IInv
    OBVIOUS
  <1>1. answers = [n \in 1..Commands |-> answers[n]]
    BY DEF Init
  <1>2. \A n \in 1..Commands : answers[n] = <<>>
    BY DEF Init
  <1>3. script.pc = "none" /\ script \in [pc : Places, of : 0..Commands]
    BY SizeAssumption DEF Init, Places
  <1>4. Owned
    BY <1>3 DEF Init, Owned
  <1>5. AnswersAreOwn
    BY <1>2 DEF AnswersAreOwn
  <1>6. /\ asked \in 0..Commands
        /\ luascript \in 0..Commands /\ luacid \in 0..Commands
    BY SizeAssumption DEF Init
  <1> QED BY <1>1, <1>2, <1>3, <1>4, <1>5, <1>6 DEF IInv

(* What a step that leaves commands and scripts alone does to IInv.        *)
LEMMA Untouched ==
  ASSUME IInv,
         UNCHANGED <<asked, answers, locked, luascript, luacid, script>>
  PROVE  IInv'
  BY DEF IInv, Owned, AnswersAreOwn

(* An answer to a command that has none is its first.                      *)
LEMMA FirstAnswer ==
  ASSUME IInv, NEW n \in 1..Commands, answers[n] = <<>>,
         NEW what \in {Busy, n}, Publish(n, what)
  PROVE  /\ answers' = [k \in 1..Commands |-> answers'[k]]
         /\ answers'[n] = <<what>>
         /\ \A k \in 1..Commands : k # n => answers'[k] = answers[k]
  <1>1. answers = [k \in 1..Commands |-> answers[k]]
    BY DEF IInv
  <1>2. answers' = [answers EXCEPT ![n] = Append(<<>>, what)]
    BY DEF Publish
  <1>3. Append(<<>>, what) = <<what>>
    OBVIOUS
  <1> HIDE DEF Publish
  <1>4. answers' = [k \in 1..Commands |-> IF k = n THEN <<what>> ELSE answers[k]]
    BY <1>1, <1>2, <1>3
  <1> QED BY <1>4

LEMMA CommandTaken == IInv /\ Do => IInv'
  <1> SUFFICES ASSUME IInv, Do PROVE IInv'
    OBVIOUS
  <1> USE SizeAssumption
  <1>1. /\ asked \in 0..Commands /\ asked < Commands /\ asked' = asked + 1
        /\ asked' \in 1..Commands
        /\ answers[asked'] = <<>>
    BY DEF Do, IInv
  <1>2. CASE locked
    <2>1. Publish(asked', Busy) /\ UNCHANGED <<locked, luascript, luacid, script>>
      BY <1>2 DEF Do
    <2>2. /\ answers' = [k \in 1..Commands |-> answers'[k]]
          /\ answers'[asked'] = <<Busy>>
          /\ \A k \in 1..Commands : k # asked' => answers'[k] = answers[k]
      BY <1>1, <2>1, FirstAnswer DEF Busy
    <2>3. luacid # asked' /\ luacid \in 1..Commands
      BY <1>1, <1>2 DEF IInv, Owned
    <2>4. Owned'
      BY <1>1, <1>2, <2>1, <2>2, <2>3 DEF IInv, Owned
    <2>5. AnswersAreOwn'
      BY <1>1, <2>2 DEF IInv, AnswersAreOwn
    <2>6. \A k \in 1..Commands : k > asked' => answers'[k] = <<>>
      BY <1>1, <2>2 DEF IInv
    <2> QED BY <1>1, <2>1, <2>2, <2>4, <2>5, <2>6 DEF IInv
  <1>3. CASE ~locked
    <2>1. /\ locked' = TRUE /\ luascript' = asked' /\ luacid' = asked'
          /\ script' = [pc |-> "begin", of |-> 0] /\ UNCHANGED answers
      BY <1>3 DEF Do
    <2> QED BY <1>1, <2>1 DEF IInv, Owned, AnswersAreOwn, Places
  <1> QED BY <1>2, <1>3 DEF IInv

(* A step within the script, before the answer.                            *)
LEMMA ScriptGoesOn ==
  ASSUME IInv, NEW to \in Places \ {"none", "unlock", "begin", "load"},
         script.pc \notin {"none", "unlock", "begin", "load"},
         script' = [script EXCEPT !.pc = to],
         UNCHANGED <<asked, answers, locked, luascript, luacid>>
  PROVE  IInv'
  BY DEF IInv, Owned, AnswersAreOwn

LEMMA ScriptStep == IInv /\ ScriptThread => IInv'
  <1> SUFFICES ASSUME IInv, ScriptThread PROVE IInv'
    OBVIOUS
  <1>1. CASE Begin
    BY <1>1 DEF Begin, Script, IInv, Owned, AnswersAreOwn, Places
  <1>2. CASE Load
    BY <1>2, ScriptsAssumption DEF Load, IInv, Owned, AnswersAreOwn, Places, Kinds
  <1>3. CASE Run
    BY <1>3, ScriptGoesOn DEF Run, Script, Places, Kinds
  <1>4. CASE Ret
    <2>1. /\ script.pc = "ret" /\ script' = [script EXCEPT !.pc = "unlock"]
          /\ UNCHANGED <<asked, locked, luascript, luacid>>
          /\ Publish(luacid, script.of)
      BY <1>4 DEF Ret, Script
    <2>2. /\ luacid \in 1..Commands /\ answers[luacid] = <<>>
          /\ script.of = luacid /\ luacid <= asked
      BY <2>1, SizeAssumption DEF IInv, Owned
    <2>3. /\ answers' = [k \in 1..Commands |-> answers'[k]]
          /\ answers'[luacid] = <<luacid>>
          /\ \A k \in 1..Commands : k # luacid => answers'[k] = answers[k]
      BY <2>1, <2>2, FirstAnswer
    <2>4. Owned'
      BY <2>1, <2>2, <2>3 DEF IInv, Owned
    <2>5. AnswersAreOwn'
      BY <2>2, <2>3 DEF IInv, AnswersAreOwn
    <2>6. \A k \in 1..Commands : k > asked' => answers'[k] = <<>>
      BY <2>1, <2>2, <2>3, SizeAssumption DEF IInv
    <2>7. script' \in [pc : Places, of : 0..Commands]
      BY <2>1 DEF IInv, Places
    <2> QED BY <2>1, <2>3, <2>4, <2>5, <2>6, <2>7 DEF IInv
  <1>5. CASE Unlock
    <2>1. /\ ~locked' /\ script' = [pc |-> "none", of |-> 0]
          /\ UNCHANGED <<asked, answers, luascript, luacid>>
      BY <1>5 DEF Unlock
    <2>2. script' \in [pc : Places, of : 0..Commands]
      BY <2>1, SizeAssumption DEF Places
    <2>3. Owned'
      BY <2>1 DEF Owned
    <2> QED BY <2>1, <2>2, <2>3 DEF IInv, AnswersAreOwn
  <1> QED BY <1>1, <1>2, <1>3, <1>4, <1>5 DEF ScriptThread

LEMMA Stepwise == IInv /\ [Next]_vars => IInv'
  <1> SUFFICES ASSUME IInv, [Next]_vars PROVE IInv'
    OBVIOUS
  <1>1. CASE Do
    BY <1>1, CommandTaken
  <1>2. CASE ScriptThread
    BY <1>2, ScriptStep
  <1>3. CASE Terminate \/ SwitchRecord \/ Shutdown
    BY <1>3, Untouched DEF Terminate, SwitchRecord, Shutdown, commands
  <1>4. CASE Receive \/ Store
    BY <1>4, Untouched DEF Receive, Store, Callback, commands
  <1>5. CASE Recorder
    BY <1>5, Untouched DEF Recorder, Look, Open, Write, Close, Clear, Record, commands
  <1>6. CASE MainThread
    BY <1>6, Untouched DEF MainThread, CloseReader, Stop, Main, commands
  <1>7. CASE UNCHANGED vars
    BY <1>7, Untouched DEF vars, commands
  <1> QED BY <1>1, <1>2, <1>3, <1>4, <1>5, <1>6, <1>7 DEF Next

(* Each command is answered at most once: that the host is busy, or with   *)
(* the result of its own script (exclusiveDoCommand, Host.cpp:255-306).    *)
THEOREM AnsweredOnce == Spec => []AnswersAreOwn
  <1>1. IInv => AnswersAreOwn
    BY DEF IInv
  <1> QED BY <1>1, Initially, Stepwise, PTL DEF Spec

(* The mutex, locked by one thread and unlocked by another, is locked      *)
(* exactly while a script has its thread, and script and client id are     *)
(* those of one command that is not answered before the script's end.      *)
THEOREM Exclusive == Spec => []Owned
  <1>1. IInv => Owned
    BY DEF IInv
  <1> QED BY <1>1, Initially, Stepwise, PTL DEF Spec

-----------------------------------------------------------------------------
(* The file of a recording. *)

Recorders == {"top", "record", "close", "clear", "ended"}

Stores ==
  /\ fifo \in Seq(BOOLEAN) /\ Len(fifo) <= Capacity
  /\ held \in Seq(BOOLEAN) /\ Len(held) <= 1
  /\ file \in {"empty", "whole", "gap"} /\ recorder \in Recorders
  /\ Len(held) = 1 => joins

Fresh == Len(fifo) = 0 /\ file = "empty"

(* The recorder clears the fifo when it has closed the file.               *)
Closed == recorder = "clear" => file = "empty"

(* Only the first chunk of a recording does not join on; one that is about *)
(* to be stored, or would be next, finds nothing stored.                   *)
Unbroken ==
  /\ file # "gap"
  /\ \A i \in 2..Len(fifo) : fifo[i]
  /\ Len(fifo) > 0 => fifo[1] \/ file = "empty"
  /\ Len(held) = 1 => held[1] \/ Fresh
  /\ Len(held) = 0 /\ enabled => joins \/ Fresh
  /\ ~enabled /\ noticed => Fresh

Recorded == Stores /\ Closed /\ (torn \/ Unbroken)

LEMMA InitRecorded == Init => Recorded
  BY SizeAssumption DEF Init, Recorded, Stores, Closed, Unbroken, Fresh, Recorders

LEMMA RecordedUntouched ==
  ASSUME Recorded, UNCHANGED <<enabled, notes, recorder, file, samples>>
  PROVE  Recorded'
  BY DEF Recorded, Stores, Closed, Unbroken, Fresh, notes, samples

(* Recording is switched on or off, by a message or by a script.           *)
LEMMA RecordedSwitch ==
  ASSUME Recorded, NEW on \in BOOLEAN, Switch(on), UNCHANGED <<recorder, file, samples>>
  PROVE  Recorded'
  <1>1. Stores' /\ Closed' /\ (Fresh' <=> Fresh)
    BY DEF Recorded, Stores, Closed, Fresh, samples
  <1>2. CASE torn'
    BY <1>1, <1>2 DEF Recorded
  <1>3. CASE ~torn'
    <2>1. ~torn /\ (on /\ ~enabled => noticed) /\ (enabled' <=> on)
          /\ (~on /\ noticed' => ~enabled /\ noticed)
      BY <1>3 DEF Switch
    <2>2. Unbroken
      BY <2>1 DEF Recorded
    <2>3. Len(held) = 0 /\ on => joins \/ Fresh
      BY <2>1, <2>2 DEF Unbroken
    <2>4. ~on /\ noticed' => Fresh
      BY <2>1, <2>2 DEF Unbroken
    <2>5. UNCHANGED <<fifo, held, joins, file>>
      BY DEF samples
    <2>6. Unbroken'
      BY <1>1, <2>1, <2>2, <2>3, <2>4, <2>5 DEF Unbroken
    <2> QED BY <1>1, <2>6 DEF Recorded
  <1> QED BY <1>2, <1>3

LEMMA RecordedReceive ==
  ASSUME Recorded, enabled \in BOOLEAN, joins \in BOOLEAN, Receive
  PROVE  Recorded'
  <1>1. /\ UNCHANGED <<fifo, torn, file, recorder, enabled, noticed>>
        /\ Len(held) = 0 /\ joins' = enabled
        /\ held' = IF enabled THEN <<joins>> ELSE <<>>
    BY DEF Receive, Callback, recording
  <1>2. CASE enabled
    <2>1. held' = <<joins>> /\ joins'
      BY <1>1, <1>2
    <2>2. held' \in Seq(BOOLEAN) /\ Len(held') = 1 /\ held'[1] = joins
      BY <2>1
    <2>3. Stores' /\ Closed' /\ (Fresh' <=> Fresh)
      BY <1>1, <2>1, <2>2 DEF Recorded, Stores, Closed, Fresh
    <2>4. Unbroken => Unbroken'
      BY <1>1, <1>2, <2>2, <2>3 DEF Unbroken
    <2> QED BY <1>1, <2>3, <2>4 DEF Recorded
  <1>3. CASE ~enabled
    <2>1. held' = <<>> /\ Len(held') = 0 /\ held' \in Seq(BOOLEAN)
      BY <1>1, <1>3
    <2>2. Stores' /\ Closed' /\ (Fresh' <=> Fresh)
      BY <1>1, <2>1 DEF Recorded, Stores, Closed, Fresh
    <2>3. Unbroken => Unbroken'
      BY <1>1, <1>3, <2>1, <2>2 DEF Unbroken
    <2> QED BY <1>1, <2>2, <2>3 DEF Recorded
  <1> QED BY <1>2, <1>3

LEMMA Joined ==
  ASSUME NEW S, NEW q \in Seq(S), NEW r \in Seq(S)
  PROVE  /\ q \o r \in Seq(S) /\ Len(q \o r) = Len(q) + Len(r)
         /\ \A i \in 1..Len(q) : (q \o r)[i] = q[i]
         /\ \A i \in 1..Len(r) : (q \o r)[Len(q) + i] = r[i]
  OBVIOUS

LEMMA OneJoined ==
  ASSUME NEW S, NEW q \in Seq(S), NEW r \in Seq(S), r # <<>>, Len(r) <= 1
  PROVE  /\ Len(r) = 1 /\ Len(q) \in Nat
         /\ q \o r \in Seq(S) /\ Len(q \o r) = Len(q) + 1
         /\ \A i \in 1..Len(q) : (q \o r)[i] = q[i]
         /\ (q \o r)[Len(q) + 1] = r[1]
  <1>1. Len(r) = 1 /\ Len(q) \in Nat
    OBVIOUS
  <1>2. /\ q \o r \in Seq(S) /\ Len(q \o r) = Len(q) + Len(r)
        /\ \A i \in 1..Len(q) : (q \o r)[i] = q[i]
        /\ \A i \in 1..Len(r) : (q \o r)[Len(q) + i] = r[i]
    BY Joined
  <1>3. 1 \in 1..Len(r)
    BY <1>1
  <1> QED BY <1>1, <1>2, <1>3

LEMMA RecordedStore ==
  ASSUME Recorded, enabled \in BOOLEAN, Store
  PROVE  Recorded'
  <1>1. /\ held # <<>> /\ held' = <<>> /\ UNCHANGED <<joins, file, recorder, enabled, noticed>>
        /\ torn' = (torn \/ ~enabled)
        /\ IF Len(fifo) < Capacity THEN fifo' = fifo \o held ELSE fifo' = fifo
    BY DEF Store, Callback, recording
  <1>2. /\ fifo \in Seq(BOOLEAN) /\ held \in Seq(BOOLEAN) /\ Len(held) = 1 /\ joins
        /\ Len(fifo) \in Nat
    <2>1. /\ fifo \in Seq(BOOLEAN) /\ held \in Seq(BOOLEAN) /\ Len(held) <= 1
          /\ Len(held) = 1 => joins
      BY DEF Recorded, Stores
    <2>2. Len(held) = 1 /\ Len(fifo) \in Nat
      BY <1>1, <2>1, OneJoined, Zenon
    <2> QED BY <2>1, <2>2
  <1>3. held' \in Seq(BOOLEAN) /\ Len(held') = 0
    BY <1>1
  <1>4. Closed'
    BY <1>1 DEF Recorded, Closed
  <1>5. CASE Len(fifo) < Capacity
    <2>1. /\ fifo' \in Seq(BOOLEAN) /\ Len(fifo') = Len(fifo) + 1
          /\ \A i \in 1..Len(fifo) : fifo'[i] = fifo[i]
          /\ fifo'[Len(fifo) + 1] = held[1]
      <3>1. fifo' = fifo \o held
        BY <1>1, <1>5
      <3>2. held # <<>> /\ Len(held) <= 1
        BY <1>1, <1>2
      <3> DEFINE B == BOOLEAN
      <3>3. fifo \in Seq(B) /\ held \in Seq(B)
        BY <1>2
      <3> HIDE DEF B
      <3>4. /\ fifo \o held \in Seq(B) /\ Len(fifo \o held) = Len(fifo) + 1
            /\ \A i \in 1..Len(fifo) : (fifo \o held)[i] = fifo[i]
            /\ (fifo \o held)[Len(fifo) + 1] = held[1]
        BY <3>2, <3>3, OneJoined
      <3> QED BY <3>1, <3>4, Zenon DEF B
    <2>2. Stores'
      BY <1>1, <1>2, <1>3, <1>5, <2>1, SizeAssumption DEF Recorded, Stores
    <2>3. ASSUME ~torn' PROVE Unbroken'
      <3>1. Unbroken /\ enabled
        BY <1>1, <2>3 DEF Recorded
      <3>2. CASE Len(fifo) = 0
        <4>1. Len(fifo') = 1 /\ fifo'[1] = held[1] /\ (held[1] \/ file = "empty")
          BY <1>2, <2>1, <3>1, <3>2 DEF Unbroken, Fresh
        <4>2. 2..Len(fifo') = {}
          BY <4>1
        <4> QED BY <1>1, <1>2, <1>3, <3>1, <4>1, <4>2 DEF Unbroken
      <3>3. CASE Len(fifo) # 0
        <4>1. held[1] /\ fifo'[1] = fifo[1] /\ (fifo[1] \/ file = "empty")
          BY <1>2, <2>1, <3>1, <3>3 DEF Unbroken, Fresh
        <4>2. ASSUME NEW i \in 2..Len(fifo') PROVE fifo'[i]
          <5>1. CASE i = Len(fifo) + 1
            BY <2>1, <4>1, <5>1
          <5>2. CASE i # Len(fifo) + 1
            <6>1. i \in 2..Len(fifo) /\ fifo'[i] = fifo[i]
              BY <1>2, <2>1, <5>2
            <6> QED BY <3>1, <6>1 DEF Unbroken
          <5> QED BY <5>1, <5>2
        <4> QED BY <1>1, <1>2, <1>3, <3>1, <4>1, <4>2 DEF Unbroken
      <3> QED BY <3>2, <3>3
    <2> QED BY <1>4, <2>2, <2>3 DEF Recorded
  <1>6. CASE ~(Len(fifo) < Capacity)
    <2>1. fifo' = fifo
      BY <1>1, <1>6
    <2>2. Stores'
      BY <1>1, <1>2, <1>3, <2>1 DEF Recorded, Stores
    <2>3. ASSUME ~torn' PROVE Unbroken'
      <3>1. Unbroken /\ enabled
        BY <1>1, <2>3 DEF Recorded
      <3> QED BY <1>1, <1>2, <1>3, <2>1, <3>1 DEF Unbroken
    <2> QED BY <1>4, <2>2, <2>3 DEF Recorded
  <1> QED BY <1>5, <1>6

LEMMA RecordedWrite ==
  ASSUME Recorded, enabled \in BOOLEAN, Write
  PROVE  Recorded'
  <1>1. /\ recorder = "record" /\ recorder' = "top"
        /\ UNCHANGED <<enabled, joins, held, notes>>
    BY DEF Write, Record
  <1>2. CASE UNCHANGED <<fifo, file>>
    <2>1. Stores' /\ Closed' /\ (Unbroken => Unbroken') /\ torn' = torn
      BY <1>1, <1>2 DEF Recorded, Stores, Closed, Unbroken, Fresh, Recorders, notes
    <2> QED BY <2>1 DEF Recorded
  <1>3. ASSUME NEW k \in 1..Len(fifo),
               fifo' = SubSeq(fifo, k + 1, Len(fifo)),
               file' = IF \A i \in 1..k : fifo[i] \/ (i = 1 /\ file = "empty")
                       THEN (IF file = "gap" THEN "gap" ELSE "whole") ELSE "gap"
        PROVE  Recorded'
    <2>1. fifo \in Seq(BOOLEAN) /\ Len(fifo) \in Nat /\ k \in Nat
      BY DEF Recorded, Stores
    <2>2. /\ fifo' \in Seq(BOOLEAN) /\ Len(fifo') = Len(fifo) - k
          /\ \A i \in 1..(Len(fifo) - k) : fifo'[i] = fifo[k + i]
      BY <1>3, <2>1
    <2>3. Stores'
      <3>1. Len(fifo') <= Capacity
        BY <2>1, <2>2, SizeAssumption DEF Recorded, Stores
      <3>2. file' \in {"empty", "whole", "gap"}
        BY <1>3
      <3> QED BY <1>1, <2>2, <3>1, <3>2 DEF Recorded, Stores, Recorders
    <2>4. Closed'
      BY <1>1 DEF Closed
    <2>5. ASSUME ~torn' PROVE Unbroken'
      <3>1. Unbroken /\ Len(fifo) # 0 /\ ~Fresh
        BY <1>1, <2>1, <2>5 DEF Recorded, notes, Fresh
      <3>2. \A i \in 1..k : fifo[i] \/ (i = 1 /\ file = "empty")
        <4>1. ASSUME NEW i \in 1..k, i # 1 PROVE fifo[i]
          <5>1. i \in 2..Len(fifo)
            BY <2>1, <4>1
          <5> QED BY <3>1, <5>1 DEF Unbroken
        <4>2. fifo[1] \/ file = "empty"
          BY <2>1, <3>1 DEF Unbroken
        <4> QED BY <4>1, <4>2
      <3>3. file' = "whole"
        BY <1>3, <3>1, <3>2 DEF Unbroken
      <3>4. \A i \in 1..Len(fifo') : fifo'[i]
        <4>1. ASSUME NEW i \in 1..(Len(fifo) - k) PROVE fifo'[i]
          <5>1. k + i \in 2..Len(fifo) /\ fifo'[i] = fifo[k + i]
            BY <2>1, <2>2
          <5> QED BY <3>1, <5>1 DEF Unbroken
        <4> QED BY <2>2, <4>1
      <3>5. /\ Len(held) = 1 => held[1]
            /\ Len(held) = 0 /\ enabled => joins
            /\ ~(~enabled /\ noticed)
        BY <3>1 DEF Unbroken
      <3>6. /\ \A i \in 2..Len(fifo') : fifo'[i]
            /\ Len(fifo') > 0 => fifo'[1]
        BY <2>1, <2>2, <3>4
      <3> QED BY <1>1, <3>3, <3>5, <3>6 DEF Unbroken, notes
    <2> QED BY <2>3, <2>4, <2>5 DEF Recorded
  <1> QED BY <1>2, <1>3 DEF Write

LEMMA RecordedRecorder ==
  ASSUME Recorded, enabled \in BOOLEAN, Recorder
  PROVE  Recorded'
  <1>1. CASE Look
    <2>1. /\ UNCHANGED <<file, fifo, notes, enabled, joins, held>>
          /\ recorder' \in Recorders \ {"clear"}
      BY <1>1 DEF Look, Record, Recorders
    <2>2. Stores' /\ Closed' /\ (Unbroken => Unbroken') /\ torn' = torn
      BY <2>1 DEF Recorded, Stores, Closed, Unbroken, Fresh, notes
    <2> QED BY <2>2 DEF Recorded
  <1>2. CASE Open \/ Close
    <2>1. /\ file' = "empty" /\ recorder' \in Recorders
          /\ UNCHANGED <<fifo, notes, enabled, joins, held>>
      BY <1>2 DEF Open, Close, Record, Recorders
    <2>2. Stores' /\ Closed' /\ (Unbroken => Unbroken') /\ torn' = torn
      BY <2>1 DEF Recorded, Stores, Closed, Unbroken, Fresh, notes
    <2> QED BY <2>2 DEF Recorded
  <1>3. CASE Write
    BY <1>3, RecordedWrite
  <1>4. CASE Clear
    <2>1. /\ recorder = "clear" /\ recorder' = "top" /\ fifo' = <<>> /\ file' = file
          /\ UNCHANGED <<enabled, joins, held>>
      BY <1>4 DEF Clear, Record
    <2>2. file = "empty" /\ Len(fifo') = 0 /\ fifo' \in Seq(BOOLEAN)
      BY <2>1 DEF Recorded, Closed
    <2>3. Fresh' /\ Closed'
      BY <2>1, <2>2 DEF Fresh, Closed
    <2>4. Stores'
      BY <2>1, <2>2, SizeAssumption DEF Recorded, Stores, Recorders
    <2>5. 2..Len(fifo') = {} /\ ~(Len(fifo') > 0)
      BY <2>2
    <2>6. Unbroken'
      BY <2>1, <2>2, <2>3, <2>5 DEF Unbroken
    <2> QED BY <2>3, <2>4, <2>6 DEF Recorded
  <1> QED BY <1>1, <1>2, <1>3, <1>4 DEF Recorder

(* Flags are flags.                                                        *)
Flags ==
  /\ running \in BOOLEAN /\ enabled \in BOOLEAN /\ named \in BOOLEAN
  /\ locked \in BOOLEAN /\ request \in BOOLEAN /\ joins \in BOOLEAN

LEMMA FlagsKept == Flags /\ [Next]_vars => Flags'
  <1> SUFFICES ASSUME Flags, [Next]_vars PROVE Flags'
    OBVIOUS
  <1>1. CASE Do \/ Terminate \/ Shutdown
    BY <1>1 DEF Do, Terminate, Shutdown, Message, Switched, recording, samples, commands, Flags
  <1>2. CASE SwitchRecord
    BY <1>2 DEF SwitchRecord, Switch, Message, recording, samples, commands, Flags
  <1>3. CASE Begin \/ Load \/ Ret \/ Unlock
    BY <1>3 DEF Begin, Load, Ret, Unlock, Script, Switched, recording, samples, Flags
  <1>4. CASE Run
    BY <1>4 DEF Run, Script, Switch, Switched, recording, samples, Flags
  <1>5. CASE Receive \/ Store
    BY <1>5 DEF Receive, Store, Callback, commands, recording, Flags
  <1>6. CASE Recorder
    BY <1>6 DEF Recorder, Look, Open, Write, Close, Clear, Record, commands, Flags
  <1>7. CASE MainThread \/ UNCHANGED vars
    BY <1>7 DEF MainThread, CloseReader, Stop, Main, vars, commands, recording, samples, Flags
  <1> QED BY <1>1, <1>2, <1>3, <1>4, <1>5, <1>6, <1>7 DEF Next, ScriptThread

LEMMA RecordedKept == Flags /\ Recorded /\ [Next]_vars => Recorded'
  <1> SUFFICES ASSUME Flags, Recorded, [Next]_vars PROVE Recorded'
    OBVIOUS
  <1>1. CASE \/ Do \/ Terminate \/ Shutdown \/ Begin \/ Load \/ Ret \/ Unlock
             \/ MainThread \/ UNCHANGED vars
    <2>1. UNCHANGED <<enabled, notes, recorder, file, samples>>
      BY <1>1 DEF Do, Terminate, Shutdown, Message, Begin, Load, Ret, Unlock, Script, Switched,
                  MainThread, CloseReader, Stop, Main, vars, recording
    <2> QED BY <2>1, RecordedUntouched
  <1>2. CASE SwitchRecord
    BY <1>2, RecordedSwitch DEF SwitchRecord, Message, recording
  <1>3. CASE Run
    <2>1. UNCHANGED <<recorder, file, samples>>
      BY <1>3 DEF Run, Script, recording
    <2>2. Switched \/ Switch(TRUE) \/ Switch(FALSE)
      BY <1>3 DEF Run
    <2>3. CASE Switched
      BY <2>1, <2>3, RecordedUntouched DEF Switched
    <2>4. CASE Switch(TRUE) \/ Switch(FALSE)
      BY <2>1, <2>4, RecordedSwitch
    <2> QED BY <2>2, <2>3, <2>4
  <1>4. CASE Receive
    BY <1>4, RecordedReceive DEF Flags
  <1>5. CASE Store
    BY <1>5, RecordedStore DEF Flags
  <1>6. CASE Recorder
    BY <1>6, RecordedRecorder DEF Flags
  <1> QED BY <1>1, <1>2, <1>3, <1>4, <1>5, <1>6 DEF Next, ScriptThread

LEMMA RecordedAlways == Spec => [](Flags /\ Recorded)
  <1>1. Init => Flags /\ Recorded
    BY InitRecorded DEF Init, Flags
  <1>2. (Flags /\ Recorded) /\ [Next]_vars => (Flags /\ Recorded)'
    BY FlagsKept, RecordedKept
  <1> QED BY <1>1, <1>2, PTL DEF Spec

(* A file has no gap unless the recording was torn (Host.cpp:109-190), for *)
(* every size of the fifo and every interleaving of the callback, the      *)
(* recorder and whoever switches recording.                                *)
THEOREM Contiguous == Spec => []FileIsContiguous
  <1>1. Recorded => FileIsContiguous
    BY DEF Recorded, Unbroken, FileIsContiguous
  <1> QED BY <1>1, RecordedAlways, PTL

(* The fifo between the callback and the recorder holds what it can, and   *)
(* the callback one chunk at a time (Host.cpp:109-190).                    *)
THEOREM TypeCorrect == Spec => []TypeOK
  <1>1. IInv /\ Flags /\ Recorded => TypeOK
    BY DEF IInv, Flags, Recorded, Stores, Recorders, TypeOK
  <1> QED BY <1>1, Initially, Stepwise, RecordedAlways, PTL DEF Spec
=============================================================================

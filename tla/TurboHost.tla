----------------------------- MODULE TurboHost ------------------------------
(***************************************************************************)
(* The host process (Tester/TurboHost/Host.cpp and host_luaext.h): the     *)
(* thread of the MQTT library takes commands, one script at a time runs in *)
(* a thread of its own, a recorder thread writes what the receiving thread *)
(* of the reader hands to rx_data_callback into a file, and the main       *)
(* thread shuts down.                                                      *)
(*                                                                         *)
(* A command is its number; its script makes one of the calls that other   *)
(* threads matter to.  Of a chunk of samples the model keeps whether it    *)
(* joins on to the one stored before it.                                   *)
(*                                                                         *)
(* A definition that stands just before another and differs from it in one *)
(* place is that other one with a bug, for the mutation runs.              *)
(***************************************************************************)
EXTENDS Integers, Sequences

CONSTANTS
  Scripts,   \* what the scripts do, some of Kinds
  Commands,  \* bound: commands that come
  Capacity   \* chunks in data_recorder_fifo

Kinds == {"plain", "on", "off", "loop", "shutdown"}

ASSUME ScriptsAssumption == Scripts \subseteq Kinds
ASSUME SizeAssumption == Commands \in Nat /\ Capacity \in Nat

VARIABLES
  running,  \* running: cleared to shut down
  main,     \* where the main thread is
  asked,    \* commands that have come
  answers,  \* history: what was published under ret/<cid> of each command:
            \* Busy, or the number of the script that ran
  locked,   \* luaMutex
  luascript, luacid,  \* those of the command with this number
  request,  \* request_terminate_lua
  script,   \* where the script's thread is, and whose script it runs
  enabled,  \* data_recorder_enabled
  named,    \* whether record_filename is not empty
  recorder, \* where the recorder thread is
  fifo,     \* data_recorder_fifo
  joins,    \* history: no chunk has passed since the last that was stored
  held,     \* what the callback is about to store, at most one chunk
  file,     \* history: "empty", "whole", or with a "gap" between two chunks
  noticed,  \* history: the recorder has cleared the fifo since recording was
            \* disabled
  torn,     \* history: ... but something was stored after all, or recording
            \* was enabled again before
  fault     \* the assertion that has failed

Busy == 0  \* ret "7"

commands == <<asked, answers, locked, luascript, luacid, script, request>>
recording == <<named, recorder, file>>
samples == <<fifo, joins, held>>
notes == <<noticed, torn>>
vars == <<running, main, commands, enabled, recording, samples, notes, fault>>

Init ==
  /\ running = TRUE /\ main = "wait"
  /\ asked = 0 /\ answers = [n \in 1..Commands |-> <<>>]
  /\ locked = FALSE /\ luascript = 0 /\ luacid = 0
  /\ request = FALSE /\ script = [pc |-> "none", of |-> 0]
  /\ enabled = FALSE /\ named = FALSE /\ recorder = "top"
  /\ fifo = <<>> /\ joins = FALSE /\ held = <<>>
  /\ file = "empty"
  /\ noticed = TRUE /\ torn = FALSE
  /\ fault = "none"

Alive == main # "stopped" /\ fault = "none"

Switch(on) ==
  /\ enabled' = on
  /\ noticed' = (noticed /\ (on \/ ~enabled))
  /\ torn' = (torn \/ (on /\ ~enabled /\ ~noticed))

Switched == UNCHANGED <<enabled, notes>>

-----------------------------------------------------------------------------
(* The MQTT thread: hostOnMessage. *)

Message == Alive /\ UNCHANGED <<main, recording, samples, fault>>

Publish(n, what) == answers' = [answers EXCEPT ![n] = Append(@, what)]

(* exclusiveDoCommand.  With the lock free the last script's thread is     *)
(* over, or about to be, and joining it takes no time.                     *)
DoGlobalsFirst ==
  /\ Message
  /\ asked < Commands /\ asked' = asked + 1
  /\ luascript' = asked' /\ luacid' = asked'
  /\ IF locked
     THEN Publish(asked', Busy) /\ UNCHANGED <<locked, script>>
     ELSE /\ locked' = TRUE
          /\ script' = [pc |-> "begin", of |-> 0]
          /\ UNCHANGED answers
  /\ UNCHANGED <<running, request>> /\ Switched

Do ==
  /\ Message
  /\ asked < Commands /\ asked' = asked + 1
  /\ IF locked
     THEN Publish(asked', Busy) /\ UNCHANGED <<locked, luascript, luacid, script>>
     ELSE /\ locked' = TRUE
          /\ luascript' = asked' /\ luacid' = asked'
          /\ script' = [pc |-> "begin", of |-> 0]
          /\ UNCHANGED answers
  /\ UNCHANGED <<running, request>> /\ Switched

Terminate ==
  /\ Message
  /\ request' = TRUE
  /\ UNCHANGED <<running, asked, answers, locked, luascript, luacid, script>> /\ Switched

SwitchRecord ==
  /\ Message
  /\ \E on \in BOOLEAN : Switch(on)
  /\ UNCHANGED <<running, commands>>

Shutdown ==
  /\ Message
  /\ running' = FALSE
  /\ UNCHANGED commands /\ Switched

-----------------------------------------------------------------------------
(* The script's thread. *)

Script(from, to) ==
  /\ Alive
  /\ script.pc = from /\ script' = [script EXCEPT !.pc = to]
  /\ UNCHANGED <<main, asked, luascript, luacid, recording, samples, fault>>

(* "nobody request termination until someone do it" *)
Begin ==
  /\ Script("begin", "load")
  /\ request' = FALSE
  /\ UNCHANGED <<running, answers, locked>> /\ Switched

Load ==
  /\ Alive
  /\ script.pc = "load"
  /\ \E does \in Scripts : script' = [pc |-> does, of |-> luascript]
  /\ UNCHANGED <<running, main, asked, answers, locked, luascript, luacid, request,
                 recording, samples, fault>>
  /\ Switched

(* set_record, shutdown, may_terminate. *)
Run ==
  /\ \/ Script("plain", "ret") /\ UNCHANGED running /\ Switched
     \/ Script("on", "opening") /\ Switch(TRUE) /\ UNCHANGED running
     \/ Script("opening", "ret") /\ named /\ UNCHANGED running /\ Switched
     \/ Script("off", "closing") /\ Switch(FALSE) /\ UNCHANGED running
     \/ Script("closing", "ret") /\ ~named /\ UNCHANGED running /\ Switched
     \/ Script("shutdown", "ret") /\ running' = FALSE /\ Switched
     \/ Script("loop", "ret") /\ request /\ UNCHANGED running /\ Switched
  /\ UNCHANGED <<answers, locked, request>>

Ret ==
  /\ Script("ret", "unlock")
  /\ Publish(luacid, script.of)
  /\ UNCHANGED <<running, locked, request>> /\ Switched

Unlock ==
  /\ Alive
  /\ script.pc = "unlock" /\ script' = [pc |-> "none", of |-> 0]
  /\ locked' = FALSE
  /\ UNCHANGED <<running, main, asked, answers, luascript, luacid, request,
                 recording, samples, fault>>
  /\ Switched

ScriptThread == Begin \/ Load \/ Run \/ Ret \/ Unlock

-----------------------------------------------------------------------------
(* The callback, within the receiving thread.                              *)

Callback == Alive /\ UNCHANGED <<running, main, commands, enabled, recording, noticed>>

Receive ==
  /\ Callback
  /\ main = "wait"
  /\ held = <<>>
  /\ joins' = enabled
  /\ held' = IF enabled THEN <<joins>> ELSE <<>>
  /\ UNCHANGED <<fifo, torn, fault>>

StoreUnchecked ==
  /\ Callback
  /\ held # <<>> /\ held' = <<>>
  /\ fifo' = fifo \o held
  /\ torn' = (torn \/ ~enabled)
  /\ UNCHANGED <<joins, fault>>

Store ==
  /\ Callback
  /\ held # <<>> /\ held' = <<>>
  /\ IF Len(fifo) < Capacity
     THEN fifo' = fifo \o held /\ UNCHANGED fault
     ELSE fault' = "recorder fifo overflowed" /\ UNCHANGED fifo
  /\ torn' = (torn \/ ~enabled)
  /\ UNCHANGED joins

-----------------------------------------------------------------------------
(* The recorder thread. *)

Record(from, to) ==
  /\ Alive
  /\ recorder = from /\ recorder' = to
  /\ UNCHANGED <<running, main, commands, enabled, joins, held, fault>>

Look ==
  /\ Record("top", IF ~running THEN "ended" ELSE IF enabled THEN "record" ELSE "close")
  /\ UNCHANGED <<named, fifo, file, notes>>

Open ==
  /\ Record("record", "record")
  /\ ~named /\ named' = TRUE
  /\ file' = "empty"
  /\ UNCHANGED <<fifo, notes>>

(* What lies in one piece in the buffer is written: a part of the fifo. *)
Write ==
  /\ Record("record", "top")
  /\ named
  /\ \/ fifo = <<>> /\ UNCHANGED <<fifo, file>>
     \/ \E k \in 1..Len(fifo) :
          /\ fifo' = SubSeq(fifo, k + 1, Len(fifo))
          /\ file' = IF \A i \in 1..k : fifo[i] \/ (i = 1 /\ file = "empty")
                     THEN (IF file = "gap" THEN "gap" ELSE "whole") ELSE "gap"
  /\ UNCHANGED <<named, notes>>

CloseNamed ==
  /\ Record("close", "clear")
  /\ UNCHANGED <<named, fifo, file, notes>>

Close ==
  /\ Record("close", "clear")
  /\ named' = FALSE /\ file' = "empty"
  /\ UNCHANGED <<fifo, notes>>

ClearNothing ==
  /\ Record("clear", "top")
  /\ noticed' = TRUE /\ torn' = FALSE
  /\ UNCHANGED <<fifo, named, file>>

Clear ==
  /\ Record("clear", "top")
  /\ fifo' = <<>>
  /\ noticed' = TRUE /\ torn' = FALSE
  /\ UNCHANGED <<named, file>>

Recorder == Look \/ Open \/ Write \/ Close \/ Clear

-----------------------------------------------------------------------------
(* The main thread: it polls "running", joins the script's thread, closes  *)
(* the reader with its receiving thread, joins the recorder, stops MQTT.   *)
(* Joining the script is one step with what follows: a command that joins  *)
(* the same thread at the same time is undefined, and left out.            *)

Main(from, to) ==
  /\ Alive
  /\ main = from /\ main' = to
  /\ UNCHANGED <<running, commands, enabled, recording, samples, notes, fault>>

CloseReader == Main("wait", "closed") /\ ~running /\ script.pc = "none" /\ held = <<>>

Stop == Main("closed", "stopped") /\ recorder = "ended"

MainThread == CloseReader \/ Stop

Next ==
  \/ Do \/ Terminate \/ SwitchRecord \/ Shutdown
  \/ ScriptThread \/ Receive \/ Store \/ Recorder \/ MainThread

Spec == Init /\ [][Next]_vars

(* The threads run on; nobody need send a message.                         *)
Fairness ==
  WF_vars(ScriptThread) /\ WF_vars(Store) /\ WF_vars(Recorder) /\ WF_vars(MainThread)

FairSpec == Spec /\ Fairness

-----------------------------------------------------------------------------
(* The fifo of the recorder holds no more than it can.                     *)
TypeOK ==
  /\ running \in BOOLEAN /\ enabled \in BOOLEAN /\ named \in BOOLEAN
  /\ asked \in 0..Commands /\ locked \in BOOLEAN /\ request \in BOOLEAN
  /\ Len(fifo) <= Capacity /\ Len(held) <= 1 /\ joins \in BOOLEAN
  /\ recorder \in {"top", "record", "close", "clear", "ended"}

(* Each command is answered at most once, and under its own client id: it  *)
(* is told that the host is busy, or the result of its own script, while   *)
(* other commands come that find the host busy.                            *)
AnswersAreOwn ==
  \A n \in 1..Commands : answers[n] \in {<<>>, <<Busy>>, <<n>>}

(* A recording misses no samples between its first and its last, and has   *)
(* none of an earlier one: unless it was enabled again before the recorder *)
(* noticed that it had been disabled, or the callback read the flag before *)
(* and stored its samples after the recorder had cleared the fifo.         *)
FileIsContiguous == file = "gap" => torn

(* A script hangs in set_record if somebody else switches recording back,  *)
(* or shuts down, and in a loop until it is terminated.                    *)
MayHang ==
  \/ script.pc = "opening" /\ ~(enabled /\ running)
  \/ script.pc = "closing" /\ ~(~enabled /\ running)
  \/ script.pc = "loop" /\ ~request

Unanswered == \E n \in 1..asked : answers[n] = <<>>

(* But for these, every command is answered and a shutdown comes to an end.*)
CommandsEnd ==
  /\ Unanswered ~> ~Unanswered \/ MayHang \/ ~Alive
  /\ ~running ~> MayHang \/ ~Alive
=============================================================================

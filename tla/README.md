# Verification of RetroTurboAE

RetroTurbo is a visible-light backscatter system: a tag modulates light with
liquid crystals, a reader demodulates it, and programs on a PC drive both over
USB. This directory holds TLA+ models of its own logic, configurations that
check them with TLC, and proofs checked with TLAPS. Paths are relative to the
repository; line numbers refer to the commit the models were written from.

## 1. The system

| Component | Source | State | Operations |
|---|---|---|---|
| Byte ring | `RetroLib/fifo.h` | `read`, `write`, the buffer | enque, deque, clear, the two block copies, device transfers in place |
| SoftIO | `RetroLib/softio.h` | ring of pending heads (`transactions`, `read`, `write`), `siotx`, `siorx`, the shared memory | delayed read, write, read_fifo, write_fifo, clear/reset_fifo; flush, try_handle_all, wait_one, wait_all |
| USB transport | `SoftReader/reader-H7xx.h` 240-290, `SoftTag/tag-L4xx.h` 150-240 | packet under way, `siorx_overflow` | receive and transmit interrupts |
| Tag firmware | `SoftTag/tag-L4xx.h` | `tx_count`, `tx_underflow`, `repeat_*`, `tx_data` | LPTIM2 interrupt, hooks around memory writes |
| Tag driver (PC) | `SoftTag/tag-L4xx-ex.h` | `tx_running`, `tx_thread`, `tx_samples`, a copy of the tag's memory | send (start, feeding thread, wait, stop), repeat |
| Reader firmware | `SoftReader/reader-H7xx.h` | `tx.count`, `adc_data`, `adc_data_push_packets_count`, filter state | TIM2 transmitter, ADC stream, main loop that pushes `adc_data` |
| Reader driver (PC) | `SoftReader/reader-H7xx-ex.h` | `rx_running`, `rx_thread`, `rx_data`, `preamble_running`, `snr_preamble` | asynchronous send, receiving thread, gain control, preamble start, wait, stop |
| Preamble detection | `RetroLib/preamble.cpp` | queue of blocks, the shared SNR | listening thread, regression thread |
| TurboHost | `Tester/TurboHost/Host.cpp`, `host_luaext.h` | `luaMutex`, `luathread`, `request_terminate_lua`, `running`, the recorder's flag, file name and fifo | do/terminate/record/shutdown messages, Lua functions, recorder thread |
| Clients of TurboHost | `Tester/HandleData/ProxyRunLuaCode.cpp`, `WebGUI/lua/*.py`, `Tester/TurboHost/TurboCli.py` | the command waited for, its return code | publish `do`, take `log`, `err`, `ret` |
| Codecs | `RetroLib/modulator.h`, `m_sequence.h`, `tag-L4xx-ex.h` 101-151 | none | PQAM bit packing, m-sequences, run-length samples |
| Signal processing, database, web pages, vendored libraries | `demodulator.h`, `emulator*.h`, `mongodat.h`, `WebGUI`, `Eigen`, `lua`, ... | | not modelled, see section 12 |

**How they interact.** The PC's copy and a board's copy of one memory structure
are kept related by SoftIO requests, which travel through two byte rings on each
board (`siorx`, `siotx`) and the USB. Sample streams are further byte rings
inside that memory: `tx_data` is filled by the PC and drained by a timer
interrupt; `adc_data` is filled by an interrupt and pushed to the PC by the main
loop. On the PC, threads share one SoftIO connection under a lock and look at
the memory copy without it. TurboHost runs one Lua script at a time in a thread
of its own, which calls both drivers, while MQTT callbacks, the receiving thread
and the recorder thread go on.

**What is hard.** The rings have no lock. SoftIO matches answers to requests by
position alone, with requests of the other end in between. A sender reckons with
counters it read some time ago. Interrupts and byte-wise stores meet in the same
variables. Threads are started, told to stop and joined through plain
flags. An assertion that fails stops the whole program. `PROJECT.json` lists
each such place under `hazards`, with the property that covers it or the reason
why none does.

**What makes each part correct.** The ring is a bounded queue that loses, repeats
and reorders nothing. SoftIO is a pair of ordered remote call queues: every
request is carried out once, its answer returns to the call that awaits it, and
waiting ends. A tag shows the samples of a send once each, in order and without
a gap, and the call returns after the last; a message is repeated as often as
asked. The reader's stream reaches the receiving thread whole, or the overflow is
reported. One script runs at a time, every command is answered once and with its own
result, a recording has no gap, shutdown ends.

## 2. Plan

1. `BoundedQueue`, `Fifo`, `FifoProofs`: the ring. **Done.**
2. `RemoteCalls`, `SoftIO`: the protocol and its abstract specification. **Done.**
3. `TagTx`: a tag's transmission, interrupt, driver and feeding thread. **Done**
   but for a second caller (section 5).
4. `ReaderTx`, `ReaderRx`: the reader's asynchronous send, its ADC stream and the
   receiving thread. **Done** (sections 6 and 7).
5. `Preamble`, `PreambleProofs`: listening, finding and stopping. **Done** (section 8).
6. `TurboHost`, `TurboHostProofs`: commands, scripts, terminate, recorder, shutdown. **Done** but for
   its clients on the other side of the topics (section 9).
7. Not begun: a second caller in `TagTx`; the clients of TurboHost;
   `Codecs`, pure operators against reference definitions (decode of encode, balance
   and period of m-sequences).

Theorems: proved, for every value of the constants that the conditions named with a theorem
allow, are all invariants of all passing runs, both refinements (`BoundedQueue` by `Fifo`,
`RemoteCalls` by `SoftIO`), what TurboHost's globals rest on (`Exclusive`) and, of the other
action properties, `NeverCutShort` of `ReaderTx` (for one sender, with two it is false). Left to
TLC are the liveness properties and the runs that expect a violation. No
module proved about reaches a RECURSIVE operator.

## 3. `Fifo` - the byte ring

| Model | Code (`fifo.h`) |
|---|---|
| `buf`, `read`, `write` | `Fifo_t` 20-40 |
| `Count`, `Remain`, `Full`, `Empty`, `Advance` | 70-115 |
| `Enque`, `CopyFromBuffer`, `GetsIntoFifo`, then `Store` per byte and `Publish` | 78-82, 159-172, and `softio.h` 371-382 where the device reads into the ring |
| `Deque`, `MoveToBuffer`, `PutsFromFifo`, `Clear`, then `Load` per byte and `Release` | 84-89, 144-157, 103-105, `softio.h` 392-403 |
| `Slot` | the two slices of a copy, 149-154, 164-169 |

There is one filling and one draining side. An operation reads the other side's cursor
once, moves its bytes one per step, then stores its own cursor; the sides
interleave at every step. `stored` and `gone` are history variables (every byte ever stored; how
many have been given back).

- `StaleLengthIsSafe`: a length computed from the other cursor stays valid until the
  transfer ends. The header itself warns that `fifo_count` is "not consistant because of no lock".
- `NothingOverwritten`: bytes stored and not given back are still in their slots.
- `NothingLost`: the cursors account for every byte ever stored.
- `DeliveredInOrder`: what a read has copied are the oldest bytes.
- `ImplementsQueue`: the ring refines `BoundedQueue`, whose state is one sequence.

Run **fifo**: 4 slots, two byte values, transfers of 0 to 4 bytes (more than
fits), 6 bytes stored in total (`MaxStored`), so that both cursors wrap and every split
of a transfer into two slices occurs.

**Proved** for every length, byte set and set of request lengths (`FifoProofs`):
`TypeCorrect`, `StaleLengths`, `Conservation`, `NoOverwriting` and
`DeliveryOrder`, that is `Spec => []P` for the five invariants of the run. The
only assumptions are that a ring has at least two slots and that requests are
natural numbers. None of the five is inductive alone, and the proof uses their
conjunction with one more part,

    IInv == TypeOK /\ Resting /\ StaleLengthIsSafe /\ NothingLost
              /\ NothingOverwritten /\ DeliveredInOrder

`Resting` says that an idle filling side has no stored, unpublished byte, and is
needed when the next fill begins. A store keeps older bytes only because its length
still fits (`StaleLengthIsSafe`), so it writes to a slot that differs from all
owned ones (lemma `SlotInjective`); a read is right only because the slots still hold what was
stored (`NothingOverwritten`); and both speak of `stored` at positions that exist
only by `NothingLost`. The lemmas before it remove the modulus from the cursor
arithmetic, once.

`Refinement` is `Spec => ImplementsQueue`: the ring implements `BoundedQueue`, whose queue is
what is published and not given back (`Published`), for every length. A publish puts a batch, a
release takes or drops one, and every other step is a stutter. That a publish appends just the
bytes stored before, and that it finds room for them, are `NothingLost` and `StaleLengthIsSafe`
again; that a read got the oldest ones is `DeliveredInOrder`.

## 4. `SoftIO` and `RemoteCalls` - the protocol

Both ends (`"pc"`, `"mcu"`) run one library. `at[p]` is where an end is in it:
`slot` (is the ring of heads full?), `room` (is there space in `siotx`?), `flush`
and `handle` (inside `__softio_wait_one`), `all` (inside `softio_wait_all`),
`try` (inside try_handle_all), `push` (the board's push loop). `ring` holds the heads that
await answers. `out[p]` is the sequence of messages of `p` that have not been taken out,
and `queued`, `flying`, `arrived` say how many of their bytes are in the sender's
`siotx`, under way, and in the receiver's `siorx`. So messages are whole, but
every partial arrival, full buffer and packet boundary is a state.

| Action | Code (`softio.h` unless named) |
|---|---|
| `Call`, `Slot`, `Room`, `Send` | the `__softio_delay_*` family, 425-554 |
| `Flush`, `HandleOne` | `softio_flush`, `__softio_wait_one`, 383-420 |
| `WaitAll`, `WaitMore` | `softio_wait_all`, 421-423 |
| `FlushTry`, `TryAll`, `BoardTry` | 31-34, 364-369 |
| `Handle`, `Apply`, `AnswerTo`, `AssertionOn` | `__softio_try_handle_one`, 164-363 |
| `BoardPush`, `BoardPushed` | `reader_h7_loop`, `reader-H7xx.h` 623-637 |
| `UsbReceive`, `UsbTransmit` | `reader-H7xx.h` 253-287 |
| `Produce`, `Consume` | the users of the two streams |

`RemoteCalls` is the promise: per end, requests asked, to do and answered are
queues; a request is carried out once and in order. `ImplementsCalls` is the
refinement. Its memory is that of the calls as the code makes them: a value the PC has
written locally is overwritten by an earlier read that is answered later (221), so that this
surprise (a hazard of the list) is part of the promise and no property catches it.

- `NoAssertionFails`: no assertion of the library fails and no byte is dropped.
- `RingMatchesTraffic`: an end's ring is exactly what is under way: answers coming
  back, then requests going out.
- `StreamsIntact`: neither stream loses, repeats or swaps a byte, although `up` is
  both pushed and read.
- `WaitAllReturns` (liveness): `softio_wait_all` comes back, from its first
  `__softio_wait_one` on, however many heads are in the ring.

Run **softio**: all calls but read_fifo, one call more than the ring of two heads holds,
packets that split messages. The board's fifo has two usable bytes and the PC's stream
three: the program makes no more of it than `Reckoned` allows, which is how the drivers
reckon ("maximum write without overflow"), and one byte more (the mutant) fails the assertion at
333. `siorx` has ten usable bytes, which is what a ring of two requests of `MaxLen` can weigh; with
eight TLC finds a byte dropped. Run **softio_push**: the board pushes while the PC reads the
same fifo. The data
is small because the protocol never looks at it; the ring and buffers are small
so that they fill. `MaxCalls`, `MaxMade`, `MaxPushes` bound the histories. A board halted by
`FLAG_MASK_HALT` (624) is one that does not take `BoardPush`, which the fairness leaves it free to do.

One run shows a disagreement of the code with its comments:

- **softio_push_full**: when the ring of heads is full, the code waits for *one*
  message (425-427: "queue is full, wait one", an `if`). If that is a request of
  the board, no head is freed, the next head makes the cursors equal, the full ring
  reads as empty and the next answer fails "transaction empty but receive respond".

**Proved** for rings, buffers, packets, values and programs of any size (`SoftIOProofs`). The
assumptions of the module hold of any build: sizes are positive, a push is smaller than the
board's fifo, the PC keeps its heads. But the protocol does not work for every program,
and what it relies on without testing it is named in the theorems:

| Condition | What it asks | Where the code leaves it open |
|---|---|---|
| `RingsSuffice` | an end that keeps heads has places for all of its requests, or the other end asks for nothing | 425-427 waits for one message, not for a place (run softio_push_full) |
| `ReadsFit` | if the PC uses read_fifo, its fifo can hold the whole stream and the board keeps no heads | nothing looks at the PC's room: 241 drops the bytes of an answer that find none; and a board that waits before it pushes may answer a read with the bytes it was about to push |
| `BuffersSuffice` | both of these, and: `siorx` holds what a full ring of requests of the greatest length and the acknowledgements of all pushes weigh; the program throttles its stream (`Reckons`), or the whole of it fits in the board's fifo; `PushRoom` is a push's size | the receive interrupt (`reader-H7xx.h` 263) drops what does not fit, 333 asserts room |
| `[]TakenInTime` | the program on the PC takes what the board pushes before more than a fifo is on its way | `reader-H7xx-ex.h` 315-317: "possible buffer overflow may occur, due to system heavy loaded"; the board pushes what it was told to |

The streams themselves may be of any length. The runs softio and softio_push meet the
conditions. So does the tag's firmware: it pushes nothing, and 31 requests of 254 bytes weigh
31 * (4 + 254 + 1) = 8029 bytes, less than its `siorx` of 16384. On the reader `siorx` is 8192: while
it receives, its program writes counts of four bytes at most (`MaxLen` = 4), and
31 * 9 + 2 * 895 = 2069 for the allowance of 895 packets that is granted at the start
(`reader-H7xx-ex.h` 366; that it is topped up is in `ReaderRx` only). With requests of 254
bytes at the same time the condition leaves room for the acknowledgements of 81 packets, and no
test in the code keeps the program from more. The loop waits for 448 bytes to push 253.

| Theorem | Condition | Establishes |
|---|---|---|
| `TypeCorrect` | none | `TypeOK` in every state before an assertion fails |
| `RingsMatch` | `RingsSuffice` | `RingMatchesTraffic` |
| `Awaited` | `RingsSuffice` | `AnswersAreAwaited`; nor do the assertions on an answer's type and length fail |
| `StreamsKept` | `ReadsFit` | `StreamsIntact` |
| `Implements` | both | `ImplementsCalls`, the refinement of `RemoteCalls` |
| `NoneFails`, `AlwaysTyped` | `BuffersSuffice` and `[]TakenInTime` | `NoAssertionFails`, and with it `TypeOK` in every state |

The argument, by layers:

- `Typed` says what kinds of messages can be under way from which end and that `queued`,
  `flying` and `arrived` add up to their bytes. It needs nothing else.
- `AwaitsInv` adds that each head in a ring fits the message it waits for (`Awaits`, type and length), and
  `Asking`, which counts an end's requests: it is inductive only because a head is put
  into a ring that has a place for it, which is where `RingsSuffice` enters.
- `IntactInv` adds that between two fifos a stream's bytes increase (`StreamsIntact`), and `Ready`:
  the bytes of a write_fifo that has been decided on are still there when it is sent,
  even if the end waits for a place first and carries out other requests meanwhile.
- `Implements` follows from these two. Sending is `RemoteCalls`' asking, handling a
  request its executing, handling an answer its completing, and all else stutters. That the
  answer at the front is the one the oldest head waits for is `Awaits`.
- `HoldsInv` adds `Booked` (requests under way and decided on were asked for) and `Reserved`
  (what the board pushes has room since it looked), and weighs what can be under way (lemmas `Weight`,
  `ReceiverHolds`), and `Throttled`: what the program has made and the board has not consumed
  fits in the board's fifo, because more is made only after a look at the difference. With
  `StreamsIntact` the bytes of a write_fifo then find their place (`OutstandingFits`). The messages' sizes are summed through `Flatten`, a recursive function;
  the facts about it are proved by the library's theorem on well-founded
  relations (`Induction`), not by induction theorems with an operator parameter.

`WaitAllReturns`, under fairness, stays with TLC.

## 5. `TagTx` - transmission by a tag

The PC's caller (`main`), its feeding thread (`thread`) and the tag are linked by
two queues, `todo` (requests) and `answers`: SoftIO as section 4 shows it to be. A
sample is one unit. The tag's actions are the requests it carries out (`Zero`,
`Reset`, `Fill`, `SetCount`, `SetByte`, `Read`) and the cases of the timer
interrupt (`BeginRepeat`, `Stream`, `Underflow`, `Sending`, `MessageSent`,
`Pause`, `NextRound`; `tag-L4xx.h` 306-372). The interrupt may fall between any two
of them: stores of `tx_count` disable it (hooks, 248-269), while `repeat_count` is stored
byte by byte (`softio.h` 291), which is why a store of it is two `SetByte` steps. The
caller is `Send` to `Join` (`tag-L4xx-ex.h` 337-421) and `Repeat` to `Loaded`
(430-473), the thread is `First` to `Last` (288-335), with every one of its
assertions setting `fault`.

- `NeverTooMany`: neither fifo is asked to hold more than it can, however old the
  `tx_count` that the room is reckoned from ("maximum write without overflow"),
  unless a sample came late.
- `ShownInOrder`: what a stream shows is the samples in order, with one gap per
  underflow that the tag counted.
- `SendIsComplete`: when `tx_send_samples` has returned, or a stop that did not wait,
  everything was shown, without a gap: a stop that cuts a stream short never returns,
  because the thread lets `tx_count` run down without feeding and its assertion (334) fails.
- `RepeatStartsAtZero`, `RepeatCounts`: a repetition starts at the beginning of the
  buffer, and a message is sent as often as asked although two parties store into
  `repeat_count`, unless it is to be repeated for ever.
- `AlwaysRepeats`: a message that is to be repeated for ever (-1) is. The code does not keep it.
- `OneThreadAtSoftIO`: the calls modelled never have both threads at SoftIO, which
  justifies leaving out the driver's lock.
- `CallsReturn` (liveness): every call returns, or an assertion stops the program; but a send
  waits for ever when the tag repeats a message for ever, which `tx_send_samples` does not end.
  `tx_repeat_samples` does, and returns.

Run **tag_tx**: streams of 0 and 5 samples through a fifo of 2 (so that it is
filled, refilled and wraps), stopped after the wait or before (`Early`), messages of 1 and 2
samples repeated 0 and 4 times and for ever (8, all bits of both digits; 4
has both digits set too), calls in any order and number. `Overloaded` lets a sample fall due before the PC has sent it. Deadlock
is not checked, since a failed assertion does stop the program.

Run **tag_start_race** shows a race: the feeding thread is created before `tx_running` is set
(384, 387). If it runs first it leaves its loop, feeds nothing and, although the PC is
never late (`Overloaded = FALSE`), the tag underflows and the assertion at 334
fails. The reader's driver orders the two the other way and says why
(`reader-H7xx-ex.h` 374). With the two statements exchanged in the model, TLC finds
no violation in this configuration.

Run **tag_repeat_forever** shows that "-1 for always repeat" (`tag-L4xx.h` 315) does not hold: the
first byte of the count may arrive alone, be taken for a number and be counted down; with the
others the count is then not -1, and the repetition ends. The model's count has two digits, so
that it ends soon; the code's would last for nearly 2^32 rounds.

**Proved** for every fifo, message, stream and digit of `repeat_count`, in
layers. `TagTxProofs`: `Discipline` says who talks to the tag and about what in each place of the
caller and of the thread (which requests can be under way, and when none is).
It gives `TypeCorrect`, `OneAtATime` (`OneThreadAtSoftIO`) and
`RepeatsStartAtZero`, the assertion at `tag-L4xx.h` 314. On it build three more invariants:

- `Accounting` (`TagTxStreamProofs`): fills under way are the samples between those
  the tag has had and those the PC has sent (`FillsFollow`); the values of `tx_count` under
  way fall from the PC's to the tag's (`OldCounts`), which is why an old one never
  makes the room too large; `tx_count` and `tx_underflow` add up to what was not
  streamed (`CountsAddUp`). It gives `Throttled` (`NeverTooMany`) and
  `SentInFull` (`SendIsComplete`), for streams of fewer than 65536 samples
  (`ShortStreams`): `tx_underflow` is a `uint16_t`, and a stream with 65536
  underflows passes its last assertion as one without any does.
- `Rotation` (`TagTxProofs`): rounds begun and rounds to come add up to what was
  asked for, also while the low byte of `repeat_count` has arrived alone. It gives
  `RepeatsCounted` (`RepeatCounts`), for every count but -1.
- `Showing` (`TagTxStreamProofs`, on top of `Accounting`): the samples shown so far are, gaps
  aside, those streamed, and the gaps are as many as `tx_underflow` says. It gives `NeverOutOfOrder`
  (`ShownInOrder`), again for `ShortStreams`: the property counts gaps modulo the counter's
  range, the proof uses that the counter does not wrap.

Not in the model: a second caller at the same tag, a repetition begun while a stream runs, user
callbacks, NLCD, the frequency, `tx_count_add` (the driver never writes it).

## 6. `ReaderTx` - transmission by the reader

A sender (`Sender(s)`) walks through `tx_send_samples_async` and
`tx_send_samples_wait` (`reader-H7xx-ex.h` 532-598); `at[s]` is its place. The
receiving thread (`RxEnter` to `RxLeave`, 302-328) uses the same connection under
the same `lock` and takes answers that a sender waits for. The board carries out
requests in order (`SetCount` to `Other`), pushes packets and shows one sample per
tick (`Show`, `Underflow`; `reader-H7xx.h` 694-709).

- `SendIsComplete`: when a wait has returned, all samples of the last send were shown,
  in order and without a gap, although the board begins after the first part.
- `NeverCutShort` (action property): `tx.count` is set only when the last sample before is shown.
- `CallsReturn` (liveness): every call returns, or an assertion stops the program.
  `wait_variable_not_minus_1` looks at the variable without the lock, so that the
  receiving thread may take the answer in between; the sender then waits for
  another message, which comes because packets are pushed and the receiving thread asks
  for the overflow count every 5 ms.

Run **reader_tx**: one sender and the receiving thread; sends of one and of three
samples in parts of two, so that the throttle on the ring of heads bites, a fifo of
three. Run **reader_tx_two** has two senders and finds that a send is cut short: the
wait (535) gives `tx_lock` back before 536 takes it again, so that two threads pass it
together and the second zeroes the count of the first. Line 72 calls the
function thread safe.

Proved in `ReaderTxProofs`, for any number of senders and for parts, sends, fifo and ring
of any size (at least four heads, `SizeAssumption`): `TypeOK` (`TypeCorrect`) and
`SendIsComplete` (`SendComplete`). The inductive invariant `IInv` has these parts:

- `Turns`, `Stages`, `Rest`: one thread is between `tx_lock.lock()` and `unlock()`, it has
  sent what is not in the local buffer, and `tx_async_started` means that a send of some
  samples has not been waited for.
- `Preparation`, `Fits`, `Accounts`, `Seamless` (the `Ledger`): requests are carried out late,
  so that requests of two sends may be under way. The last `clear` among them
  separates the two. Up to it the requests are those of 538-545 in their order; behind it the
  parts rise by their sample numbers, so that `tx_data` has room for them, exactly
  one request sets `tx.count`, what was shown and `tx.count` add up to the count once it is set,
  and each part begins where the one before ends. The timer may begin after
  the first part: what is claimed of the samples is claimed while `tx.underflow` is 0.
- `Waiting`: during a poll exactly one read is under way, or its answer, or the answer was taken
  in by this thread or by the receiving thread; behind the read there are only requests
  of the receiving thread, so that a count of 0 in the answer is still 0 when the sender
  looks. This is what makes it safe that `wait_variable_not_minus_1` looks without the lock.

`AloneNeverCutShort` proves `NeverCutShort` for one sender (`Senders = {s}`): on top of
`IInv`, `Spent` says that when nothing is started and the sender is not within a send,
`tx.count` is 0 and no request sets it, and that the sender comes to the preparation
with nothing started. The second part is what another sender breaks.

`CallsReturn` (liveness) is model-checked only. It needs the receiving thread: without it
(`Receiving = FALSE`) the throttle at 559, which handles no answers, sleeps for ever
(listed as a hazard).
Abstracted: one pushed packet under way stands for many, and the 5 ms between two
requests of the receiving thread are enough for the answers to arrive.

## 7. `ReaderRx` - the stream of samples to the PC

| Action | Code |
|---|---|
| `Measure` | the ADC interrupt's output, `reader-H7xx.h` 447-469 |
| `Push` | `reader_h7_loop`, 623-637 |
| `Carry`, `Handle` | requests on the board, answers and packets on the PC, `softio.h` 205-356 |
| `Start`, `Starting`, `Launch`, `Stop`, `Join` | `start_rx_receiving`, `stop_rx_receiving`, `reader-H7xx-ex.h` 356-386 |
| `LeaveLoop` to `End` | `__rx_receiving_thread`, 294-354 |

A sample is the number of its period. `Handle` is no step of the thread because any
thread inside SoftIO takes packets.

- `NothingLostUncounted`: while the board measures, every period since the start is in
  one of the two fifos, under way, delivered, or counted in `adc_data_overflow`.
- `GapsAreNoticed`: the overflow count is read late (310: "may not get the value
  immediately but that's OK"; 342); still, when the thread has ended and no assertion failed,
  what it delivered is one piece from the first period on.
- `StopReturns` (liveness).

The packets under way are counted by a cardinality (`Pushes`). Of the requests of a round of the
loop the count at 308 is flushed, the read at 309 may wait in `siotx` for the next round:
`Restore` asks only that the requests before that read have been answered.

Run **reader_rx**: fifos of three samples, packets of two, an allowance of two packets, seven
periods (`MaxSamples`): both fifos overflow, the allowance runs out, and receiving
is started again with packets under way.

**Proved** for every size of fifo, packet and allowance and any number of periods
(`ReaderRxProofs`): `TypeCorrect`, `Accounted` (`NothingLostUncounted`) and `GapsNoticed`
(`GapsAreNoticed`). The invariant, `Typing` with `Reception`, says of each phase of start
and stop what is still on its way (`Starts`, `Receives`): a reception begins with nothing
left of the one before. `Balance` accounts for every period. `InOrder` numbers each
sample in the fifos and packets, as long as nothing was lost. `Noticed` follows the count of lost
samples: what was delivered has no gap, or the thread's last request for the count is still to be
carried out, or its answer, which is not zero, is on its way or in the PC's copy, where
the assertion finds it. Requests and answers being ordered, the last request comes after every packet
that was delivered.

## 8. `Preamble` - listening

`Clear`, `Open`, `Start`, `Started`, `Wait`, `Stop` and `Joined` are the script's calls
(`host_luaext.h` 109-135, `reader-H7xx-ex.h` 430-471); `Receive` and `Store` the
receiving thread, which tests `output_to_rx_data` before it copies (323-325); `Feed` the
thread that cuts samples into blocks, and `Take` to `End` the search (`preamble.cpp`
361-392, 453-548). A sample is its number modulo `Numbers`,
which is positive. Whether a block ends a preamble, and
where, is left open, so that the numeric part has every outcome.

- `ResultIsTheSignal`: after the stop a script has `Points` consecutive samples, the first
  of which is the first of the preamble, or no result and no wait that told it of one.
- `OutputOnlyWhileListening`: after the stop nobody fills `rx_data`, which nobody drains.
- `CallsReturn` (liveness): stopping ends, though the feeding thread must first get
  all samples it has asked for; starting ends *unless* a preamble is found before the
  caller saw the 0. That exception is a defect of the code: the 0 written at
  `preamble.cpp` 517 and the SNR at 522 follow each other within one round, the caller looks
  every 10 ms (445), and then waits for ever.

Run **preamble**: blocks of two, asked for three at a time (so that a rest is left in
each place), five points (so that blocks after the found ones are copied), a
backlog of five samples (long enough for left-over samples to reach the result, were they not
cleared). Threads keep up with the stream: it pauses while `rx_data` or the queue
(`Backlog`) is full.

**Proved** for every size (`PreambleProofs`), from `SizeAssumption` alone:

- `TidyEnd` (`OutputOnlyWhileListening`). It speaks of the idle script only, and is inductive
  once it says of every place what it needs there (`Listening`): the searching
  thread lives only within the calls from start to stop and outlives the feeding thread, and
  the switch is open only while it lives, or in the step before the start.
- `TypeCorrect` and `SignalWhole` (`ResultIsTheSignal`). A sample at distance d from the
  next one has number `now - d`; `Consecutive` says so of all samples in
  the receiving thread's hands, `rx_data`, the block being filled, the queue and the
  searching thread's blocks, each of which begins where the one in front ends. The one exception is
  why it is not simply an invariant of sequences: the receiving thread may hold a
  sample from before the start, stored between the clear and the open (`Stored <= 1`), so that
  the oldest is not spoken of, up to a search that finds something at least one block
  later. While copying, the result is `Expected` so far and the next sample to copy is the next
  one expected. `Phases` and `Reports` add what the threads have at hand and what they have
  told, among it that a wait told of a preamble only if one was found. The lemmas on
  remainders come first: numbers wrap, distances do not.

## 9. `TurboHost` - commands, scripts, the recorder

| Action | Code (`Host.cpp` unless named) |
|---|---|
| `Do`, `Terminate`, `SwitchRecord`, `Shutdown` | MQTT thread, 255-341 |
| `Begin`, `Load`, `Run`, `Ret`, `Unlock` | the script's thread, 260-302; `set_record` in `host_luaext.h` 341-356 |
| `Receive`, `Store` | `rx_data_callback`, 109-113 |
| `Look`, `Open`, `Write`, `Close`, `Clear` | recorder thread, 114-190 |
| `CloseReader`, `Stop` | main thread, 208-237 |

A script makes one of the calls that other threads matter to (`Scripts`). Of
a chunk of samples the model keeps whether it joins on to the one stored before.

- `AnswersAreOwn`: each command is answered at most once, "busy" or with the result of
  its own script, though script and client id are globals.
- `FileIsContiguous`: a recording has no gap and nothing of an earlier one, unless recording was
  enabled again before the recorder saw that it was disabled, or the callback, which
  had read the flag before, stored after the recorder's clear. Both exceptions (`torn`)
  do make gaps in the model; they are defects (hazards of the list) that the property leaves
  aside, so that it does not catch them.
- `CommandsEnd` (liveness): every command is answered and a shutdown ends, but for
  `MayHang`: `set_record` waits for what a message or a shutdown has undone
  (`host_luaext.h` 346, 348), or a script loops with no terminate request, perhaps because
  its thread cleared the request at 261. These hangs are states of the run, which the property
  leaves aside: it does not catch them.

Run **turbohost**: two commands (the second can find the host busy, or come after the
main thread has joined the first), a recorder fifo of two chunks, any number of
record switches and terminates. A command that joins the script's thread at the same time
as the main thread is undefined behaviour and left out.

**Proved** for any number of commands and any scripts (`TurboHostProofs`):
`AnswersAreOwn`, and `Owned`, which the proof needs because script and client id are
globals: the mutex, locked by one thread and unlocked by another, is locked exactly
while a script has its thread, `luascript` and `luacid` are then those of one command
that has come, and that command has no answer before the script's end. So a command
that finds the host busy answers another number, and the script's answer is the first
of its command. The invariant adds the ranges of numbers and places, and that
commands that have not come have no answers. The assumption is that the scripts are among `Kinds`.
`TypeCorrect` and `Contiguous` (`FileIsContiguous`) are proved too, for every size of the
fifo: unless torn, only the first chunk of a recording does not join on, and whatever would
be stored next and does not finds fifo and file empty (`Unbroken`); so the recorder, once it
has noticed the end of a recording, leaves both empty before the next begins.

## 10. Fairness

The fair specifications ask for weak fairness of the steps of each processor, thread
and interrupt: the code that is running goes on. They ask for nothing of the
callers: which call comes next, whether one comes, how much data there is, whether a
preamble comes and when a wait is called are left open. Only `ReaderTx` has strong
fairness: of a sender's steps, because each may need `lock`, which the receiving thread takes and
gives back again and again; and of that thread's taking the lock and a message. No
one holds the lock for long, and the receiving thread sleeps for 1 ms
between its turns (337), so that a waiting thread gets it.

## 11. Mutations

Every property of a passing run is paired in `PROJECT.json` with a small bug in a
mapped definition (a dropped guard, an off-by-one, an assertion left out), written
in the module just before the definition it replaces. TLC finds the property
violated with that bug in place; no action of the models uses one.

## 12. What is not shown

- Liveness under fairness (`WaitAllReturns`, `CallsReturn` and the like) is model-checked on
  the instances above only: ENABLED is out of the prover's reach. So are the runs that expect a
  violation, and the few sizes for which they show it.
- The theorems on `SoftIO` hold under the conditions section 4 names; that a program on the
  PC meets them is shown only for what `TagTx`, `ReaderTx` and `ReaderRx` model of it.
- Memory is sequentially consistent. The code's plain flags and counters shared by
  threads are data races in C++; single accesses are taken as atomic. (A byte-wise
  update of the PC's copy of `tx_count` cannot show a false 0 while it only
  decreases, low byte first, so the model updates it whole.)
- `SoftIO`: answers and requests are judged when the whole message is there; clear
  and reset are one type; the hooks and MCU_RESET are left out; the operating
  system's serial buffer is part of `flying`. RESET of a fifo is one step in `TagTx`.
- Deadlock is not checked where a failed assertion, or a caller that makes no more
  calls, ends the behaviour.
- Of the reader: the filter's arithmetic, gain control (a numeric search over blocking
  writes), timer settings, `count_add` (never written by the driver). Of TurboHost:
  calls of scripts that touch no other thread. The clients of TurboHost and the codecs are
  planned (section 2).
- Demodulation, emulation and regression are floating-point code out of a model
  checker's reach; the database and MQTT wrappers are I/O; the web pages and experiment
  scripts are not the system's own logic; the boards' `main.c` is not in the repository.
  Most of the repository's lines are vendored libraries (Eigen, msgpack, asio,
  Lua, ...), which the models take as given.

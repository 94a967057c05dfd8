# ULLLAS in TLA+

ULLLAS sends low-latency PCM audio over UDP.  This directory holds TLA+ models
of its core, TLC configurations that check them, and TLAPS proofs about them.
Every definition is translated from the code under `src/src/`; `PROJECT.json`
gives the source lines of each.

## The system

One process is either a sender or a receiver (`main.c`).  Each has two threads:
the audio device's, which calls the audio callback, and the main thread.

| Part | State | Operations | Talks to |
|---|---|---|---|
| Frame ring (`ringbuffer.c`) | buffer, two 64-bit indices | write, read, fill levels, reset | written by the network thread, read by the audio callback, without locks |
| Sender (`udp_tx.c`) | sequence, timestamp, socket, accumulator | init, send block (cut into packets), destroy | called by the sender's audio callback; sends to UDP |
| FEC (`fec.c`) | sender: XOR accumulator, position in group; receiver: window of N+1 slots | on_data, clear; process, recover, emit, flush, reset | between `udp_tx.c` / `udp_rx.c` and `rx_emit_packet` |
| Packet handling (`rx_emit_packet` in `main.c`) | last number, counters | restart test, duplicate filter, gap fill, unpack, write | called by the receive loop or the FEC window; writes and resets the ring |
| Receiver callback (`main.c`) | `started`, drift state | prime, play, run dry; with `--drift-comp` resample | reads the ring; shares `started` and `src_reset_pending` with the network thread, without atomics |
| Drift compensation (`drift_src.c`) | FIFO, fractional position, ratio | push, process, reset | called by the receiver callback |
| UDP receiver (`udp_rx.c`) | socket, one packet buffer | init, recv with header checks, destroy | receive loop |
| Wire format (`pcm_proto.c`) | - | pack, unpack, header | sender and packet handling |
| Concealment (`plc.c`) | last frame observed | observe, conceal | packet handling |
| Life of the process (`main.c`) | what is allocated, `g_running` | options, start-up, loop, teardown, signal | starts and stops the device |
| Backends (`jack_`, `asio_`, `coreaudio_backend.cpp`) | client or unit, scratch buffers | init, start, stop, destroy, process callback | audio server or driver; called through the vtable of `audio.h` |
| Options (`config.c`), priorities (`rt_thread.c`) | - | parse; lock memory, raise priority | called once by `main` |

### What is hard

* Two threads share the ring with nothing but acquire and release on its
  indices, and `rb_reset` breaks the ownership rule of one of them.
* Packets are lost, doubled and reordered, the kernel refuses some, and the
  sender restarts at number 0 while the receiver keeps its state.
* FEC depends on both sides agreeing about groups from the sequence number
  alone; parity packets use numbers of the same sequence.
* The callback acts on a fill level it sampled before the network thread may
  have reset the ring, and a reset may come between a read's loads of the
  indices and its late store.
* Sequence numbers wrap, and are compared as plain `uint32_t` in one place and
  by difference in another.
* Two dozen resources are acquired one by one, on three backends with error
  paths of their own, each may fail, and a callback thread runs until the device
  has been stopped.
* The converter's fractional position, its FIFO and the number of frames drained
  from the ring are computed apart and must agree in every callback.
* Packets have the length of what is left of a block, buffers are reused without
  being cleared, and each side sizes its own from its own options.

`hazards` in `PROJECT.json` lists these at their lines, with the properties
that cover them.

### What makes each part correct

* Ring: a bounded queue of whole frames; the copy loops never touch one slot
  together; what is published can be read even if the writer stalls.
* Sender and FEC: groups and numbers stay aligned whatever the kernel refuses,
  parity is the XOR of its group, what is emitted was sent, in order, and one
  loss in a group is repaired.
* Receiver: unless the ring is reset inside a read, the timeline has no hole and
  no repetition and playback starts primed and does start; losses are counted
  exactly.
* Drift compensation: the converter reads only frames it has, never starves while
  the ring has data, adds a bounded latency, and, again unless the ring is reset
  inside a read, forgets the old stream at a restart.
* Wire: what is heard is what was captured, byte for byte, once, and in time as
  long as the sender's socket gives no hard error; concealment continues from the last frame heard.
* Process: no callback runs without its state, every exit releases what was
  acquired and nothing twice, a signal ends the process.

## Modules

| Module | Models | Composes |
|---|---|---|
| `FrameQueue` | abstract bounded queue of frames, the promise of `ringbuffer.h` | |
| `RingBuffer` | `ringbuffer.c`, one action per atomic load, store and frame copied | implements `FrameQueue` |
| `RingBufferProofs` | theorems about it | |
| `UdpSender` | `udp_tx.c` and the sending half of `fec.c` | |
| `Stream` | `UdpSender` and the network: loss, second copies, overtaking, refused sends, restart | `UdpSender` |
| `NumberProofs` | lemmas about remainders, groups of numbers and the order of a set of numbers, used by the proofs below | |
| `StreamProofs` | lemmas about `UdpSender` and `Stream`, used by `FecLinkProofs` and `PlaybackProofs` | |
| `FecRx` | the receiving half of `fec.c` | |
| `FecLink` | sender, network and window | `Stream`, `FecRx`, `RxEmit` |
| `FecLinkProofs` | theorems about it and about the sender | |
| `RxEmit` | the decisions of `rx_emit_packet`, as operators | |
| `Receiver` | network thread and audio callback around the ring | `RxEmit` |
| `Playback` | sender, network, receiver without receive-side FEC | `Stream`, `Receiver` |
| `PlaybackProofs` | theorems about it | |
| `DriftSrc` | `drift_src.c`, as operators on FIFO level and position | |
| `Drift` | the callback with drift compensation against a network thread that delivers and resets | `DriftSrc` |
| `DriftProofs` | theorems about it | |
| `Wire` | one stream in bytes: `udp_sender_send_planar`, `pcm_proto`, FEC over bytes, `udp_receiver_recv`, `rx_emit_packet`, `plc.c` | `FecRx`, `RxEmit` |
| `WireProofs` | theorems about it: the sender, and the receiver without FEC | |
| `WireFecProofs` | theorems about it: the window, and what is heard | |
| `AudioBackends` | what each backend's init, error paths, stop and destroy acquire and release | |
| `Lifecycle` | `main`, `run_sender`, `run_receiver` and the driver's thread | `AudioBackends` |
| `MCFecLink`, `MCPlayback`, `MCDrift`, `MCWire` | the scenarios and setups TLC runs with | |

How state and actions correspond to the code:

* `RingBuffer`: `write` and `read` are the two indices, `slots` the buffer.  A
  frame is its position in the stream of accepted frames, so a wrong, old or
  half-written frame shows in what is read.  `rb_read` is split at each of its
  loads (`ReadBegin`, `ReadClamp`, `ReadIndex`), because other steps may come
  between them; `WriteSlot` and `ReadSlot` are the two-chunk copy.  `QuietReset`
  is `rb_reset` between two reads, `Reset` the same at any time.
* `UdpSender`: one action per outcome of `emit_data_packet`: the packet closes
  its group or not, the kernel takes data and parity or answers EWOULDBLOCK
  (`taken`, `parityTaken`), or the send fails hard and the number is not used.
  A payload is the set of chunks it is the XOR of, so XOR is symmetric
  difference and a wrong parity gives a wrong set.
* `FecRx`: `slot` is the window, by offset from the head.  `Process` is
  `fec_rx_process` up to its loop, `AdvanceWindow` one turn of the loop,
  `StorePacket` and `IgnoreCopy` what follows it.
* `Receiver`: the ring in units of one block.  `stored` is what was ever written to
  it, so that its length is the write index, and `read` is the read index.  `npc`
  walks through `rx_emit_packet` (`EmitBegin`, `EmitReset`, `EmitRestarted`,
  `EmitFiltered`, `EmitGap`, `EmitFill`, `EmitWrite`), `cpc` through
  `receiver_callback`: both loads of the fill level (`CallbackLevel`,
  `CallbackSample`), the start test (`CallbackSilent`, `CallbackPlay`), `rb_read`'s
  three loads and its store (`CallbackRead`, `CallbackClamp`, `CallbackIndex`,
  `CallbackPublish`) and the test for a short read (`CallbackEnd`).  `EmitReset`,
  which is `rb_reset`, may come between any two of them.  `raced` tells that the
  ring's last reset fell inside a read: the late store then takes the reset back,
  and the read index may point before the reset, or past the write index, where the
  fill level wraps.  Writing one block (`EmitFill`, `EmitWrite`) is one step: the
  writer owns its index, and `RingBuffer` shows that its copy is not seen before it
  is published.
* `Stream`: the bounds on faults are a scenario chosen in `Init`, so that one run
  explores several.
* `DriftSrc`: positions are integers in units of 1/`Unit` of a frame, a step is
  1/ratio, and `write_idx` is `read_idx + avail` after every operation, so `avail`
  and the fraction are the state.  `Produced` and `Consumed` are the two counts of
  `drift_src_process`, `NewestTap` the furthest frame its filter reads.
* `Drift`: `npc` is where `rx_emit_packet` is between `rb_reset` and its stores of
  `started` and `src_reset_pending`; `cpc` splits the callback at every access to
  what the network thread also uses, the loads and the store of
  `rb_read_interleaved` included.  Only distances between the two indices matter,
  so `ring` is their difference in `uint64_t`, `seen` the difference the callback
  has loaded, and `moved` how far a reset has moved the read index since the
  callback loaded it; `raced` is as in `Receiver`.  `Predicted`, `Base`, `TopUp`, `Wanted` and
  `Needed` are the code's steps to the number of frames it drains.
* `Wire`: a byte is its frame in the stream and its place in it, a buffer a set of
  bytes by position, so a byte left over from an earlier packet, a slice from the
  wrong place or a wrong XOR shows in what is heard.  `SendPiece` is a turn of the
  loop in `udp_sender_send_planar`, `SendFails` a turn in which `sendto` gives a
  hard error: the piece is dropped, no number is used, and the loop, which ignores
  the result, goes on after it.  `failures` counts those.  `Receive` is a round of the receive loop,
  `ReceiveStray` a packet the header checks drop after it was read into the
  buffer, `Emit` the whole of `rx_emit_packet`.
* `AudioBackends`: an init is the list of what it acquires, an error path the list
  of what it releases.
* `Lifecycle`: `plan` is what is still to be acquired, `held` what is, `todo` the
  releases of the path taken.  There is one list of releases for each failure,
  as in the code; `DestroyDevice` is the backend's destroy, which does nothing
  when its init has failed.  The receive loop is left when a signal has cleared
  `running` (`LoopEnds`) or the socket gives an error (`SocketError`), and not at
  all once `fec_rx_process` hangs (`Hang`).  `Flush` is `fec_rx_flush` at shutdown,
  of which only matters here that what it uses is still there.

Operators named `X_Y` next to a definition `X` are mutated forms of it: with one
of them in place of `X` a run has to fail.

## Runs

| Run | Shows |
|---|---|
| `ring` | every interleaving of a writer and a reader on four slots is a bounded queue, without shared slots; published frames leave |
| `ring_race` (violation) | `rb_reset` moves the read index in the middle of a read |
| `fec_link` | with loss, a second copy, overtaking, a refused send and a hard error, emitted audio is what was sent, in order, and one loss in a group is repaired; a restart after more than four windows is told from a late packet, and the same holds across it |
| `fec_near_restart` (violation) | a restart within four windows mixes both streams in one window |
| `fec_wrap` (violation) | the last number before the wrap keeps the loop of `fec_rx_process` going for ever |
| `fec_parity_number` (violation) | a parity packet's number counts as a loss and is concealed |
| `playback` | with losses, a second copy, a full ring and a restart the timeline stays in order and, unless the ring was full, aligned; losses are counted, playback starts primed and does start; the callback's loads and its late store are interleaved with the reset, and a reset inside a read is where order, alignment and start are not claimed |
| `playback_reorder` (violation) | one overtaken packet empties the jitter buffer |
| `playback_jitter` (violation) | a jitter target above the ring's size never starts |
| `drift` | whatever the controller asks for and whenever the network thread resets the ring, the converter stays inside its data, near its target and fed, and plays no frame of the old stream unless the reset fell inside a read |
| `wire` | for blocks longer and shorter than a packet and buffers of different length, what is heard is what was captured, every byte of it, once and in time, for what loss leaves and, as to bytes and concealment, over a hard error of the sender |
| `lifecycle` | all paths through start-up, loop and teardown on three backends, with every failure, a callback thread, an error of the socket and a signal at any time |

A violation run checks one statement that a comment or document makes, and TLC
refutes it; `findings` quotes each statement.

### Bounds, and why they are enough

* `ring`: four slots and requests of one to five frames give every split of a
  block at the end of the buffer, full, empty, and requests the clamp cuts.
  Eight frames let both indices go round twice.  The proofs remove the bound.
* FEC: `GroupSize = 2` is the smallest group the code accepts; a window of three
  has a missing first, a missing last and a missing parity packet.  Five chunks
  are two groups and the start of a third; two losses are one more than a group
  can repair.  The scenario with a restart needs eleven chunks to get four windows
  ahead.  `SeqSpace` is 64 where no number wraps, and 32 in `fec_wrap`, which
  sends up to the wrap.
* `playback`: `RingCap = 3`, `Jitter = 2`, `Period = 1` let the ring be full,
  primed and dry; two losses in a row and one second copy next to a gap are the
  cases the counters could get wrong.  One scenario has three chunks before one
  restart, with all the interleavings with the callback, the other five chunks and
  no restart, which fill the ring.  `IndexMod = 8` is 2^64: larger than the ring,
  so that a level below zero is seen as a huge one.  `restartFrom` stands for the
  sequence number a sender reaches before it is restarted; at 1 the new number 0
  would be the second copy of the last one.
* `offered` stops counting at `Jitter`, and `MaxEmitted` bounds a history; it is 0
  in `fec_wrap`, whose question is not about emissions.
* `drift`: `Taps = 4` has frames on both sides of the read position, `Unit = 2`
  one position between two frames.  `Bend = 1` lets a step be half as long again or
  half as long, so that a block of two takes up to a frame more or less of input,
  as 0.2 % does over a block of 500; `Tracks` is the condition for it.
  `FifoTarget` (7) exceeds the taps as the code's does, `SrcBufFrames` (9) just
  holds a block and the reserve, `FifoCap` (19) is the least `ReserveAssumption`
  allows, and the ring (6) holds three packets and gets full; `IndexMod = 8` is
  2^64.  The setups have a block that waits for two packets, and one longer than
  `src_buf` allows.  Nothing counts up, so the run covers streams of any length.
* `wire`: a packet of six bytes holds two or three frames of two or three bytes.
  The seven setups cut blocks into one piece, two equal and two unequal ones, let
  callbacks vary, and make either side's buffer the longer one; three are with
  FEC.  Twelve frames are at least two groups; two losses in one group are one too
  many; one stray packet leaves its bytes behind; one hard error may hit any piece;
  `Fade = 2` ends within a
  concealed packet.
* `lifecycle` has no bound: every combination of mode, options and backend is
  explored.

### Fairness

* `RingBuffer`, `Playback`: weak fairness of the audio callback's steps.  The
  device calls it every period and it has no lock or loop to wait in.  The
  writer is not fair: published frames leave even if it stalls.
* `FecLink`, `Playback`: weak fairness of the network thread inside
  `fec_rx_process` and `rx_emit_packet`, which make no blocking call.  Neither
  the sender nor the network is fair.
* `Drift`: weak fairness of the callback.  The network thread is not fair, and may
  stop between the reset of the ring and its request.
* `Wire` checks safety only and states no fairness.
* `Lifecycle`: weak fairness of the main thread, which sleeps or waits at most
  200 ms at a time, and of the end of a callback.  The signal is not fair, nor is
  an error of the socket, so nothing but a signal is sure to end a loop; nor is the
  packet that makes `fec_rx_process` hang, which `SignalEnds` names as the one way
  a signal does not end the process (`fec_wrap` shows how it comes).

`CHECK_DEADLOCK` is off where the system may really stop: the sender has no more
chunks or frames within the bound and the network is empty, or the process is at
its exit.

## Proofs

Each theorem holds for every value of the constants the assumptions allow, not
only for the instance a run explores.

| Module | Theorems | Of |
|---|---|---|
| `RingBufferProofs` | `TypeCorrect`, `IndexOrderHolds`, `NoSharedSlotHolds`, `RingIsFrameQueue` | the ring, one atomic access at a time |
| `DriftProofs` | `DriftTypeCorrect`, `DriftNeverPastData`, `DriftFifoBounded`, `DriftNeverStarves`, `DriftNoOldFrames` | the callback with the converter |
| `PlaybackProofs` | `PlaybackTypeCorrect`, `PlaybackTimelineAligned`, `PlaybackTimelineOrdered`, `PlaybackStartsPrimed`, `PlaybackLossCounted` | sender, network and receiver without FEC |
| `FecLinkProofs` | `SenderGroupAligned`, `SenderParityCovers`; `FecTypeCorrect`, `FecEmittedWasSent`, `FecEmittedInOrder`, `FecOneLossRecovered`, `FecTellsRestarts`, `FecOnOrderedNetwork` | sender, network and FEC window |
| `WireProofs`, `WireFecProofs` | `WireTypeCorrect`; `WireHeardWasSent`, `WireTimelineKept`, `WireConcealedFromLast`, `WireEachFrameOnce`, `WireGroupRebuilt` | one stream in bytes, from the callback's block to the frames written to the ring |

`RingInvariant`, `DriftInvariant`, `PlaybackInvariant`, `FecInvariant` and
`WireAlways` state the inductive invariants behind them.  Each module has one lemma per action of the
next-state relation, which shows that the action keeps the invariant.

### The ring

The assumptions are those of `RingBuffer`: a positive capacity, indices that do
not reach 2^64 (`MaxFrames < IndexMod`; at 192 kHz that is three million years),
and resets only between two reads, which is what `Spec` says and `ring_race`
shows the code does not ensure.

`IndexOrder` is not inductive: a write publishes with a clamp computed earlier.
`RingInv` adds what each thread has claimed.  `ProducerClaim`: the block being
written fits beside everything unread.  `ConsumerClaim`: the block being read is
published.  A thread clamps with an index of the other that may be stale, but
that index only moves in its favour.  `StoredIntact`: every frame from `read` to
the writer's progress is in its slot; this needs the two claims, and that
distinct frames less than a capacity apart have distinct slots (`ModInjective`).
`CopiedIntact`: what was copied so far is right.  The proof has one step per
action.  `SlotOfFrame` shows that both chunked copies compute `(index + i) % Cap`;
the lemmas about `%` under it are proved from Euclidean division.  The refinement
maps each publishing step to `Put` or `Take`, a reset to `Drop`, and all others
to stuttering, over lemmas on spans of consecutive numbers.

### Drift compensation

Assumed is what the sizes in the code give: an even number of taps, at least two
(8); a FIFO that holds the taps, the target, the largest drain and two frames
(`ReserveAssumption`; 64 for the target and 2048 for the FIFO); a device buffer
of at least two frames and a jitter target of at least one; a step less than
twice the nominal one (0.2 % more in the code).

`NeverPastData` is not inductive, because the position and the FIFO level are
carried from one callback to the next.  `DriftInv` rests on how `receiver_callback`
works: it drains from the ring what the last callback consumed, plus what is
missing to the target.  `FifoNearTarget` is therefore a bound on a sum: the level
and the `Predicted` drain together exceed the target by at most a block and one
frame, before the drain; after it the level alone does.  `Supplied` says that a
callback which got what it asked for has a block beyond the taps, and two frames
for the rounding of the position, from which `NeverStarves` follows.
`OldLeave` says that while frames of the old stream are in the FIFO, the reset is
either requested or still to be requested by the network thread, and that a
callback between the reset and the clearing of the request has an empty FIFO.
`ReadClaim` is what a callback inside `rb_read_interleaved` knows: it takes no more
than it wanted, and, unless a reset fell inside the read, the ring still has what
its loads showed.  The bounds on FIFO and latency need only the first half, so
`DriftNeverPastData`, `DriftFifoBounded` and `DriftNeverStarves` hold whatever a
reset does to a read; only `DriftNoOldFrames` and the ring's range in
`DriftTypeCorrect` have `~ raced` as a condition, because the late store then makes
frames from before the restart readable again.
The lemmas about `Produced`, `Consumed` and `NewestTap` are about quotients: the
furthest tap read for `n` frames is inside the FIFO for any step, and the fraction
that remains is less than a frame.  For `FifoBounded` the level a callback leaves
behind is bounded by what it consumed.

### Sender

`NoWrap`: a run sends fewer packets than there are numbers, which is the case for
months of audio; `seq % (N+1)` does shift at the wrap.  Nothing else is assumed:
any losses, refusals, hard errors and restarts.  The invariant (`SenderInv`) says
that a number's remainder by the group's length is how much the accumulator has
taken in, that the accumulator is the union of the chunks of its group's data
packets, which are disjoint (so that their XOR is the union), and that every
number below the next is a packet sent.

### Receiver without FEC

`BelowHalf`: all numbers are in the lower half, so that the comparisons by
difference are those of numbers (again months).  Ring size, jitter target and
period are any naturals, the scenario any.

`ReceiverInv` ties the frame at the end of the ring to where `rx_emit_packet` is:
it is the last number emitted, or while a gap is filled the current one less what
is still to fill (`InHand`, `InPlace`).  With it the content of the ring is
increasing, and consecutive while nothing was refused by a full ring;
`TimelineOrdered` and `TimelineAligned` are that statement continued over what was
heard.  `LoadedIsThere` is what is known of each load the callback has made and
not yet used: the write index can only have grown since, the read index is the
callback's own, so a level it computed is in the ring and what it is about to copy
is too; for the start test this holds unless the ring was reset since the first
load, which is the case `StartsPrimed` leaves out.

A reset inside `rb_read` breaks all of this, as `ring_race` shows for the ring
itself: the late store puts the read index back among old blocks or ahead of the
write index.  `TimelineOrdered`, `TimelineAligned`, `StartsPrimed` and
`PlaybackStarts` therefore say nothing from such a reset (`raced`) to the next one
that falls outside a read.  `LossCounted` has no such condition, since only the
network thread counts.  A reset between any other two steps of the callback is
covered.

`PlaybackLossCounted` is claimed, as `LossCounted` says, for one run of the sender;
it assumes a network that keeps the order and a sender without FEC
(`PlainInOrder`), since an overtaken packet is counted although it arrives and a
parity packet takes a number (`fec_parity_number`).  `LossInv` carries the argument:
what is in flight comes after what has arrived (`Ahead`), everything sent after
the last arrival is lost or in flight (`Accounted`), so that when a packet arrives
all between it and the one before is lost (`Jumped`) and the gap in the numbers is
the size of that set (`GapCount`, by a bijection).

### FEC window

`Roomy`: the numbers of a run, and the four windows the restart test adds, are
below the wrap (`fec_wrap` shows what happens otherwise).  Group size, losses,
copies, overtaking, refusals and restarts are arbitrary.

The window's properties depend on one decision: a packet more than four windows
behind the head is taken for a restarted sender's.  `TellsRestarts` says that the
decision is right, and `FecInvariant`, `FecTypeCorrect`, `FecEmittedWasSent`,
`FecEmittedInOrder` and `FecOneLossRecovered` are proved from it, as
`Spec /\ []TellsRestarts => []...`.  `fec_near_restart` shows a run in which it
is wrong and what comes of that; `fec_link` checks that it holds in scenarios with
overtaking and with a restart.

`FecTellsRestarts` proves it where the network loses and copies packets but keeps
their order, and a sender gets five windows and the number of lost packets ahead
before it is restarted (`InOrder`).  `FecOnOrderedNetwork` then has the three
properties without a hypothesis about behaviours.  Overtaking is not covered,
since there it is false in general: the model bounds how many older packets one
delivery passes, not how many pass one packet, so a packet can be late by more
than four windows and looks like a restart.

In `FecInv` the window is one of incarnation `e` of the sender.

* `HeadInv`: the head is the first number of a group, and some packet that arrived
  in time is at the head or beyond, or was the parity packet before it.  All
  groups below are over because of that packet.
* `WindowInv`: each slot is empty or the packet sent with its number, by
  incarnation `e` and no other; and whatever arrived in time and is not behind the
  head is in its slot.  The slot of the parity packet is always empty between two
  packets, because parity finishes its window.
* `OutInv`: what was emitted as audio was sent with that number, by an earlier
  incarnation or before the head.
* `RecoveredInv`: a group behind the head of which at most one packet did not
  arrive in time was emitted whole.  This part needs the history `out` not to be
  cut (`KeepsHistory`, a bound of the model and not of the code).

When a window is left, `WindowInv` gives each missing slot a packet that did not
arrive; if only one is missing, the XOR of the others is its payload because
parity is the union of disjoint sets.  When the window moves to a late packet's
group, what it leaves behind is over.  A restart moves it to incarnation `e + 1`.

`OrderInv`, for `FecTellsRestarts`, says that what is in flight comes after all
that arrived, that every packet sent is in flight, lost or arrived, and that a
restart came late.  A first packet of the new sender that does not look far behind
would need more packets lost than the scenario allows.

### Wire

`WireTypeCorrect` needs the assumptions of `Wire` and nothing more: a frame fits in
a packet, and with FEC a callback's block fits in the sender's buffer, that in the
receiver's, and that in a packet (`SetupsAssumption`).
The other theorems add two.  `Roomy`: the numbers of a run, at most two for a
frame, and four windows more stay below half the number space, so that none wraps
and none is taken for an old one; the instance TLC runs satisfies it.
`LostIsNoPayload`: the NULL a window emits for a lost packet is not a payload.
Frame width, packet size, group size, length of the buffers and of each callback's
block, the packets lost and the strays in between are arbitrary.

None of the five is inductive, since each is about a history and the state that
caused it.  `ReceiverInv`, with `SenderInv` and `NetInv`, ties them together.

* `SenderInv`: a data packet is the packing of consecutive frames, the next one
  starts where it ends (`SentData`, with `NextData` stepping over parity numbers),
  and with one length and no FEC at its number times that length (`EvenlyCut`).
  Parity is what its group covers, cut to the last packet's length (`ParityInv`).
* `NetInv`: the packets in flight are the last ones sent, in order, so that every
  number below `Arrived` has been delivered or dropped.
* `HeardInv`: an unreal frame repeats the last real one before it, which is the
  frame `plc.c` keeps (`FromLast`).  `OutInv`: what is to be emitted is in order,
  beyond the last number emitted, and matches a packet sent; only a rebuilt packet
  among packets of different length may not.
* `LossFree`: as long as nothing was lost, the frames to come continue what was
  heard (`Unheard`), counted without what was concealed (`RealBefore`), which with
  FEC the parity numbers cause.
* `PlainInv`: without FEC and with one length, what is heard is as long as the
  numbers passed (`Aligned`); `TimelineKept` follows from it as long as there was no
  hard error.  After one, numbers no longer tell when a frame was captured, so
  `EvenlyCut`, `LossFree` and the two theorems on them, `WireTimelineKept` and
  `WireEachFrameOnce`, have `failures = 0` as a condition; the other four hold over
  any number of hard errors.
* `FecInv`: the window has not started, or starts at a group and holds exactly the
  packets received of it, byte for byte as far as a packet goes (`Holding`,
  `Kept`); behind that, a slot keeps what an earlier packet left in the buffer.
  `Rebuilt`: a group behind the head that lost at most one packet has been heard,
  or waits in `out`.

`UnpackPacked` is the lemma under all of them: unpacking what was packed gives back
each frame with every byte, for any width and length; it rests on products and
quotients (`FrameOfPosition`, `ScaleMono`).  `RebuiltPayload` is its counterpart
for FEC: the XOR of the parity packet and of the rest of its group, with the rests
of earlier packets in their slots, is the missing payload once it is cut to its
length, when all have one.  `Flushed` says what a window emits (`RecoverKeeps`,
`EmissionsInTurn`), `FlushKeepsFec` and `FecStepKeeps` that the invariant holds
after it, and `WindowDone` draws the conclusion for a group that is over.

### What is only model-checked

* Liveness (`EveryFrameLeaves`, `DeliveredIsEmitted`, `PlaybackStarts`,
  `ResetCarriedOut`, `SignalEnds`): the provers have no rule for fairness.
* `TellsRestarts` on a network that reorders (see above).
* `Lifecycle`: it has no constants and finitely many states, all of which its run
  explores; a proof would say nothing more.

## Not modelled

* Memory ordering: loads and stores are sequentially consistent.  For the ring
  that is what the acquire/release pairs give each published block.
* What the filter of `drift_src.c` and the controller compute, which is floating
  point: the filter is the frames it reads, the controller any step within its
  limits.  How soon the controller corrects the latency is therefore not shown.
* Values of samples and gains, conversion between float and integer formats,
  peak meters and status lines.  `wire` shows that every byte gets where it
  belongs, not what it is worth.
* Parsing of options, apart from whether they are accepted; socket options; the
  outcome of the scheduler calls, on which nothing depends.
* Lookup and listing of devices, and how the backends negotiate ports, formats
  and sample rates (CoreAudio reports the requested rate even when setting it
  failed; JACK caps a callback at its buffer size).  `src/asio` is vendored.
* Failure of the allocation in `drift_src_init`, which its caller cannot see.
* Options that differ on both sides: the receiver compares neither bit depth nor
  group size with its own.
* What `fec_rx_flush` emits when the receiver stops (`main.c:728`): a last partial
  window goes to `rx_emit_packet` while the callback still runs.  `Lifecycle` has
  the call and what it needs; `FecLink` and `Wire` end before it.
* `rb_write` between its load of the read index and its store, in `Receiver` and
  `Drift`.  `RingBuffer` has it in full.  Its `Spec` in turn allows `rb_reset` only
  between two reads; `ring_race` drops that restriction, which the code does not
  have, and `raced` marks the behaviours it excludes in `Receiver` and `Drift`.

Where the models stop because the code does not check, as `SetupsAssumption` of
`Wire` says: with FEC, a callback longer than the audio buffer; a receiver's
buffer shorter than the sender's; and a receiver's buffer that with its frame width
is longer than a packet, for which `fec.c:210` copies `payload_size` bytes from
behind the header and so reads past the receiver's packet buffer of 1472 + 64 bytes.

Observations that no run states:

* With FEC and packets of different length the parity packet has the length of
  the last one, so a longer packet rebuilt from it is cut.  `HeardWasSent` and
  `GroupRebuilt` leave rebuilt packets of that case out.
* Without FEC a lost packet is concealed at the length of the one after it.  When
  a block is cut into unequal pieces this shifts what follows; `TimelineKept` is
  claimed for packets of one length.
* Concealment starts to fade with its first frame, and anew in each lost packet
  of a gap, where `plc.h:14-15` describes a hold of 5 ms followed by a fade.  (Without
  `--plc` silence of the same length takes its place; `Wire` has it on.)
* When the receiver's start-up fails after `drift_src_init`, the two drift buffers
  are not freed, and `alloc_all_scratch` of CoreAudio keeps what it got before it
  failed; `ReleasedAtExit` names both.
* After the JACK server has gone the program prints a line and waits for a signal.
* After a hard error of `sendto` the next piece uses the number of the one that was
  dropped: the receiver fills nothing in, and what follows is heard too early, where
  `plc.h:13-14` says the timing stays aligned.  `TimelineKept` has `failures = 0`.
* With drift compensation and a device buffer above `src_buf_frames` (1024, where
  `config.c` accepts up to 4096) every callback is short of frames even when the
  ring is full, where `main.c:247-249` says the FIFO never starves.  `Tracks` and
  `BlockFits` leave this out of `FifoBounded` and `NeverStarves`.
* When the ring is reset between the two loads of its level, or between the level
  and the test, playback starts below the target that `main.c:665` announces;
  `StartsPrimed` leaves that case out.
* When the ring is reset inside a read that has loaded the index it copies from,
  the store undoes the reset and the rest of the old blocks is played.  When the
  index is loaded after the reset, the read index passes the write index; the level
  the callback sees, an unsigned difference, is then huge, and it plays slots not
  yet written again until the writer has overtaken it or the ring is reset.

## Plan

1. `Wire` with the ring and the callback behind it, and `FecRx` in front of
   `Receiver`: what is heard with FEC on, under all interleavings, the flush at
   shutdown included.
2. `Wire` and `FecLink` as one: the window in bytes implements the window in
   chunks, by a refinement mapping.

-------------------------------- MODULE Drift --------------------------------
(***************************************************************************)
(* The receiver with --drift-comp: receiver_callback drains the ring into  *)
(* the converter's FIFO and plays what the converter makes of it, while    *)
(* the network thread delivers packets and, when the sender restarts,      *)
(* resets the ring and asks for a reset of the converter through the plain *)
(* int src_reset_pending.                                                  *)
(*                                                                         *)
(* Of the ring only the distances between its indices matter here, each    *)
(* the unsigned difference the code computes.  The callback's loads of     *)
(* both indices and its late store are steps of their own, so that a reset *)
(* may fall between them; the copy of the frames and the network thread's  *)
(* write are RingBuffer's business.  The controller is a feedback loop in  *)
(* floating point: its output is any step within its limits, a new one in  *)
(* each callback.                                                          *)
(***************************************************************************)
EXTENDS DriftSrc

CONSTANTS
    FifoTarget,     \* DRIFT_FIFO_TARGET
    SrcBufFrames,   \* st->src_buf_frames
    RingCap,        \* RX_RB_FRAMES
    IndexMod,       \* 2^64, the modulus of the ring's uint64 indices
    Bend,           \* the step is at most this far from Unit: 0.2 % in the code
    Setups,         \* device buffers with jitter targets, in frames
    Packets         \* frames of a packet

ASSUME TargetAssumption == FifoTarget \in Nat /\ SrcBufFrames \in Nat \ {0}
ASSUME BendAssumption == Bend \in Nat /\ Bend < Unit
ASSUME RingAssumption == RingCap \in Nat /\ IndexMod \in Nat /\ RingCap < IndexMod
ASSUME PacketsAssumption == Packets \subseteq Nat
ASSUME SetupsAssumption ==
    \A s \in Setups : s.block \in Nat /\ s.block > 1 /\ s.jitter \in Nat \ {0}

(* 8, 64, 1024 and 2048 in the code: the reserve outlasts the taps and the *)
(* rounding of one callback, and the FIFO takes what a callback may drain  *)
(* on top of it.                                                           *)
ASSUME ReserveAssumption ==
    /\ Taps + 3 <= FifoTarget
    /\ Leftmost + FifoTarget + 2 + SrcBufFrames <= FifoCap

VARIABLES
    setup,          \* the device's buffer and the jitter target, fixed
    npc,            \* where the network thread is in rx_emit_packet
    ring,           \* fill level of the ring: write_frames - read_frames
    started,        \* st->started
    resetPending,   \* st->src_reset_pending
    cpc, avail,     \* where the callback is; the fill level it sampled
    seen,           \* the callback's load of write_frames - read_frames
    cn,             \* rb_read_interleaved's frames, after the clamp
    moved,          \* read_frames - rb_read_interleaved's load of it
    src,            \* st->src
    lastConsumed,   \* st->src_last_consumed
    fed, starved,   \* the last callback got what it wanted from the ring; it
                    \* produced less than a block: src_starved
    old,            \* history: frames in the FIFO that were read before the
                    \* ring was last reset
    raced           \* history: the ring's last reset fell inside a read, whose
                    \* late store takes it back

reading == <<seen, cn, moved>>
converter == <<src, lastConsumed, fed, starved>>
callbackState == <<cpc, avail, reading, converter>>
vars == <<setup, npc, ring, started, resetPending, callbackState, old, raced>>

-----------------------------------------------------------------------------

block == setup.block
Steps == Unit - Bend..Unit + Bend

(* A difference of two indices, in size_t. *)
Unsigned(n) == n % IndexMod

Init ==
    /\ setup \in Setups
    /\ npc = "recv" /\ ring = 0 /\ started = FALSE /\ resetPending = FALSE
    /\ cpc = "idle" /\ avail = 0
    /\ seen = 0 /\ cn = 0 /\ moved = 0
    /\ src = SrcEmpty /\ lastConsumed = block
    /\ fed = TRUE /\ starved = FALSE /\ old = 0 /\ raced = FALSE

(* A packet of n frames, received or concealed, is written to the ring. *)
Deliver(n) ==
    /\ npc \in {"recv", "write"}
    /\ npc' = "recv"
    /\ ring' = Unsigned(ring + AtMost(n, Unsigned(RingCap - ring)))
    /\ UNCHANGED <<setup, started, resetPending, callbackState, old, raced>>

(* The sender restarted: rb_reset, then the stores of started and          *)
(* src_reset_pending, then the packet's block.  The reset moves the read   *)
(* index under whatever the callback has loaded and not yet used.          *)
RestartRing ==
    /\ npc = "recv" /\ npc' = "stop"
    /\ ring' = 0 /\ old' = src.avail
    /\ seen' = IF cpc \in {"level", "clamp"} THEN Unsigned(seen - ring) ELSE seen
    /\ moved' = IF cpc = "copy" THEN Unsigned(moved + ring) ELSE moved
    /\ raced' = (cpc \in {"clamp", "index", "copy"})
    /\ UNCHANGED <<setup, started, resetPending, cpc, avail, cn, converter>>

RestartStop ==
    /\ npc = "stop" /\ npc' = "request"
    /\ started' = FALSE
    /\ UNCHANGED <<setup, ring, resetPending, callbackState, old, raced>>

RestartRequest ==
    /\ npc = "request" /\ npc' = "write"
    /\ resetPending' = TRUE
    /\ UNCHANGED <<setup, ring, started, callbackState, old, raced>>

Network == (\E n \in Packets : Deliver(n)) \/ RestartRing \/ RestartStop \/ RestartRequest

-----------------------------------------------------------------------------

(* rb_available_read_frames loads write_frames, then read_frames. *)
CallbackLevel ==
    /\ cpc = "idle" /\ cpc' = "level"
    /\ seen' = ring
    /\ UNCHANGED <<setup, npc, ring, started, resetPending, avail, cn, moved, converter, old, raced>>

CallbackSample ==
    /\ cpc = "level" /\ cpc' = "check"
    /\ avail' = seen /\ seen' = 0
    /\ UNCHANGED <<setup, npc, ring, started, resetPending, cn, moved, converter, old, raced>>

CallbackSilent ==
    /\ cpc = "check" /\ ~ started /\ avail < setup.jitter
    /\ cpc' = "idle" /\ avail' = 0
    /\ UNCHANGED <<setup, npc, ring, started, resetPending, reading, converter, old, raced>>

CallbackPlay ==
    /\ cpc = "check"
    /\ started \/ avail >= setup.jitter
    /\ cpc' = "drift" /\ started' = TRUE
    /\ UNCHANGED <<setup, npc, ring, resetPending, avail, reading, converter, old, raced>>

CallbackNoReset ==
    /\ cpc = "drift" /\ ~ resetPending
    /\ cpc' = "read"
    /\ UNCHANGED <<setup, npc, ring, started, resetPending, avail, reading, converter, old, raced>>

(* Mutant of ResetSrc: the request is cleared and the FIFO is kept. *)
ResetSrc_Kept ==
    /\ lastConsumed' = block
    /\ UNCHANGED <<src, old>>

ResetSrc ==
    /\ src' = SrcEmpty /\ lastConsumed' = block
    /\ old' = 0

CallbackReset ==
    /\ cpc = "drift" /\ resetPending
    /\ cpc' = "clear"
    /\ ResetSrc
    /\ UNCHANGED <<setup, npc, ring, started, resetPending, avail, reading, fed, starved, raced>>

(* Mutant of CallbackClear: the request stays. *)
CallbackClear_NotCleared ==
    /\ cpc = "clear" /\ cpc' = "read"
    /\ UNCHANGED <<setup, npc, ring, started, resetPending, avail, reading, converter, old, raced>>

CallbackClear ==
    /\ cpc = "clear" /\ cpc' = "read"
    /\ resetPending' = FALSE
    /\ UNCHANGED <<setup, npc, ring, started, avail, reading, converter, old, raced>>

(* Mutant of Predicted: the last consumption is taken as it is. *)
Predicted_Unclamped == lastConsumed

(* What the converter took last time, within a frame of the block. *)
Predicted == AtLeast(AtMost(lastConsumed, block + 1), block - 1)

(* A nearly empty ring gives a frame less than the block. *)
Base == IF avail < block + Taps THEN block - 1 ELSE Predicted

(* Mutant of TopUp: the target is added whatever the FIFO holds. *)
TopUp_Always == FifoTarget

TopUp == IF src.avail < FifoTarget THEN FifoTarget - src.avail ELSE 0

Wanted == AtMost(Base + TopUp, SrcBufFrames)
Needed == AtLeast(AtMost(Wanted, avail), 1)

(* rb_read_interleaved loads write_frames, then read_frames, clamps the    *)
(* request, and loads read_frames a second time as the index it copies     *)
(* from.                                                                   *)
CallbackRead ==
    /\ cpc = "read" /\ cpc' = "clamp"
    /\ seen' = ring
    /\ UNCHANGED <<setup, npc, ring, started, resetPending, avail, cn, moved, converter, old, raced>>

(* Nothing to read: the return of 0. *)
CallbackDry ==
    /\ cpc = "clamp" /\ seen = 0
    /\ cpc' = "process" /\ fed' = FALSE
    /\ UNCHANGED <<setup, npc, ring, started, resetPending, avail, reading, src, lastConsumed,
                   starved, old, raced>>

CallbackClamp ==
    /\ cpc = "clamp" /\ seen > 0
    /\ cpc' = "index"
    /\ cn' = AtMost(Needed, seen) /\ seen' = 0
    /\ UNCHANGED <<setup, npc, ring, started, resetPending, avail, moved, converter, old, raced>>

CallbackIndex ==
    /\ cpc = "index" /\ cpc' = "copy"
    /\ moved' = 0
    /\ UNCHANGED <<setup, npc, ring, started, resetPending, avail, seen, cn, converter, old, raced>>

(* The store of read_frames, then drift_src_push. *)
CallbackPublish ==
    /\ cpc = "copy" /\ cpc' = "process"
    /\ ring' = Unsigned(ring + moved - cn)
    /\ src' = Push(src, cn)
    /\ fed' = (cn >= Wanted)
    /\ cn' = 0 /\ moved' = 0
    /\ UNCHANGED <<setup, npc, started, resetPending, avail, seen, lastConsumed, starved, old, raced>>

(* drift_src_process.  Running short does not stop playback. *)
CallbackProcess ==
    \E step \in Steps :
        /\ cpc = "process" /\ cpc' = "idle" /\ avail' = 0
        /\ src' = Process(src, block, step)
        /\ lastConsumed' = src.avail - src'.avail
        /\ starved' = (Produced(src, block, step) < block)
        /\ old' = AtLeast(old - lastConsumed', 0)
        /\ UNCHANGED <<setup, npc, ring, started, resetPending, reading, fed, raced>>

Read == CallbackRead \/ CallbackDry \/ CallbackClamp \/ CallbackIndex \/ CallbackPublish

Callback ==
    \/ CallbackLevel \/ CallbackSample \/ CallbackSilent \/ CallbackPlay
    \/ CallbackNoReset \/ CallbackReset \/ CallbackClear \/ Read \/ CallbackProcess

Next == Network \/ Callback

Spec == Init /\ [][Next]_vars

(* The audio device keeps calling back.  Nothing is assumed of packets. *)
FairSpec == Spec /\ WF_vars(Callback)

-----------------------------------------------------------------------------

(* The variables have their types: the read position is within a frame,    *)
(* and the FIFO is within its capacity, as the ring is unless a reset fell *)
(* inside a read.                                                          *)
TypeOK ==
    /\ setup \in Setups
    /\ npc \in {"recv", "stop", "request", "write"}
    /\ cpc \in {"idle", "level", "check", "drift", "clear", "read", "clamp", "index", "copy",
                "process"}
    /\ {started, resetPending, fed, starved, raced} \subseteq BOOLEAN
    /\ {ring, avail, seen, moved} \subseteq 0..IndexMod - 1 /\ (~ raced => ring <= RingCap)
    /\ cn \in 0..SrcBufFrames
    /\ src.avail \in 0..FifoCap /\ src.frac \in 0..Unit - 1
    /\ lastConsumed \in Nat /\ old \in 0..src.avail

(* The FIFO is never read past its valid data (drift_src.h), whatever the  *)
(* controller asks for: neither by the filter's taps nor by the frames a   *)
(* callback consumes.                                                      *)
NeverPastData ==
    cpc = "process" =>
        \A step \in Steps :
            LET n == Produced(src, block, step) IN
            n > 0 => /\ NewestTap(src, n, step) < src.avail
                     /\ Advance(src, n, step) \div Unit <= src.avail

(* The controller cannot move the read position of a block by more than a  *)
(* frame from the block's length.                                          *)
Tracks == block * Bend <= Unit

(* A whole block and the FIFO's reserve fit into src_buf. *)
BlockFits == block + FifoTarget <= SrcBufFrames

(* The FIFO stays near its target, however the ring ran dry or was reset   *)
(* before: the converter adds a bounded latency, the push never drops a    *)
(* frame, and the frames behind the read position that the filter still    *)
(* reads are not overwritten.                                              *)
FifoBounded ==
    Tracks /\ cpc # "process" =>
        /\ src.avail <= FifoTarget + 2
        /\ Leftmost + src.avail + Wanted <= FifoCap

(* "So the SRC FIFO never starves": when the ring has the frames the       *)
(* callback wants, the converter produces a whole block.                   *)
NeverStarves == Tracks /\ BlockFits /\ starved /\ cpc # "process" => ~ fed

(* Once the network thread has asked for a reset, a callback that gets to  *)
(* the request plays nothing of the stream from before the restart.  Not   *)
(* so when the ring's reset fell inside a read: the late store of the read *)
(* index puts old frames back into the ring.                               *)
NoOldFrames ==
    [][cpc = "drift" /\ npc \in {"recv", "write"} /\ ~ raced => old' = 0 \/ cpc' = cpc]_vars

(* A requested reset of the converter is carried out once the ring holds   *)
(* the jitter target.                                                      *)
ResetCarriedOut == (resetPending /\ ring >= setup.jitter) ~> (~ resetPending \/ ring < setup.jitter)
=============================================================================

----------------------------- MODULE RingBuffer -----------------------------
(***************************************************************************)
(* The single-producer single-consumer frame ring of ringbuffer.c, at the  *)
(* grain of its atomic index loads and stores and of the copy of one       *)
(* frame.  The producer is the network thread (rx_emit_packet calls        *)
(* rb_write_interleaved), the consumer the audio callback (rb_read or      *)
(* rb_read_interleaved).  Planar and interleaved calls differ only in the  *)
(* layout of the caller's buffer.                                          *)
(*                                                                         *)
(* A frame is its position in the stream of accepted frames, so that a     *)
(* copy of a wrong, old or half-written frame shows.                       *)
(***************************************************************************)
EXTENDS Integers, Sequences

CONSTANTS
    Cap,            \* rb->frame_count
    MaxRequest,     \* the most frames one call asks for
    MaxFrames,      \* bound: frames accepted in one behaviour
    IndexMod,       \* 2^64, the modulus of the uint64 indices
    NoFrame         \* content of a slot that calloc left zero

(* The code makes Cap a power of two; only the masking needs that.  The    *)
(* bound on the run stays below the wrap of the indices.                   *)
ASSUME CapAssumption == Cap \in Nat \ {0}
ASSUME IndexAssumption ==
    /\ MaxFrames \in Nat
    /\ IndexMod \in Nat
    /\ MaxFrames < IndexMod
ASSUME RequestAssumption == MaxRequest \in Nat
ASSUME FrameAssumption == NoFrame \notin Int

VARIABLES
    slots,          \* rb->buffer, one frame per slot
    write, read,    \* rb->write_frames, rb->read_frames
    ppc,            \* the producer: outside or inside rb_write's copy
    pn, pi,         \* rb_write's frames (after the clamp), frames copied
    cpc,            \* the consumer: where it is in rb_read
    cw, cr,         \* rb_read's loads of write_frames and read_frames
    cn,             \* rb_read's frames
    dst,            \* what rb_read has copied out
    got             \* what the last rb_read returned to its caller

prodVars == <<ppc, pn, pi>>
consVars == <<cpc, cw, cr, cn, dst, got>>
vars == <<slots, write, read, prodVars, consVars>>

-----------------------------------------------------------------------------

AtMost(a, b) == IF a <= b THEN a ELSE b

(* a - b on uint64. *)
Diff(a, b) == IF b <= a THEN a - b ELSE IndexMod - (b - a)

(* Mutants of the operators below, each a bug the runs must notice.        *)
WriteSlot_TailNotWrapped(w, i) == IF i < Cap - (w % Cap) THEN (w % Cap) + i ELSE i
ReadSlot_TailNotWrapped(r, i) == IF i < Cap - (r % Cap) THEN (r % Cap) + i ELSE i
Readable_OneTooMany(w, r) == Diff(w, r) + 1
Writable_OneTooMany(w, r) == Diff(Cap, Diff(w, r)) + 1
Writable_Unclamped(w, r) == MaxRequest

(* The slot of frame i of a block at index w: the block is copied as a     *)
(* contiguous chunk up to the end of the buffer and a wrapped tail.        *)
WriteSlot(w, i) ==
    LET idx   == w % Cap
        first == Cap - idx
    IN  IF i < first THEN idx + i ELSE i - first

ReadSlot(r, i) ==
    LET idx   == r % Cap
        first == Cap - idx
    IN  IF i < first THEN idx + i ELSE i - first

Readable(w, r) == Diff(w, r)
Writable(w, r) == Diff(Cap, Diff(w, r))

-----------------------------------------------------------------------------

Init ==
    /\ slots = [s \in 0..Cap - 1 |-> NoFrame]
    /\ write = 0 /\ read = 0
    /\ ppc = "idle" /\ pn = 0 /\ pi = 0
    /\ cpc = "idle" /\ cw = 0 /\ cr = 0 /\ cn = 0
    /\ dst = << >> /\ got = << >>

(* rb_write up to its copy: the only foreign load is read_frames.  A call  *)
(* that accepts nothing returns 0 and changes nothing.                     *)
WriteBegin(n) ==
    LET frames == AtMost(n, Writable(write, read)) IN
    /\ ppc = "idle"
    /\ frames > 0
    /\ write + frames <= MaxFrames
    /\ ppc' = "copy" /\ pn' = frames /\ pi' = 0
    /\ UNCHANGED <<slots, write, read, consVars>>

(* One iteration of the copy loops. *)
WriteFrame ==
    /\ ppc = "copy" /\ pi < pn
    /\ slots' = [slots EXCEPT ![WriteSlot(write, pi)] = write + pi]
    /\ pi' = pi + 1
    /\ UNCHANGED <<write, read, ppc, pn, consVars>>

(* The release store of write_frames. *)
WritePublish ==
    /\ ppc = "copy" /\ pi = pn
    /\ write' = write + pn
    /\ ppc' = "idle"
    /\ UNCHANGED <<slots, read, pn, pi, consVars>>

Producer ==
    \/ \E n \in 1..MaxRequest : WriteBegin(n)
    \/ WriteFrame
    \/ WritePublish

-----------------------------------------------------------------------------

(* rb_read loads write_frames, then read_frames, clamps the request, and   *)
(* loads read_frames a second time as the index it copies from.            *)
ReadBegin(n) ==
    /\ cpc = "idle"
    /\ cpc' = "clamp" /\ cw' = write /\ cn' = n
    /\ UNCHANGED <<slots, write, read, prodVars, cr, dst, got>>

ReadClamp ==
    LET frames == AtMost(cn, Readable(cw, read)) IN
    /\ cpc = "clamp"
    /\ cpc' = IF frames = 0 THEN "idle" ELSE "index"
    /\ cn' = frames
    /\ UNCHANGED <<slots, write, read, prodVars, cw, cr, dst, got>>

ReadIndex ==
    /\ cpc = "index"
    /\ cpc' = "copy" /\ cr' = read /\ dst' = << >>
    /\ UNCHANGED <<slots, write, read, prodVars, cw, cn, got>>

ReadFrame ==
    /\ cpc = "copy" /\ Len(dst) < cn
    /\ dst' = Append(dst, slots[ReadSlot(cr, Len(dst))])
    /\ UNCHANGED <<slots, write, read, prodVars, cpc, cw, cr, cn, got>>

ReadPublish_NotStored ==
    /\ cpc = "copy" /\ Len(dst) = cn
    /\ got' = dst
    /\ cpc' = "idle"
    /\ UNCHANGED <<slots, write, read, prodVars, cw, cr, cn, dst>>

(* The release store of read_frames. *)
ReadPublish ==
    /\ cpc = "copy" /\ Len(dst) = cn
    /\ read' = cr + cn
    /\ got' = dst
    /\ cpc' = "idle"
    /\ UNCHANGED <<slots, write, prodVars, cw, cr, cn, dst>>

Consumer ==
    \/ \E n \in 1..MaxRequest : ReadBegin(n)
    \/ ReadClamp
    \/ ReadIndex
    \/ ReadFrame
    \/ ReadPublish

-----------------------------------------------------------------------------

(* rb_reset, called by the network thread when it sees the sender restart. *)
(* It loads the index the network thread owns and stores the other one.    *)
Reset ==
    /\ ppc = "idle"
    /\ read' = write
    /\ UNCHANGED <<slots, write, prodVars, consVars>>

(* The resets that fall between two calls of rb_read. *)
QuietReset == cpc = "idle" /\ Reset

Next == Producer \/ Consumer \/ QuietReset

Spec == Init /\ [][Next]_vars

(* The audio device keeps calling the callback and the callback runs to    *)
(* its end.  Nothing is assumed of the network thread.                     *)
FairSpec == Spec /\ WF_vars(Consumer)

(* Nothing in the code keeps rb_reset out of a running rb_read. *)
RacySpec == Init /\ [][Producer \/ Consumer \/ Reset]_vars

-----------------------------------------------------------------------------

(* The values the variables range over; no block is longer than the ring.  *)
TypeOK ==
    /\ slots \in [0..Cap - 1 -> Nat \cup {NoFrame}]
    /\ write \in Nat /\ read \in Nat
    /\ ppc \in {"idle", "copy"} /\ pn \in 0..Cap /\ pi \in 0..Cap
    /\ cpc \in {"idle", "clamp", "index", "copy"}
    /\ cw \in Nat /\ cr \in Nat /\ cn \in Nat
    /\ dst \in Seq(Nat \cup {NoFrame})
    /\ got \in Seq(Nat \cup {NoFrame})

(* The consumer never overtakes the producer and the producer never laps   *)
(* the consumer, though each clamps its request with an index of the other *)
(* that may be stale by the time it publishes.                             *)
IndexOrder == read <= write /\ write <= read + Cap

(* "A relaxed load races with no other writer": the read index a running   *)
(* rb_read works from is still the ring's.                                 *)
NoOtherWriter == cpc = "copy" => cr = read

(* The slots a copy in flight stores to and loads from. *)
Storing == IF ppc = "copy" THEN {WriteSlot(write, i) : i \in 0..pn - 1} ELSE {}
Loading == IF cpc = "copy" THEN {ReadSlot(cr, i) : i \in 0..cn - 1} ELSE {}

(* No data race: while both copies run they touch different slots of the   *)
(* shared buffer, so no frame the callback plays is torn.                  *)
NoSharedSlot == Storing \cap Loading = {}

(* The block a write has claimed fits beside everything unread. *)
ProducerClaim ==
    ppc = "copy" => /\ 0 < pn /\ pi <= pn
                    /\ write + pn <= read + Cap

(* The block a read has claimed is published, from the clamp that sizes it *)
(* to the store that releases it.                                          *)
ConsumerClaim ==
    /\ cpc = "clamp" => read <= cw /\ cw <= write
    /\ cpc \in {"index", "copy"} => 0 < cn /\ read + cn <= write
    /\ cpc = "copy" => cr = read /\ Len(dst) <= cn

(* Where the frames of the block being written end. *)
Stored == IF ppc = "copy" THEN write + pi ELSE write

(* Every frame published and not released, and every frame of the block    *)
(* being written so far, is in its slot.                                   *)
StoredIntact == \A k \in read..Stored - 1 : slots[k % Cap] = k

(* What a read has copied so far is the frames at the head, in order. *)
CopiedIntact ==
    cpc = "copy" => \A i \in 1..Len(dst) : dst[i] = cr + i - 1

(* The inductive invariant: the two threads' claims never meet because the *)
(* index each clamps with can only have moved in its favour since.         *)
RingInv ==
    /\ TypeOK
    /\ IndexOrder
    /\ ProducerClaim
    /\ ConsumerClaim
    /\ StoredIntact
    /\ CopiedIntact

(* The frames published and not released, read from their slots. *)
Queued == [i \in 1..write - read |-> slots[(read + i - 1) % Cap]]

(* The ring is the bounded queue its header describes, whatever the        *)
(* interleaving of the two threads.                                        *)
Abstract == INSTANCE FrameQueue WITH
                Capacity <- Cap, queue <- Queued, accepted <- write
IsFrameQueue == Abstract!Spec

(* A frame the network thread has published leaves the ring, played or     *)
(* dropped by a reset, even if the network thread stalls for ever in the   *)
(* middle of a later write.                                                *)
EveryFrameLeaves == \A k \in 0..MaxFrames : (k < write) ~> (k < read)
=============================================================================

------------------------------ MODULE Receiver -------------------------------
(***************************************************************************)
(* The two threads of the receiver in main.c without drift compensation:   *)
(* the network thread in rx_emit_packet and the audio device's thread in   *)
(* receiver_callback.  They share the ring and the plain int started.      *)
(*                                                                         *)
(* The ring is counted in blocks of samples.  An item of it is a block     *)
(* with the sequence number it stands for; a concealed one has the payload *)
(* Lost.  The callback's loads of both indices and its late store are      *)
(* steps of their own, so that a reset may fall between them.  What        *)
(* RingBuffer shows of the rest is used: the copies of the two threads     *)
(* touch different slots, and a write acts as if at one moment.            *)
(***************************************************************************)
EXTENDS Integers, Sequences

CONSTANTS
    SeqSpace,       \* 2^32
    RingCap,        \* blocks the ring holds: RX_RB_FRAMES
    IndexMod,       \* 2^64, the modulus of the uint64 indices
    Jitter,         \* st->jitter_target_frames, in blocks
    Period,         \* nframes of a callback, in blocks
    Lost,           \* a concealed block, or a NULL payload
    Nothing         \* no packet; nothing played

VARIABLES
    cur,            \* the packet rx_emit_packet is working on
    npc,            \* where the network thread is in rx_emit_packet
    fill,           \* blocks of the gap still to be concealed
    have, last,     \* have_last_seq, last_emitted_seq
    lost,           \* total_packets_lost
    filtered,       \* total_dups + total_reorders
    stored,         \* history: the blocks ever written to the ring; their
                    \* number is write_frames
    read,           \* read_frames
    started,        \* st->started
    cpc, avail,     \* where the callback is; the fill level it sampled
    cw, cr,         \* its loads of write_frames and read_frames
    cn,             \* rb_read's frames, after the clamp; these four are 0
                    \* where the code does not look at them any more
    heard,          \* history: sequence number last played since a reset
    overrun,        \* history: a block found the ring full since a reset
    offered,        \* history: blocks offered to the ring since it was last
                    \* read or reset
    resetSince,     \* history: the ring was reset since the callback began to
                    \* sample it
    raced           \* history: the ring's last reset fell inside an rb_read,
                    \* whose late store takes it back

netSide == <<cur, npc, fill, have, last, lost, filtered>>
reading == <<cw, cr, cn>>
audioSide == <<cpc, avail, reading, heard>>
ringSide == <<stored, read, started>>
history == <<overrun, offered, resetSince, raced>>
receiverVars == <<netSide, ringSide, audioSide, history>>

Seq32 == INSTANCE RxEmit

AtMost(n, bound) == IF n <= bound THEN n ELSE bound

(* a - b on uint64. *)
Diff(a, b) == (a - b) % IndexMod

write == Len(stored)

(* What the ring holds, oldest first. *)
ring == SubSeq(stored, read + 1, write)

-----------------------------------------------------------------------------

ReceiverInit ==
    /\ cur = Nothing /\ npc = "recv" /\ fill = 0
    /\ have = FALSE /\ last = 0 /\ lost = 0 /\ filtered = 0
    /\ stored = << >> /\ read = 0 /\ started = FALSE
    /\ cpc = "idle" /\ avail = 0 /\ cw = 0 /\ cr = 0 /\ cn = 0 /\ heard = Nothing
    /\ overrun = FALSE /\ offered = 0 /\ resetSince = FALSE /\ raced = FALSE

(* Mutant of HasRoom. *)
HasRoom_OneMore == Diff(RingCap + 1, Diff(write, read)) > 0

HasRoom == Diff(RingCap, Diff(write, read)) > 0

(* rb_write_interleaved of one block: a full ring takes nothing, and       *)
(* nobody looks at the result.                                             *)
Write(item) ==
    /\ IF HasRoom
       THEN stored' = Append(stored, item) /\ UNCHANGED overrun
       ELSE overrun' = TRUE /\ UNCHANGED stored
    /\ offered' = IF offered < Jitter THEN offered + 1 ELSE offered
    /\ UNCHANGED <<read, started, resetSince, raced>>

(* The receive loop hands packet p to rx_emit_packet, which first looks    *)
(* for a restart of the sender.                                            *)
EmitBegin(p) ==
    /\ npc = "recv"
    /\ cur' = p
    /\ IF Seq32!LooksRestarted(have, last, p.seq)
       THEN npc' = "reset" /\ have' = FALSE /\ last' = 0
       ELSE npc' = "filter" /\ UNCHANGED <<have, last>>
    /\ UNCHANGED <<fill, lost, filtered, ringSide, audioSide, history>>

(* rb_reset, wherever the callback is, then the store of started. *)
EmitReset ==
    /\ npc = "reset"
    /\ npc' = "restarted"
    /\ read' = write
    /\ overrun' = FALSE /\ offered' = 0 /\ resetSince' = TRUE /\ heard' = Nothing
    /\ raced' = (cpc \in {"clamp", "index", "copy"})
    /\ UNCHANGED <<cur, fill, have, last, lost, filtered, stored, started, cpc, avail, reading>>

EmitRestarted ==
    /\ npc = "restarted"
    /\ npc' = "filter"
    /\ started' = FALSE
    /\ UNCHANGED <<cur, fill, have, last, lost, filtered, stored, read, audioSide, history>>

Filtered == Seq32!IsCopy(have, last, cur.seq) \/ Seq32!IsOld(have, last, cur.seq)

(* A second copy or an older packet is counted and dropped. *)
EmitFiltered ==
    /\ npc = "filter" /\ Filtered
    /\ npc' = "recv" /\ cur' = Nothing
    /\ filtered' = filtered + 1
    /\ UNCHANGED <<fill, have, last, lost, ringSide, audioSide, history>>

(* The gap before the packet is measured and counted. *)
EmitGap ==
    /\ npc = "filter" /\ ~ Filtered
    /\ npc' = "fill"
    /\ fill' = Seq32!Missing(have, last, cur.seq)
    /\ lost' = lost + fill'
    /\ UNCHANGED <<cur, have, last, filtered, ringSide, audioSide, history>>

(* One concealed block for each missing packet. *)
EmitFill ==
    /\ npc = "fill" /\ fill > 0
    /\ fill' = fill - 1
    /\ Write([seq |-> (cur.seq - fill) % SeqSpace, pl |-> Lost])
    /\ UNCHANGED <<cur, npc, have, last, lost, filtered, audioSide>>

(* The packet's own block, concealed when FEC could not fill the slot. *)
EmitWrite ==
    /\ npc = "fill" /\ fill = 0
    /\ npc' = "recv" /\ cur' = Nothing
    /\ Write([seq |-> cur.seq, pl |-> cur.pl])
    /\ have' = TRUE /\ last' = cur.seq
    /\ lost' = IF cur.pl = Lost THEN lost + 1 ELSE lost
    /\ UNCHANGED <<fill, filtered, audioSide>>

EmitStep ==
    EmitReset \/ EmitRestarted \/ EmitFiltered \/ EmitGap \/ EmitFill \/ EmitWrite

-----------------------------------------------------------------------------

(* The callback samples the fill level: rb_available_read_frames loads     *)
(* write_frames, then read_frames.                                         *)
CallbackLevel ==
    /\ cpc = "idle"
    /\ cpc' = "level"
    /\ cw' = write
    /\ resetSince' = FALSE
    /\ UNCHANGED <<netSide, ringSide, avail, cr, cn, heard, overrun, offered, raced>>

CallbackSample ==
    /\ cpc = "level"
    /\ cpc' = "check"
    /\ avail' = Diff(cw, read) /\ cw' = 0
    /\ UNCHANGED <<netSide, ringSide, cr, cn, heard, history>>

(* Mutants of Primed. *)
Primed_OneShort == avail >= Jitter - 1
Primed_OneMore == avail > Jitter

Primed == avail >= Jitter

(* Not started and not enough in the ring: silence. *)
CallbackSilent ==
    /\ cpc = "check" /\ ~ started /\ ~ Primed
    /\ cpc' = "idle" /\ avail' = 0
    /\ UNCHANGED <<netSide, ringSide, reading, heard, history>>

CallbackPlay ==
    /\ cpc = "check"
    /\ started \/ Primed
    /\ cpc' = "read" /\ avail' = 0
    /\ started' = TRUE
    /\ UNCHANGED <<netSide, stored, read, reading, heard, history>>

(* rb_read of the callback's period: the load of write_frames, the load of *)
(* read_frames with the clamp, a second load of read_frames as the index   *)
(* to copy from, and the store that releases what was copied.              *)
CallbackRead ==
    /\ cpc = "read"
    /\ cpc' = "clamp"
    /\ cw' = write
    /\ UNCHANGED <<netSide, ringSide, avail, cr, cn, heard, history>>

CallbackClamp ==
    /\ cpc = "clamp"
    /\ cn' = AtMost(Period, Diff(cw, read)) /\ cw' = 0
    /\ cpc' = IF cn' = 0 THEN "done" ELSE "index"
    /\ UNCHANGED <<netSide, ringSide, avail, cr, heard, history>>

CallbackIndex ==
    /\ cpc = "index"
    /\ cpc' = "copy"
    /\ cr' = read
    /\ UNCHANGED <<netSide, ringSide, avail, cw, cn, heard, history>>

(* What was played is followed until a reset falls inside a read: what the *)
(* slots hold then is RingBuffer's business.                               *)
CallbackPublish ==
    /\ cpc = "copy"
    /\ cpc' = "done"
    /\ read' = cr + cn /\ cr' = 0
    /\ heard' = IF raced THEN Nothing ELSE stored[cr + cn].seq
    /\ offered' = 0
    /\ UNCHANGED <<netSide, stored, started, avail, cw, cn, overrun, resetSince, raced>>

(* When the ring ran short the rest is silence and playback waits for the  *)
(* jitter target again.                                                    *)
CallbackEnd ==
    /\ cpc = "done"
    /\ cpc' = "idle" /\ cn' = 0
    /\ started' = IF cn < Period THEN FALSE ELSE started
    /\ UNCHANGED <<netSide, stored, read, avail, cw, cr, heard, history>>

Callback ==
    \/ CallbackLevel \/ CallbackSample \/ CallbackSilent \/ CallbackPlay
    \/ CallbackRead \/ CallbackClamp \/ CallbackIndex \/ CallbackPublish \/ CallbackEnd

-----------------------------------------------------------------------------

ReceiverTypeOK ==
    /\ npc \in {"recv", "reset", "restarted", "filter", "fill"}
    /\ (npc = "recv") <=> (cur = Nothing)
    /\ fill \in 0..SeqSpace - 1 /\ last \in 0..SeqSpace - 1
    /\ lost \in Nat /\ filtered \in Nat
    /\ read \in Nat /\ (~ raced => read <= write /\ write <= read + RingCap)
    /\ cpc \in {"idle", "level", "check", "read", "clamp", "index", "copy", "done"}
    /\ avail \in 0..IndexMod - 1 /\ cw \in Nat /\ cr \in Nat /\ cn \in 0..Period
    /\ {have, started, overrun, resetSince, raced} \subseteq BOOLEAN
    /\ offered \in 0..Jitter

(* "So the timing stays aligned": what is played, what waits in the ring   *)
(* and what the network thread will write next are consecutive sequence    *)
(* numbers, each once, real or concealed, as long as the ring had room and *)
(* no reset fell inside a read.                                            *)
Next32(s) == (s + 1) % SeqSpace
TimelineAligned ==
    ~ overrun /\ ~ raced =>
        /\ \A i \in 1..Len(ring) - 1 : ring[i + 1].seq = Next32(ring[i].seq)
        /\ heard # Nothing /\ ring # << >> => ring[1].seq = Next32(heard)
        /\ npc = "recv" /\ have /\ ring # << >> => ring[Len(ring)].seq = last
        /\ npc = "recv" /\ have /\ ring = << >> => heard = last

(* What was played, what waits in the ring and what is being written have  *)
(* increasing sequence numbers: nothing is played twice or out of order,   *)
(* also when the fill of a gap finds the ring full and leaves holes.  Not  *)
(* so once a reset fell inside a read: its late store of the read index    *)
(* puts blocks from before the reset in front of the new ones.             *)
Timeline ==
    (IF heard = Nothing THEN << >> ELSE <<heard>>)
        \o [i \in DOMAIN ring |-> ring[i].seq]
        \o (IF npc = "fill" THEN <<cur.seq - fill>> ELSE << >>)
TimelineOrdered ==
    ~ raced => \A i \in 1..Len(Timeline) - 1 : Timeline[i] < Timeline[i + 1]

(* Playback starts only with the jitter target in the ring, unless the     *)
(* network thread has reset the ring under the callback.                   *)
StartsPrimed ==
    [][~ started /\ started' => Jitter <= Len(ring) \/ resetSince \/ raced]_receiverVars

(* Once the jitter target has been offered to the ring playback starts,    *)
(* unless the ring is reset first, or was reset inside a read.             *)
PlaybackStarts == (offered >= Jitter /\ ~ raced) ~> (started \/ offered < Jitter \/ raced)
=============================================================================

-------------------------------- MODULE Wire ---------------------------------
(***************************************************************************)
(* One stream at the level of bytes: blocks of frames are cut into packets *)
(* and packed, parity is computed over bytes, and the receiver unpacks     *)
(* what is in its one packet buffer into the frames it writes to the ring. *)
(* Every length is a count of bytes or frames, as in the code; the order   *)
(* of deliveries, which FecLink explores, is the order of sending here,    *)
(* and the ring, which Receiver explores, has room.                        *)
(*                                                                         *)
(* A byte is identified by the frame of the stream it belongs to and its   *)
(* place in that frame: channel by channel, the low byte first.  What a    *)
(* buffer holds is a set of cells <<position, frame, place>>; two cells at *)
(* one position are their XOR.                                             *)
(***************************************************************************)
EXTENDS Integers, Sequences, FiniteSets, SequencesExt

CONSTANTS
    GroupSize,      \* fec_group_size, when FEC is on
    SeqSpace,       \* 2^32
    Capacity,       \* ULLLAS_MTU_PAYLOAD - PCM_HEADER_SIZE
    Fade,           \* s->fade_frames
    Setups,         \* the formats and buffers of both sides
    MaxFrames,      \* bound: frames captured
    MaxLost,        \* bound: packets lost
    MaxStray,       \* bound: packets of others
    MaxFailed,      \* bound: hard errors of sendto
    Lost, NoPacket

(* A setup has                                                             *)
(*   width       bytes of a frame, the same on both sides                  *)
(*   fec         FEC is on, on both sides                                  *)
(*   txBuffer    the sender's audio buffer, in frames                      *)
(*   rxBuffer    the receiver's                                            *)
(*   blocks      the lengths of the sender's callbacks                     *)
(* With FEC udp_sender_init takes only a buffer that fits a packet.  What  *)
(* else is assumed with FEC the code does not check: that no callback is   *)
(* longer than the buffer, and that the receiver's buffer is not smaller   *)
(* than the sender's and fits a packet.  Beyond that it copies past the    *)
(* end of its buffers.                                                     *)
ASSUME SizesAssumption ==
    /\ GroupSize \in Nat \ {0} /\ SeqSpace \in Nat \ {0}
    /\ {Capacity, Fade, MaxFrames, MaxLost, MaxStray, MaxFailed} \subseteq Nat

ASSUME SetupsAssumption ==
    \A s \in Setups :
        /\ s.width \in 1..Capacity /\ s.fec \in BOOLEAN
        /\ s.txBuffer \in Nat /\ s.rxBuffer \in Nat /\ s.blocks \subseteq Nat
        /\ s.fec => /\ s.txBuffer <= Capacity \div s.width
                    /\ \A b \in s.blocks : b <= s.txBuffer
                    /\ s.txBuffer <= s.rxBuffer /\ s.rxBuffer * s.width <= Capacity

ASSUME NoPacketAssumption ==
    NoPacket \notin [seq : Nat, parity : BOOLEAN, ns : Nat, pl : SUBSET (Int \X Int \X Int)]

VARIABLES
    setup,
    sequence, timestamp,    \* tx->sequence, tx->timestamp
    block, offset,          \* the callback's block and how much of it is sent
    inGroup, acc,           \* tx->fec
    wire,                   \* packets sent and not yet delivered
    packetBuf,              \* the payload part of rx->packet_buf
    strays,                 \* number of packets of others
    started, head, slot, expected, pkt, out,    \* FecRx
    book,                   \* the sequence numbers of rx_emit_packet
    lastFrame,              \* st->plc.last_frame
    heard,                  \* history: the frames written to the ring
    sent, dropped,          \* history: all packets sent; those lost
    failures                \* history: pieces given up after a hard error

senderVars == <<sequence, timestamp, block, offset, inGroup, acc, sent, failures>>
fecVars == <<started, head, slot, expected, pkt, out>>
emitVars == <<book, lastFrame, heard>>
vars == <<setup, senderVars, wire, packetBuf, strays, fecVars, emitVars, dropped>>

Rx == INSTANCE FecRx WITH MaxEmitted <- SeqSpace
Seq32 == INSTANCE RxEmit

-----------------------------------------------------------------------------

width == setup.width
AtMost(n, bound) == IF n > bound THEN bound ELSE n

(* udp_compute_max_samples_per_packet. *)
MaxPerPacket == Capacity \div width

(* The bytes of a frame, and the first n bytes of a buffer. *)
FrameBytes(f) == {<<k, f, k>> : k \in 0..width - 1}
First(cells, n) == {c \in cells : c[1] < n}
Beyond(cells, n) == {c \in cells : c[1] >= n}
Xor(a, b) == (a \ b) \cup (b \ a)

(* pcm_pack of n frames from frame f on. *)
PcmPack(f, n) == {<<i * width + k, f + i, k>> : i \in 0..n - 1, k \in 0..width - 1}

(* pcm_unpack_interleaved of n frames. *)
PcmUnpack(cells, n) ==
    [i \in 1..n |-> {<<c[1] - (i - 1) * width, c[2], c[3]>> :
                        c \in Beyond(First(cells, i * width), (i - 1) * width)}]

(* What both threads' state is when the processes have started. *)
Init ==
    /\ setup \in Setups
    /\ sequence = 0 /\ timestamp = 0 /\ block = 0 /\ offset = 0
    /\ inGroup = 0 /\ acc = {}
    /\ wire = << >> /\ packetBuf = {} /\ strays = 0
    /\ Rx!FecInit
    /\ book = Seq32!Fresh /\ lastFrame = {} /\ heard = << >>
    /\ sent = {} /\ dropped = {} /\ failures = 0

-----------------------------------------------------------------------------

(* The audio callback brings a block. *)
CallbackBlock ==
    /\ offset = block /\ wire = << >> /\ out = << >> /\ pkt = NoPacket
    /\ block' \in setup.blocks
    /\ timestamp' = timestamp + block /\ offset' = 0
    /\ timestamp' + block' <= MaxFrames
    /\ UNCHANGED <<setup, sequence, inGroup, acc, sent, failures>>
    /\ UNCHANGED <<wire, packetBuf, strays, fecVars, emitVars, dropped>>

Packet(s, isParity, n, cells) == [seq |-> s, parity |-> isParity, ns |-> n, pl |-> cells]

(* Mutants of the next two definitions: the slice starts at the block's    *)
(* start; the last piece is not cut to what is left.                       *)
Slice_FromStart(n) == PcmPack(timestamp, n)
Chunk_Full == MaxPerPacket

(* The samples of the next piece of the block. *)
Slice(n) == PcmPack(timestamp + offset, n)
Chunk == AtMost(block - offset, MaxPerPacket)

DataPacket == Packet(sequence, FALSE, Chunk, Slice(Chunk))

(* Mutant of Accumulated: only what is left of the buffer is added. *)
Accumulated_Overwritten(cells) == First(cells, setup.txBuffer * width)

(* fec_tx_on_data: what exceeds the buffer of the accumulator is left out. *)
Accumulated(cells) == Xor(acc, First(cells, setup.txBuffer * width))

(* The parity is sent with the length of the packet that closes the group. *)
ParityPacket ==
    Packet(sequence + 1, TRUE, Chunk, First(Accumulated(Slice(Chunk)), Chunk * width))

ClosesGroup == inGroup + 1 >= GroupSize

(* emit_data_packet. *)
SendData ==
    /\ wire' = <<DataPacket>> /\ sequence' = sequence + 1
    /\ inGroup' = IF setup.fec THEN inGroup + 1 ELSE 0
    /\ acc' = IF setup.fec THEN Accumulated(Slice(Chunk)) ELSE {}

SendDataAndParity ==
    /\ wire' = <<DataPacket, ParityPacket>> /\ sequence' = sequence + 2
    /\ inGroup' = 0 /\ acc' = {}

(* The loop of udp_sender_send_planar sends the next piece of the block.   *)
SendPiece ==
    /\ offset < block /\ wire = << >> /\ out = << >> /\ pkt = NoPacket
    /\ offset' = offset + Chunk
    /\ IF setup.fec /\ ClosesGroup THEN SendDataAndParity ELSE SendData
    /\ sent' = sent \cup ToSet(wire')
    /\ UNCHANGED <<setup, timestamp, block, packetBuf, strays, fecVars, emitVars, dropped, failures>>

(* A hard error of sendto: the piece uses no number and is not in a group, *)
(* and the loop goes on after it.                                          *)
SendFails ==
    /\ offset < block /\ wire = << >> /\ out = << >> /\ pkt = NoPacket
    /\ failures < MaxFailed /\ failures' = failures + 1
    /\ offset' = offset + Chunk
    /\ UNCHANGED <<setup, sequence, timestamp, block, inGroup, acc, sent>>
    /\ UNCHANGED <<wire, packetBuf, strays, fecVars, emitVars, dropped>>

Lose ==
    /\ wire # << >> /\ Cardinality(dropped) < MaxLost
    /\ wire' = Tail(wire) /\ dropped' = dropped \cup {Head(wire)}
    /\ UNCHANGED <<setup, senderVars, packetBuf, strays, fecVars, emitVars>>

-----------------------------------------------------------------------------

(* udp_receiver_recv: a packet overwrites the front of the one buffer. *)
Received(p) == p.pl \cup Beyond(packetBuf, p.ns * width)

(* fec_rx_process copies payload_size bytes, however many were received. *)
ReceiveFec(p) ==
    /\ setup.fec
    /\ Rx!Process([p EXCEPT !.pl = First(packetBuf', setup.rxBuffer * width)])

(* Without FEC a data packet is emitted as it is, and parity ignored. *)
ReceivePlain(p) ==
    /\ ~ setup.fec
    /\ out' = IF p.parity THEN << >> ELSE <<[seq |-> p.seq, ns |-> p.ns, pl |-> packetBuf']>>
    /\ UNCHANGED <<started, head, slot, expected, pkt>>

(* One round of the receive loop. *)
Receive ==
    /\ wire # << >> /\ pkt = NoPacket /\ out = << >>
    /\ packetBuf' = Received(Head(wire))
    /\ ReceiveFec(Head(wire)) \/ ReceivePlain(Head(wire))
    /\ wire' = Tail(wire)
    /\ UNCHANGED <<setup, senderVars, strays, emitVars, dropped>>

(* A packet of another sender, with another magic or number of channels:   *)
(* udp_receiver_recv drops it, but it has been in the buffer.              *)
ReceiveStray ==
    /\ strays < MaxStray /\ pkt = NoPacket /\ out = << >>
    /\ strays' = strays + 1
    /\ packetBuf' = {<<k, MaxFrames, k>> : k \in 0..Capacity - 1}
    /\ UNCHANGED <<setup, senderVars, wire, fecVars, emitVars, dropped>>

(* The window is worked on while no emission waits. *)
FecStep ==
    /\ out = << >> /\ Rx!FecStep
    /\ UNCHANGED <<setup, senderVars, wire, packetBuf, strays, emitVars, dropped>>

(* st->unpack_scratch_frames. *)
Scratch == IF MaxPerPacket < setup.rxBuffer THEN setup.rxBuffer ELSE MaxPerPacket

(* Mutant of FillLength: a lost packet is as long as the receiver's buffer. *)
FillLength_Buffer(ns) == setup.rxBuffer

(* The length of a concealed packet. *)
FillLength(ns) == AtMost(IF ns = 0 THEN setup.rxBuffer ELSE ns, Scratch)

Real(cells) == [real |-> TRUE, data |-> cells, gain |-> Fade]

(* plc_conceal, n frames at a time: the last frame fades, in every         *)
(* concealed packet anew.                                                  *)
PlcConceal(n, packets) ==
    [i \in 1..packets * n |->
        LET k == (i - 1) % n
        IN  [real |-> FALSE, data |-> lastFrame, gain |-> IF k < Fade THEN Fade - k ELSE 0]]

(* Concealment for the packets missing before emission e. *)
Filled(e) ==
    PlcConceal(FillLength(e.ns), Seq32!Missing(book.have, book.last, e.seq))

(* Mutant of PlcObserve: the first frame of the packet is kept. *)
PlcObserve_First(frames) == IF frames = << >> THEN lastFrame ELSE frames[1]

(* plc_observe_packet: the last frame of a packet is kept. *)
PlcObserve(frames) == IF frames = << >> THEN lastFrame ELSE frames[Len(frames)]

(* rx_emit_packet for the next emission. *)
EmitLost(e) ==
    /\ e.pl = Lost
    /\ heard' = heard \o Filled(e) \o PlcConceal(FillLength(e.ns), 1)
    /\ UNCHANGED lastFrame

(* Mutant of UnpackedLength: what follows the packet in its buffer too. *)
UnpackedLength_Buffer(ns) == setup.rxBuffer

(* The frames unpacked from a packet. *)
UnpackedLength(ns) == AtMost(ns, Scratch)

EmitData(e) ==
    LET frames == PcmUnpack(e.pl, UnpackedLength(e.ns)) IN
    /\ e.pl # Lost
    /\ heard' = heard \o Filled(e) \o [i \in DOMAIN frames |-> Real(frames[i])]
    /\ lastFrame' = PlcObserve(frames)

Emit ==
    /\ out # << >>
    /\ EmitLost(Head(out)) \/ EmitData(Head(out))
    /\ book' = Seq32!EmitOne(book, Head(out))
    /\ out' = Tail(out)
    /\ UNCHANGED <<setup, senderVars, wire, packetBuf, strays, started, head, slot, expected, pkt, dropped>>

Next ==
    \/ CallbackBlock \/ SendPiece \/ SendFails \/ Lose
    \/ Receive \/ ReceiveStray \/ FecStep \/ Emit

Spec == Init /\ [][Next]_vars

-----------------------------------------------------------------------------

(* The buffers hold no more than their size, a piece is within its block,  *)
(* and every payload is within a packet.                                   *)
TypeOK ==
    /\ setup \in Setups
    /\ offset \in 0..block /\ timestamp + block <= MaxFrames
    /\ \A p \in sent : p.ns \in 1..MaxPerPacket
    /\ \A c \in packetBuf : c[1] < Capacity
    /\ \A c \in acc : c[1] < setup.txBuffer * width

Frames == 0..MaxFrames - 1
Data == {p \in sent : ~ p.parity}

(* All data packets have one length. *)
Uniform == Cardinality({p.ns : p \in Data}) <= 1

(* Every frame written to the ring as received is a frame that was sent,   *)
(* with all its bytes and no others, whatever the packet buffer held       *)
(* before; so is every frame rebuilt from parity, when all packets have    *)
(* one length.                                                             *)
HeardWasSent ==
    (setup.fec /\ dropped # {} => Uniform) =>
        \A h \in ToSet(heard) : h.real => \E f \in Frames : h.data = FrameBytes(f)

(* The frames heard before the i-th that were received. *)
RealBefore(i) == Cardinality({j \in 1..i - 1 : heard[j].real})

Quiet == offset = block /\ wire = << >> /\ out = << >> /\ pkt = NoPacket

(* However a block is cut and however long the blocks are, with FEC or     *)
(* without, the frames of a stream without loss or hard error are heard    *)
(* once each and in order, and all of them when no FEC window is waiting.  *)
(* Without FEC nothing is concealed between them.                          *)
EachFrameOnce ==
    dropped = {} /\ failures = 0 =>
        /\ \A i \in DOMAIN heard :
                IF heard[i].real THEN heard[i].data = FrameBytes(RealBefore(i)) ELSE setup.fec
        /\ Quiet /\ inGroup = 0 => RealBefore(Len(heard) + 1) = timestamp + block

(* "So the timing stays aligned": without FEC, with packets of one length  *)
(* and no hard error at the sender, received frames are heard as many      *)
(* frames apart as they were captured, however many packets are lost.      *)
(* After a hard error they are not: the piece used no number, and nothing  *)
(* fills its place.                                                        *)
TimelineKept ==
    ~ setup.fec /\ Uniform /\ failures = 0 =>
        \A i, j \in DOMAIN heard :
            heard[i].real /\ heard[j].real =>
                \A f, g \in Frames :
                    heard[i].data = FrameBytes(f) /\ heard[j].data = FrameBytes(g) => j - i = g - f

(* What is concealed continues from the last real frame before it. *)
ConcealedFromLast ==
    \A i \in DOMAIN heard :
        ~ heard[i].real =>
            LET before == {j \in 1..i - 1 : heard[j].real} IN
            heard[i].data = IF before = {} THEN {} ELSE heard[Max(before)].data

GroupOf(p) == p.seq \div (GroupSize + 1)
Complete(g) == Cardinality({p \in sent : GroupOf(p) = g}) = GroupSize + 1

(* A group that lost no more than one packet is heard with every frame and *)
(* every byte, when all packets have one length, be the receiver's buffer  *)
(* longer than the sender's or not.                                        *)
GroupRebuilt ==
    setup.fec /\ Uniform /\ Quiet =>
        \A p \in Data :
            /\ Complete(GroupOf(p)) /\ GroupOf(p) * (GroupSize + 1) < head
            /\ Cardinality({q \in dropped : GroupOf(q) = GroupOf(p)}) <= 1
            => \A c \in p.pl : \E h \in ToSet(heard) : h.real /\ h.data = FrameBytes(c[2])
=============================================================================

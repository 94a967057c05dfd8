------------------------------ MODULE UdpSender ------------------------------
(***************************************************************************)
(* The sender of udp_tx.c with the parity accumulator of fec.c.  The audio *)
(* callback hands it one chunk of samples at a time (a block, or one of    *)
(* the MTU-sized pieces a block is split into); every chunk becomes a data *)
(* packet, and with FEC on every GroupSize data packets are followed by a  *)
(* parity packet.                                                          *)
(*                                                                         *)
(* A chunk is identified by the incarnation of the sender that sent it and *)
(* its position in the sample stream, which is the header's timestamp in   *)
(* units of chunks.  A payload is the set of chunks it is the XOR of: XOR  *)
(* of payloads is the symmetric difference of the sets.                    *)
(***************************************************************************)
EXTENDS Integers, Sequences

CONSTANTS
    GroupSize,      \* tx->fec_group_size, 0 when FEC is off
    SeqSpace        \* 2^32, the modulus of the packet sequence number

ASSUME GroupAssumption == GroupSize \in Nat
ASSUME SeqAssumption == SeqSpace \in Nat \ {0}

VARIABLES
    era,            \* incarnation of the sender process
    sequence,       \* tx->sequence
    timestamp,      \* tx->timestamp
    inGroup,        \* tx->fec.received_in_group
    acc,            \* tx->fec.xor_buf
    net,            \* packets in flight, in the order they were sent
    sent            \* history: every sequence number used, with what it carries

senderVars == <<era, sequence, timestamp, inGroup, acc, sent>>

-----------------------------------------------------------------------------

Xor(a, b) == (a \ b) \cup (b \ a)
Succ(s) == (s + 1) % SeqSpace

(* The header and payload of a packet, num_samples being one chunk.  The   *)
(* receiver does not see the era.                                          *)
Packet(s, isParity, payload) ==
    [seq |-> s, parity |-> isParity, ns |-> 1, pl |-> payload, era |-> era]

Chunk == <<era, timestamp>>
DataPacket == Packet(sequence, FALSE, {Chunk})

ParityPayload == Xor(acc, {Chunk})
ParityPacket == Packet(Succ(sequence), TRUE, ParityPayload)

(* Mutant of ClosesGroup. *)
ClosesGroup_OneLate == GroupSize > 0 /\ inGroup >= GroupSize

(* fec_tx_on_data closes the group with this packet. *)
ClosesGroup == GroupSize > 0 /\ inGroup + 1 >= GroupSize

SenderInit ==
    /\ era = 0 /\ sequence = 0 /\ timestamp = 0
    /\ inGroup = 0 /\ acc = {}
    /\ net = << >> /\ sent = {}

(* What the kernel has taken of packet p. *)
Handed(taken, p) == IF taken THEN <<p>> ELSE << >>

(* Mutants of the two definitions below: a parity packet the kernel        *)
(* refused does not use its number; the accumulator is not cleared.        *)
NumberAfterParity_Reused(parityTaken) ==
    IF parityTaken THEN Succ(Succ(sequence)) ELSE Succ(sequence)
ClearedAcc_NotCleared(parityTaken) == ParityPayload

(* The parity packet uses its number whether it was sent or not. *)
NumberAfterParity(parityTaken) == Succ(Succ(sequence))

(* fec_tx_clear_after_emit, called whether the parity was sent or not. *)
ClearedAcc(parityTaken) == {}

(* The data packet that closes a group, then the group's parity packet.    *)
(* The kernel takes each or answers EWOULDBLOCK; a hard error of the       *)
(* parity's send has the effect of EWOULDBLOCK.                            *)
SendClosing(taken, parityTaken) ==
    /\ ClosesGroup
    /\ sequence' = NumberAfterParity(parityTaken)
    /\ inGroup' = 0 /\ acc' = ClearedAcc(parityTaken)
    /\ net' = net \o Handed(taken, DataPacket) \o Handed(parityTaken, ParityPacket)
    /\ sent' = sent \cup {DataPacket, ParityPacket}

(* Any other data packet. *)
SendWithinGroup(taken) ==
    /\ ~ ClosesGroup
    /\ sequence' = Succ(sequence)
    /\ inGroup' = IF GroupSize > 0 THEN inGroup + 1 ELSE inGroup
    /\ acc' = IF GroupSize > 0 THEN ParityPayload ELSE acc
    /\ net' = net \o Handed(taken, DataPacket)
    /\ sent' = sent \cup {DataPacket}

(* A hard error on the data packet: the chunk is gone, and neither the     *)
(* sequence number nor the group knows.                                    *)
SendFails == UNCHANGED <<sequence, inGroup, acc, net, sent>>

(* emit_data_packet for the next chunk. *)
SendChunk(taken, parityTaken) ==
    /\ timestamp' = timestamp + 1
    /\ SendClosing(taken, parityTaken) \/ SendWithinGroup(taken)
    /\ UNCHANGED era

SendRefused ==
    /\ timestamp' = timestamp + 1
    /\ SendFails
    /\ UNCHANGED era

(* The sender process is started again: udp_sender_init. *)
SenderRestart ==
    /\ era' = era + 1
    /\ sequence' = 0 /\ timestamp' = 0
    /\ inGroup' = 0 /\ acc' = {}
    /\ UNCHANGED <<net, sent>>

-----------------------------------------------------------------------------

(* The position of the sequence number in its group is the number of data  *)
(* packets in the accumulator, whatever the kernel refused, as long as the *)
(* number has not wrapped.  The receiver's windows rely on it.             *)
GroupAligned == GroupSize > 0 => sequence % (GroupSize + 1) = inGroup

(* A parity packet is the XOR of exactly the data packets of its group,    *)
(* those before it in the sequence, also when the kernel refused some or   *)
(* a hard error left some chunk out.                                       *)
ParityCoversGroup ==
    \A p \in sent : p.parity =>
        p.pl = UNION {d.pl : d \in {q \in sent : /\ q.era = p.era /\ ~ q.parity
                                                /\ q.seq \in p.seq - GroupSize..p.seq - 1}}
=============================================================================

-------------------------------- MODULE FecRx --------------------------------
(***************************************************************************)
(* The receive side of fec.c: a window of GroupSize data packets and their *)
(* parity packet, filled by sequence number and given to rx_emit_packet a  *)
(* whole window at a time, after one missing data packet has been          *)
(* recovered from the parity.                                              *)
(*                                                                         *)
(* The window is emitted slot by slot but always whole, so head_idx turns  *)
(* round to where it was: a slot is named by its offset from the head.     *)
(* A payload is the set of chunks it is the XOR of (UdpSender).            *)
(***************************************************************************)
EXTENDS Integers, Sequences, FiniteSets

CONSTANTS
    GroupSize,      \* st->group_size
    SeqSpace,         \* 2^32
    MaxEmitted,     \* bound: emissions the history keeps
    Lost,           \* emitted for a slot that stayed empty: a NULL payload
    NoPacket        \* no packet is being processed

VARIABLES
    started, head, slot,    \* the window of FecRxState
    expected,               \* expected_num_samples, 0 until the first packet
    pkt,                    \* the packet fec_rx_process is working on
    out                     \* history: what emit was called with, in order

fecVars == <<started, head, slot, expected, pkt, out>>

-----------------------------------------------------------------------------

WindowSize == GroupSize + 1
DataOffsets == 0..GroupSize - 1
Empty == [kind |-> "empty", ns |-> 0, pl |-> {}]
EmptyWindow == [i \in 0..GroupSize |-> Empty]

PlusSeq(s, n) == (s + n) % SeqSpace
GroupFirst(s) == s - (s % WindowSize)

(* The XOR of the payloads in the slots S: what an odd number of them hold. *)
XorOf(w, S) ==
    {c \in UNION {w[i].pl : i \in S} : Cardinality({i \in S : c \in w[i].pl}) % 2 = 1}

Missing(w) == {i \in DataOffsets : w[i].kind = "empty"}

(* Mutants of the next two definitions. *)
Recoverable_ParityLast(w) == w[GroupSize].kind = "parity" /\ Missing(w) = {GroupSize - 1}
Sources_DataOnly(w) == DataOffsets \ Missing(w)

(* Parity is there and exactly one data slot is empty. *)
Recoverable(w) == w[GroupSize].kind = "parity" /\ Cardinality(Missing(w)) = 1

(* The slots the missing packet is rebuilt from. *)
Sources(w) == DOMAIN w \ Missing(w)

(* try_recover_group.  A rebuilt packet is given the expected length. *)
Recover(w) ==
    IF Recoverable(w)
    THEN [i \in DOMAIN w |->
            IF i \in Missing(w)
            THEN [kind |-> "data", ns |-> expected, pl |-> XorOf(w, Sources(w))]
            ELSE w[i]]
    ELSE w

(* emit_head_slot: data is emitted, an empty slot is reported lost. *)
Emission(h, w, i) ==
    IF w[i].kind = "data" THEN [seq |-> PlusSeq(h, i), ns |-> w[i].ns, pl |-> w[i].pl]
                          ELSE [seq |-> PlusSeq(h, i), ns |-> expected, pl |-> Lost]

(* emit_head_slot for every slot of a window in turn; parity is dropped.   *)
Emissions(h, w) ==
    LET slots    == {i \in DOMAIN w : w[i].kind # "parity"}
        Place(i) == Cardinality({j \in slots : j <= i})
    IN  [n \in 1..Cardinality(slots) |->
            Emission(h, w, CHOOSE i \in slots : Place(i) = n)]

(* The history of emissions. *)
Log(es) == IF Len(out) + Len(es) <= MaxEmitted THEN out \o es ELSE out

(* Recover, emit and clear the window w at the head, and move on. *)
FlushWindow(w) ==
    /\ out' = Log(Emissions(head, Recover(w)))
    /\ slot' = EmptyWindow
    /\ head' = PlusSeq(head, WindowSize)

FecInit ==
    /\ started = FALSE /\ head = 0 /\ slot = EmptyWindow
    /\ expected = 0 /\ pkt = NoPacket /\ out = << >>

-----------------------------------------------------------------------------

(* The first packet aligns the window with the group it is in. *)
HeadFor(p) == IF started THEN head ELSE GroupFirst(p.seq)
CurrentWindow == IF started THEN slot ELSE EmptyWindow

(* The first packet, data or parity, tells the length of all. *)
Expect(p) == expected' = IF expected = 0 THEN p.ns ELSE expected

(* Mutants of the two tests below: any late packet is taken for a restart; *)
(* the packet at the head is taken for a late one.                         *)
FarBehind_AnyLate(p) == p.seq < HeadFor(p)
Behind_HeadToo(p) == p.seq <= HeadFor(p)

(* A number more than four windows behind the head: the sender restarted. *)
FarBehind(p) == PlusSeq(p.seq, 4 * WindowSize) < HeadFor(p)

(* Any other number behind the head: a late packet. *)
Behind(p) == p.seq < HeadFor(p)

(* fec_rx_process(p) up to its loop: a restart flushes the window and      *)
(* starts it again at the packet's group, a late packet is dropped.        *)
ProcessRestart(p) ==
    /\ FarBehind(p)
    /\ out' = Log(Emissions(HeadFor(p), Recover(CurrentWindow)))
    /\ head' = GroupFirst(p.seq) /\ slot' = EmptyWindow
    /\ started' = TRUE /\ pkt' = p
    /\ Expect(p)

ProcessLate(p) ==
    /\ ~ FarBehind(p) /\ Behind(p)
    /\ Expect(p)
    /\ UNCHANGED <<started, head, slot, pkt, out>>

ProcessNext(p) ==
    /\ ~ FarBehind(p) /\ ~ Behind(p)
    /\ head' = HeadFor(p) /\ slot' = CurrentWindow
    /\ started' = TRUE /\ pkt' = p
    /\ Expect(p)
    /\ UNCHANGED out

Process(p) ==
    /\ pkt = NoPacket
    /\ ProcessRestart(p) \/ ProcessLate(p) \/ ProcessNext(p)

(* The loop: windows are finished until the packet's number fits. *)
Fits(s) == s < PlusSeq(head, WindowSize)

AdvanceWindow ==
    /\ pkt # NoPacket
    /\ ~ Fits(pkt.seq)
    /\ FlushWindow(slot)
    /\ UNCHANGED <<started, expected, pkt>>

Offset == (pkt.seq - head) % SeqSpace

(* The second copy of a packet is ignored. *)
IgnoreCopy ==
    /\ pkt # NoPacket
    /\ Fits(pkt.seq)
    /\ slot[Offset].kind # "empty"
    /\ pkt' = NoPacket
    /\ UNCHANGED <<started, head, slot, expected, out>>

(* A packet is stored in its slot; the one in the last slot finishes the   *)
(* window.                                                                 *)
StorePacket ==
    LET kind   == IF pkt.parity THEN "parity" ELSE "data"
        filled == [slot EXCEPT ![Offset] = [kind |-> kind, ns |-> pkt.ns, pl |-> pkt.pl]]
    IN
    /\ pkt # NoPacket
    /\ Fits(pkt.seq)
    /\ slot[Offset].kind = "empty"
    /\ IF Offset = GroupSize THEN FlushWindow(filled)
                             ELSE slot' = filled /\ UNCHANGED <<head, out>>
    /\ pkt' = NoPacket
    /\ UNCHANGED <<started, expected>>

FecStep == AdvanceWindow \/ IgnoreCopy \/ StorePacket
=============================================================================

------------------------------- MODULE FecLink -------------------------------
(***************************************************************************)
(* A sender with FEC, the network, and the receiver's FEC window.  Only    *)
(* the receive loop of run_receiver calls fec_rx_process, so the window    *)
(* has one caller; the sender and the network interleave with it.          *)
(***************************************************************************)
EXTENDS Stream, TLC

CONSTANTS MaxEmitted, Lost, NoPacket

ASSUME FecAssumption == GroupSize > 0 /\ MaxEmitted \in Nat
ASSUME NoPacketAssumption ==
    NoPacket \notin [seq : Nat, parity : BOOLEAN, ns : Nat, pl : SUBSET (Nat \X Nat), era : Nat]

VARIABLES
    started, head, slot, expected, pkt, out,    \* FecRx
    inTime          \* history: packets delivered before their group was over

Rx == INSTANCE FecRx

vars == <<streamVars, started, head, slot, expected, pkt, out, inTime>>

-----------------------------------------------------------------------------

GroupOf(p) == <<p.era, p.seq \div (GroupSize + 1)>>
Later(g, h) == g[1] > h[1] \/ (g[1] = h[1] /\ g[2] > h[2])

Init ==
    /\ StreamInit
    /\ Rx!FecInit
    /\ inTime = {}

(* A group is over for the receiver when its parity packet or a packet of  *)
(* a later group has arrived.                                              *)
IsOver(g) ==
    \E q \in inTime : Later(GroupOf(q), g) \/ (q.parity /\ GroupOf(q) = g)

(* The receive loop takes a packet off the socket. *)
Receive ==
    \E i \in Arriving :
        /\ Arrive(i)
        /\ Rx!Process(net[i])
        /\ inTime' = IF IsOver(GroupOf(net[i])) THEN inTime ELSE inTime \cup {net[i]}

Next ==
    \/ StreamStep /\ UNCHANGED <<started, head, slot, expected, pkt, out, inTime>>
    \/ Receive
    \/ Rx!FecStep /\ UNCHANGED <<streamVars, inTime>>

Spec == Init /\ [][Next]_vars

(* The receive thread finishes the packet it is working on. *)
FairSpec == Spec /\ WF_vars(Rx!FecStep /\ UNCHANGED <<streamVars, inTime>>)

-----------------------------------------------------------------------------

(* Sequence numbers stay below the wrap, no group is longer than its size, *)
(* and the window keeps its shape.                                         *)
TypeOK ==
    /\ sequence \in 0..SeqSpace - 1 /\ timestamp \in 0..max.chunks
    /\ inGroup \in 0..GroupSize - 1
    /\ head \in 0..SeqSpace - 1
    /\ DOMAIN slot = 0..GroupSize
    /\ \A i \in DOMAIN slot : slot[i].kind \in {"empty", "data", "parity"}
    /\ pkt \in sent \cup {NoPacket}
    /\ \A i \in DOMAIN out : out[i].seq \in 0..SeqSpace - 1

(* A number more than four windows behind the head is exactly what the     *)
(* first packet of a restarted sender has (fec.c: sender restart / large   *)
(* backwards jump): no packet that is merely late is taken for one, and no *)
(* restart is missed.                                                      *)
TellsRestarts ==
    \A i \in Arriving :
        started /\ pkt = NoPacket =>
            (Rx!FarBehind(net[i]) <=> ~ \E q \in inTime : q.era = era)

(* Whatever is emitted as audio, received or rebuilt from parity, is the   *)
(* chunk the sender gave that sequence number, bit for bit.                *)
EmittedWasSent ==
    \A i \in DOMAIN out : out[i].pl # Lost =>
        \E d \in sent : ~ d.parity /\ d.seq = out[i].seq /\ d.pl = out[i].pl

ChunkAt(i) == CHOOSE c \in out[i].pl : TRUE

(* Chunks are emitted in the order they were sampled and no chunk twice,   *)
(* under loss, duplication and overtaking.                                 *)
EmittedInOrder ==
    \A i, j \in DOMAIN out :
        i < j /\ out[i].pl # Lost /\ out[j].pl # Lost =>
            Later(ChunkAt(j), ChunkAt(i))

Emitted(d) == \E i \in DOMAIN out : out[i].pl = d.pl
SentGroup(g) == {p \in sent : GroupOf(p) = g}
WindowPassed(g) ==
    \/ \E q \in inTime : q.era > g[1] /\ pkt = NoPacket
    \/ started /\ g[1] = era /\ (g[2] + 1) * (GroupSize + 1) <= head

(* A group of which no more than one packet was lost, or overtaken by its  *)
(* parity or a later group, is emitted complete when its window is passed. *)
OneLossRecovered ==
    \A g \in {GroupOf(p) : p \in sent} :
        /\ WindowPassed(g)
        /\ Cardinality(SentGroup(g)) = GroupSize + 1
        /\ Cardinality(SentGroup(g) \ inTime) <= 1
        => \A d \in SentGroup(g) : d.parity \/ Emitted(d)

(* The chunks every scenario has. *)
WatchedChunks == {n \in 0..SeqSpace - 1 : \A s \in Scenarios : n < s.chunks}

(* A packet that arrived in time is emitted once a packet of a later group *)
(* has arrived: the receive loop always gets past it.                      *)
DeliveredIsEmitted ==
    \A n \in WatchedChunks :
        LET Delivered == \E p, q \in inTime : /\ p.pl = {<<0, n>>} /\ ~ p.parity
                                              /\ Later(GroupOf(q), GroupOf(p))
        IN  Delivered ~> \E i \in DOMAIN out : out[i].pl = {<<0, n>>}

(* The receive loop always comes back to the socket. *)
LoopReturns == pkt # NoPacket ~> pkt = NoPacket

Emit == INSTANCE RxEmit

(* total_packets_lost counts data packets: when the network has lost       *)
(* nothing, it is zero and nothing is concealed.                           *)
NothingLostNothingConcealed == dropped = {} => Emit!Bookkeeping(out).lost = 0
=============================================================================

------------------------------ MODULE Playback -------------------------------
(***************************************************************************)
(* The receiver behind a sender and the network, without receive-side FEC: *)
(* the receive loop gives every data packet to rx_emit_packet and ignores  *)
(* parity.                                                                 *)
(***************************************************************************)
EXTENDS Stream

CONSTANTS RingCap, IndexMod, Jitter, Period, Lost, Nothing

ASSUME ReceiverAssumption ==
    /\ RingCap \in Nat /\ IndexMod \in Nat /\ RingCap < IndexMod
    /\ Jitter \in Nat /\ Period \in Nat
ASSUME NothingAssumption ==
    Nothing \notin Nat \cup [seq : Nat, parity : BOOLEAN, ns : Nat, pl : SUBSET (Nat \X Nat), era : Nat]

VARIABLES
    cur, npc, fill, have, last, lost, filtered, stored, read, started,
    cpc, avail, cw, cr, cn, heard, overrun, offered, resetSince, raced,
    first           \* history: the first packet delivered

R == INSTANCE Receiver

receiverVars == <<cur, npc, fill, have, last, lost, filtered, stored, read, started,
                  cpc, avail, cw, cr, cn, heard, overrun, offered, resetSince, raced>>
vars == <<streamVars, receiverVars, first>>

-----------------------------------------------------------------------------

Init ==
    /\ StreamInit
    /\ R!ReceiverInit
    /\ first = Nothing

Receive ==
    \E i \in Arriving :
        /\ npc = "recv"
        /\ Arrive(i)
        /\ IF net[i].parity THEN UNCHANGED receiverVars ELSE R!EmitBegin(net[i])
        /\ first' = IF first = Nothing THEN net[i] ELSE first

Network == StreamStep /\ UNCHANGED <<receiverVars, first>>
Emit == R!EmitStep /\ UNCHANGED <<streamVars, first>>
Audio == R!Callback /\ UNCHANGED <<streamVars, first>>

Next == Network \/ Receive \/ Emit \/ Audio

Spec == Init /\ [][Next]_vars

(* The audio device keeps calling back, and the network thread gets to the *)
(* end of rx_emit_packet.  Nothing is assumed of the sender.               *)
FairSpec == Spec /\ WF_vars(Audio) /\ WF_vars(Emit)

-----------------------------------------------------------------------------

(* The ring never holds more than its capacity, a packet is in hand only   *)
(* inside rx_emit_packet, and the sender stays within its bounds.          *)
TypeOK ==
    /\ R!ReceiverTypeOK
    /\ sequence \in 0..SeqSpace - 1 /\ timestamp \in 0..max.chunks

(* What is played and what waits to be played are consecutive numbers,     *)
(* unless the ring was full or was reset inside a read.                    *)
TimelineAligned == R!TimelineAligned
(* Nothing is played twice or out of order, also when the ring was full,   *)
(* unless the ring was reset inside a read.                                *)
TimelineOrdered == R!TimelineOrdered
(* Playback starts with the jitter target in the ring, unless the ring was *)
(* reset under the callback.                                               *)
StartsPrimed == R!StartsPrimed
(* Playback starts once the jitter target has been offered to the ring,    *)
(* unless the ring was reset inside a read.                                *)
PlaybackStarts == R!PlaybackStarts

(* total_packets_lost is the truth: with packets in order and one sender,  *)
(* it is the number of packets the network lost since the first arrived,   *)
(* however often packets come twice.                                       *)
LossCounted ==
    era = 0 /\ npc = "recv" /\ have =>
        lost = Cardinality({d \in dropped : first.seq < d.seq /\ d.seq < last})

(* "A large backwards seq jump means the sender's sequence counter was     *)
(* reset": the ring is emptied only for a sender that was restarted.       *)
ResetOnlyOnRestart == npc = "reset" => era > 0
=============================================================================

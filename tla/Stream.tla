------------------------------- MODULE Stream --------------------------------
(***************************************************************************)
(* A sender and the datagram network it sends into.  The network may lose  *)
(* a packet, deliver it twice, and let it be overtaken; each of these has  *)
(* a bound, and so has the number of packets in flight.  The bounds are a  *)
(* scenario, chosen at the start:                                          *)
(*   chunks      chunks one incarnation of the sender offers               *)
(*   inFlight    packets in flight                                         *)
(*   lost        packets the network or the kernel loses                   *)
(*   refused     hard errors of sendto on a data packet                    *)
(*   copies      packets delivered a second time                           *)
(*   overtake    older packets a delivery may overtake                     *)
(*   eras        restarts of the sender                                    *)
(*   restartFrom a restart happens once the sequence is at least this      *)
(***************************************************************************)
EXTENDS UdpSender, SequencesExt, FiniteSets

CONSTANT Scenarios  \* the bounds a run explores, a set of such records

ScenarioFields ==
    {"chunks", "inFlight", "lost", "refused", "copies", "overtake", "eras", "restartFrom"}

ASSUME ScenariosAssumption ==
    \A s \in Scenarios : DOMAIN s = ScenarioFields /\ \A f \in ScenarioFields : s[f] \in Nat

VARIABLES
    max,            \* the scenario
    dropped,        \* history: the packets that were lost
    refused,        \* number of hard errors
    copies          \* the packets delivered with a second copy to come

netVars == <<max, dropped, refused, copies>>
streamVars == <<senderVars, net, netVars>>

StreamInit ==
    /\ max \in Scenarios
    /\ SenderInit
    /\ dropped = {} /\ refused = 0 /\ copies = {}

(* The audio callback sends the next chunk.  A packet the kernel has no    *)
(* room for is as lost as one the network drops.                           *)
Send ==
    \E taken, parityTaken \in BOOLEAN :
        /\ timestamp < max.chunks /\ Len(net) + 2 <= max.inFlight
        /\ SendChunk(taken, parityTaken)
        /\ ~ parityTaken => ClosesGroup
        /\ dropped' = dropped \cup (IF taken THEN {} ELSE {DataPacket})
                              \cup (IF parityTaken THEN {} ELSE {ParityPacket})
        /\ Cardinality(dropped') <= max.lost
        /\ UNCHANGED <<max, refused, copies>>

SendHardError ==
    /\ timestamp < max.chunks /\ refused < max.refused
    /\ SendRefused
    /\ refused' = refused + 1
    /\ UNCHANGED <<max, dropped, copies>>

(* The sender is stopped and started again.  That takes far longer than a  *)
(* packet is in flight.                                                    *)
Restart ==
    /\ era < max.eras /\ max.restartFrom <= sequence /\ net = << >>
    /\ SenderRestart
    /\ UNCHANGED netVars

(* The packets that may arrive next. *)
Arriving == {i \in 1..Len(net) : i <= 1 + max.overtake}

(* The second copy of a packet that was delivered is not lost: that would  *)
(* be no different from a packet delivered once.                           *)
Lose ==
    \E i \in Arriving :
        /\ net[i] \notin copies
        /\ Cardinality(dropped) < max.lost
        /\ dropped' = dropped \cup {net[i]}
        /\ net' = RemoveAt(net, i)
        /\ UNCHANGED <<senderVars, max, refused, copies>>

(* Packet i reaches the receiver, for the last time or not. *)
Arrive(i) ==
    /\ \/ net' = RemoveAt(net, i) /\ UNCHANGED copies
       \/ /\ net[i] \notin copies /\ Cardinality(copies) < max.copies
          /\ copies' = copies \cup {net[i]}
          /\ UNCHANGED net
    /\ UNCHANGED <<senderVars, max, dropped, refused>>

StreamStep == Send \/ SendHardError \/ Restart \/ Lose
=============================================================================

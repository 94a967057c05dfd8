------------------------------- MODULE MCWire --------------------------------
(***************************************************************************)
(* Setups for Wire, with room for six bytes in a packet.                   *)
(***************************************************************************)
EXTENDS Wire

Stream(w, tx, rx, b) == [width |-> w, fec |-> FALSE, txBuffer |-> tx, rxBuffer |-> rx, blocks |-> b]
FecStream(w, tx, rx, b) == [Stream(w, tx, rx, b) EXCEPT !.fec = TRUE]

(* Blocks of one packet, of two equal and two unequal pieces, and of any   *)
(* length; with FEC, buffers of one length and of two, and callbacks       *)
(* shorter than the buffer.                                                *)
MCSetups ==
    {Stream(2, 2, 3, {2}), Stream(3, 4, 2, {4}), Stream(2, 5, 5, {5}), Stream(2, 3, 2, {1, 3, 4}),
     FecStream(2, 2, 2, {2}), FecStream(2, 2, 3, {2}), FecStream(2, 3, 3, {1, 3})}
=============================================================================

------------------------------- MODULE MCDrift -------------------------------
(***************************************************************************)
(* Devices for Drift.                                                      *)
(***************************************************************************)
EXTENDS Drift

(* A block of one packet, started on two, and a block that leaves no room  *)
(* for the reserve in the converter's buffer.                              *)
MCSetups == {[block |-> 2, jitter |-> 4], [block |-> 5, jitter |-> 2]}
=============================================================================

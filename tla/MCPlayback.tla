----------------------------- MODULE MCPlayback -----------------------------
(***************************************************************************)
(* Scenarios for Playback.                                                 *)
(***************************************************************************)
EXTENDS Playback

(* Loss, copies and a restart of the sender; and a longer stream without a *)
(* restart, which fills the ring.                                          *)
Faults ==
  {[chunks |-> 3, inFlight |-> 2, lost |-> 2, refused |-> 0, copies |-> 1,
     overtake |-> 0, eras |-> 1, restartFrom |-> 2],
   [chunks |-> 5, inFlight |-> 2, lost |-> 2, refused |-> 0, copies |-> 1,
     overtake |-> 0, eras |-> 0, restartFrom |-> 0]}

(* One packet may be overtaken; nothing is lost and nothing restarted. *)
Reordering ==
  {[chunks |-> 5, inFlight |-> 3, lost |-> 0, refused |-> 0, copies |-> 0,
     overtake |-> 1, eras |-> 0, restartFrom |-> 0]}

(* A network without faults. *)
NoFault ==
  {[chunks |-> 5, inFlight |-> 3, lost |-> 0, refused |-> 0, copies |-> 0,
     overtake |-> 0, eras |-> 0, restartFrom |-> 0]}
=============================================================================

----------------------------- MODULE MCFecLink -----------------------------
(***************************************************************************)
(* Scenarios for FecLink.                                                  *)
(***************************************************************************)
EXTENDS FecLink

(* Every kind of fault within two groups. *)
Faults ==
  {[chunks |-> 5, inFlight |-> 3, lost |-> 2, refused |-> 1, copies |-> 1,
     overtake |-> 1, eras |-> 0, restartFrom |-> 0]}

(* A restart after more than four windows, and a loss. *)
FarRestart ==
  {[chunks |-> 11, inFlight |-> 3, lost |-> 1, refused |-> 0, copies |-> 0,
     overtake |-> 0, eras |-> 1, restartFrom |-> 16]}

FaultsOrRestart == Faults \cup FarRestart

(* A restart within the first four windows, and a loss. *)
NearRestart ==
  {[chunks |-> 4, inFlight |-> 3, lost |-> 1, refused |-> 0, copies |-> 0,
     overtake |-> 0, eras |-> 1, restartFrom |-> 1]}

(* A network without faults. *)
NoFault ==
  {[chunks |-> 4, inFlight |-> 3, lost |-> 0, refused |-> 0, copies |-> 0,
     overtake |-> 0, eras |-> 0, restartFrom |-> 0]}

(* A network without faults, and a stream as long as the number space. *)
LongStream ==
  {[chunks |-> 22, inFlight |-> 3, lost |-> 0, refused |-> 0, copies |-> 0,
     overtake |-> 0, eras |-> 0, restartFrom |-> 0]}
=============================================================================

------------------------------- MODULE DriftSrc -------------------------------
(***************************************************************************)
(* The sample-rate converter of drift_src.c, as operators on its state: a  *)
(* FIFO of frames and a read position that moves by a fraction of a frame. *)
(* What the filter computes from its taps is left out; which frames it     *)
(* reads is not.  Positions are integers in units of 1/Unit of a frame,    *)
(* and a step is how far the position moves for one frame of output:       *)
(* 1/ratio in the code's doubles.  write_idx is read_idx + avail modulo    *)
(* the capacity after every operation, so only avail is kept.              *)
(***************************************************************************)
EXTENDS Integers

CONSTANTS
    Taps,           \* DRIFT_SRC_TAPS
    FifoCap,        \* DRIFT_SRC_FIFO, a power of two
    Unit            \* units of position in one frame

ASSUME TapsAssumption == Taps \in Nat /\ Taps >= 2 /\ Taps % 2 = 0
ASSUME FifoAssumption == FifoCap \in Nat /\ Taps <= FifoCap
ASSUME UnitAssumption == Unit \in Nat \ {0}

AtMost(n, bound) == IF n > bound THEN bound ELSE n
AtLeast(n, bound) == IF n < bound THEN bound ELSE n

(* Frames the filter needs before the read position. *)
Leftmost == Taps \div 2 - 1

(* drift_src_reset. *)
SrcEmpty == [frac |-> 0, avail |-> 0]

(* Frames a push still accepts. *)
PushRoom(s) == AtLeast(FifoCap - s.avail, 0)

(* drift_src_push: what does not fit is dropped. *)
Push(s, frames) ==
    [s EXCEPT !.avail = @ + AtMost(frames, PushRoom(s))]

(* Mutant of Allowed: the taps are forgotten. *)
Allowed_NoTaps(s) == s.avail

(* Input frames the read position may pass over. *)
Allowed(s) == s.avail - Taps

(* Frames of output drift_src_process computes, of out_frames asked for;   *)
(* the rest is silence.                                                    *)
Produced(s, out_frames, step) ==
    IF s.avail < Taps THEN 0
    ELSE AtMost(AtLeast((Allowed(s) * Unit - s.frac) \div step, 0), out_frames)

(* The read position after n frames of output. *)
Advance(s, n, step) == s.frac + n * step

(* Mutant of Consumed: rounded up. *)
Consumed_RoundedUp(s, out_frames, step) ==
    AtMost((Advance(s, Produced(s, out_frames, step), step) + Unit - 1) \div Unit, s.avail)

(* Input frames those frames of output consume. *)
Consumed(s, out_frames, step) ==
    AtMost(Advance(s, Produced(s, out_frames, step), step) \div Unit, s.avail)

(* drift_src_process.  Too little for one frame of output leaves the       *)
(* position where it is, too little for the taps puts it on a frame.       *)
Process(s, out_frames, step) ==
    LET n == Produced(s, out_frames, step)
        c == Consumed(s, out_frames, step)
    IN  IF s.avail < Taps THEN [s EXCEPT !.frac = 0]
        ELSE IF n = 0 THEN s
        ELSE [avail |-> s.avail - c, frac |-> Advance(s, n, step) - c * Unit]

(* The newest frame the filter reads for the n-th frame of output, counted *)
(* from the read position.                                                 *)
NewestTap(s, n, step) == Advance(s, n - 1, step) \div Unit - Leftmost + Taps - 1
=============================================================================

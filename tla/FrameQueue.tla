----------------------------- MODULE FrameQueue -----------------------------
(***************************************************************************)
(* What the frame ring of ringbuffer.h promises its two callers: a bounded *)
(* first-in first-out queue of whole frames.  A write accepts a block at   *)
(* the tail, a read returns a block from the head, a reset drops what is   *)
(* queued.  Nothing is ever torn, repeated, skipped or reordered.          *)
(*                                                                         *)
(* A frame is its position in the stream of accepted frames.               *)
(***************************************************************************)
EXTENDS Integers, Sequences

CONSTANT Capacity           \* frames the queue holds

VARIABLES
    queue,                  \* accepted and not yet returned, oldest first
    accepted,               \* number of frames ever accepted
    got                     \* the block the last read returned

vars == <<queue, accepted, got>>

Init ==
    /\ queue = << >>
    /\ accepted = 0
    /\ got = << >>

(* A write of k frames that fit. *)
Put(k) ==
    /\ Len(queue) + k <= Capacity
    /\ queue' = queue \o [i \in 1..k |-> accepted + i - 1]
    /\ accepted' = accepted + k
    /\ UNCHANGED got

(* A read of k frames that are there. *)
Take(k) ==
    /\ got' = SubSeq(queue, 1, k)
    /\ queue' = SubSeq(queue, k + 1, Len(queue))
    /\ UNCHANGED accepted

(* A reset. *)
Drop ==
    /\ queue' = << >>
    /\ UNCHANGED <<accepted, got>>

Next ==
    \/ \E k \in 1..Capacity : Put(k)
    \/ \E k \in 1..Len(queue) : Take(k)
    \/ Drop

Spec == Init /\ [][Next]_vars
=============================================================================

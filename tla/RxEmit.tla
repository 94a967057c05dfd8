------------------------------- MODULE RxEmit --------------------------------
(***************************************************************************)
(* What rx_emit_packet of main.c decides about one emitted packet from its *)
(* sequence number alone, and the bookkeeping of a whole run of them.      *)
(* Arithmetic on sequence numbers is uint32: modulo SeqSpace.              *)
(***************************************************************************)
EXTENDS Integers, Sequences, SequencesExt

CONSTANTS
    SeqSpace,       \* 2^32
    Lost            \* the NULL payload of a slot FEC could not fill

Half == SeqSpace \div 2
Distance(seq, last) == (seq - last) % SeqSpace

(* Mutants of the tests below. *)
Missing_CountsLast(have, last, seq) ==
    IF have /\ seq > (last + 1) % SeqSpace THEN Distance(seq, last) ELSE 0
Missing_None(have, last, seq) == 0
IsCopy_Never(have, last, seq) == FALSE

(* diff > 0x80000000: the packet is taken for the first of a new sender. *)
LooksRestarted(have, last, seq) == have /\ Distance(seq, last) > Half

(* The second copy of the last packet. *)
IsCopy(have, last, seq) == have /\ seq = last

(* (int32_t)(seq - last) < 0. *)
IsOld(have, last, seq) == have /\ Distance(seq, last) >= Half

(* The packets concealed before this one. *)
Missing(have, last, seq) ==
    IF have /\ seq > (last + 1) % SeqSpace THEN Distance(seq, last) - 1 ELSE 0

-----------------------------------------------------------------------------
(* The bookkeeping as one step: t.lost is total_packets_lost, which counts *)
(* the packets concealed; t.dups and t.reorders the filtered ones.         *)

Fresh == [have |-> FALSE, last |-> 0, lost |-> 0, dups |-> 0, reorders |-> 0, resets |-> 0]

AfterRestartTest(t, seq) ==
    IF LooksRestarted(t.have, t.last, seq)
    THEN [t EXCEPT !.have = FALSE, !.last = 0, !.resets = @ + 1]
    ELSE t

EmitOne(t0, e) ==
    LET t == AfterRestartTest(t0, e.seq) IN
    CASE IsCopy(t.have, t.last, e.seq) -> [t EXCEPT !.dups = @ + 1]
      [] ~ IsCopy(t.have, t.last, e.seq) /\ IsOld(t.have, t.last, e.seq) ->
            [t EXCEPT !.reorders = @ + 1]
      [] OTHER ->
            [t EXCEPT !.have = TRUE, !.last = e.seq,
                      !.lost = @ + Missing(t.have, t.last, e.seq)
                                 + (IF e.pl = Lost THEN 1 ELSE 0)]

(* The bookkeeping after the emissions es. *)
Bookkeeping(es) == FoldLeft(EmitOne, Fresh, es)
=============================================================================

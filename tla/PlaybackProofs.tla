--------------------------- MODULE PlaybackProofs ---------------------------
(***************************************************************************)
(* What is proved of the receiver's two threads behind the sender and the  *)
(* network, for every ring, jitter target, callback period and scenario    *)
(* whose packets use less than half the sequence numbers.                  *)
(***************************************************************************)
EXTENDS Playback, StreamProofs

(* "A jump of more than half the numbers": fewer packets than that make    *)
(* the comparisons of the receiver plain comparisons.                      *)
BelowHalf == \A s \in Scenarios : 4 * s.chunks < SeqSpace

HalfSpace == SeqSpace \div 2
Numbers == 0..HalfSpace - 1
Payloads == SUBSET (Nat \X Nat)
Items == [seq : Numbers, pl : Payloads \cup {Lost}]

-----------------------------------------------------------------------------
(* Arithmetic of sequence numbers. *)

(* What half the number space is. *)
LEMMA HalfBounds ==
    /\ SeqSpace \in Nat \ {0} /\ HalfSpace \in Nat
    /\ 2 * HalfSpace <= SeqSpace /\ SeqSpace <= 2 * HalfSpace + 1
BY SeqAssumption, SMT DEF HalfSpace

(* The difference of two numbers of the lower half, as uint32_t gives it. *)
LEMMA DistanceIs ==
    ASSUME NEW a \in Nat, NEW b \in Nat, a < HalfSpace, b < HalfSpace
    PROVE  /\ b <= a => R!Seq32!Distance(a, b) = a - b
           /\ a < b => R!Seq32!Distance(a, b) = (a - b) + SeqSpace
<1>1. /\ a \in Nat /\ b \in Nat /\ a < HalfSpace /\ b < HalfSpace /\ SeqSpace \in Nat \ {0}
      /\ HalfSpace \in Nat /\ 2 * HalfSpace <= SeqSpace
  BY HalfBounds
<1>2. ASSUME b <= a
      PROVE  (a - b) % SeqSpace = a - b
  <2>1. a - b \in Nat /\ a - b < SeqSpace
    BY <1>1, <1>2
  <2> QED
    BY <2>1, NoWrapMod
<1>3. ASSUME a < b
      PROVE  (a - b) % SeqSpace = (a - b) + SeqSpace
  <2>1. a - b \in Int /\ a - b < 0 /\ 0 <= (a - b) + SeqSpace /\ (a - b) + SeqSpace < SeqSpace
    BY <1>1, <1>3
  <2> QED
    BY <1>1, <2>1, SMT
<1> QED
  BY <1>2, <1>3 DEF R!Seq32!Distance

(* A smaller number looks like a restart, an equal one is a copy, and a    *)
(* larger one ends a gap.                                                  *)
LEMMA Comparisons ==
    ASSUME NEW h \in BOOLEAN, NEW a \in Nat, NEW b \in Nat, a < HalfSpace, h => b < HalfSpace
    PROVE  /\ R!Seq32!LooksRestarted(h, b, a) <=> h /\ a < b
           /\ R!Seq32!IsCopy(h, b, a) <=> h /\ a = b
           /\ h /\ b <= a => ~ R!Seq32!IsOld(h, b, a)
           /\ h /\ b < a => R!Seq32!Missing(h, b, a) = (a - b) - 1
           /\ ~ h => ~ R!Seq32!IsOld(h, b, a) /\ R!Seq32!Missing(h, b, a) = 0
<1>1. /\ SeqSpace \in Nat \ {0} /\ HalfSpace \in Nat /\ 2 * HalfSpace <= SeqSpace
      /\ R!Seq32!Half = HalfSpace
  BY HalfBounds DEF R!Seq32!Half, HalfSpace
<1>2. CASE h = TRUE
  <2>1. /\ b <= a => R!Seq32!Distance(a, b) = a - b
        /\ a < b => R!Seq32!Distance(a, b) = (a - b) + SeqSpace
        /\ b < HalfSpace
    BY <1>2, DistanceIs
  <2>2. (b + 1) % SeqSpace = b + 1
    BY <1>1, <2>1, NoWrapMod
  <2>3. R!Seq32!LooksRestarted(h, b, a) <=> a < b
    BY <1>1, <1>2, <2>1 DEF R!Seq32!LooksRestarted
  <2>4. b <= a => ~ R!Seq32!IsOld(h, b, a)
    BY <1>1, <1>2, <2>1 DEF R!Seq32!IsOld
  <2>5. b < a => R!Seq32!Missing(h, b, a) = (a - b) - 1
    BY <1>1, <1>2, <2>1, <2>2 DEF R!Seq32!Missing
  <2>6. R!Seq32!IsCopy(h, b, a) <=> a = b
    BY <1>2 DEF R!Seq32!IsCopy
  <2> QED
    BY <1>2, <2>3, <2>4, <2>5, <2>6
<1>3. CASE h = FALSE
  BY <1>3 DEF R!Seq32!LooksRestarted, R!Seq32!IsCopy, R!Seq32!IsOld, R!Seq32!Missing
<1> QED
  BY <1>2, <1>3

-----------------------------------------------------------------------------
(* The inductive invariant of the receiver. *)

(* What the ring holds, oldest first. *)
ring == SubSeq(stored, read + 1, Len(stored))

(* The number played or written last. *)
Newest == IF ring = << >> THEN heard ELSE ring[Len(ring)].seq

RingTypes ==
    /\ stored \in Seq(Items) /\ read \in Nat /\ raced \in BOOLEAN
    /\ ~ raced => read <= Len(stored) /\ Len(stored) <= read + RingCap
    /\ heard = Nothing \/ heard \in Numbers
    /\ overrun \in BOOLEAN /\ offered \in 0..Jitter

Increasing ==
    /\ \A i \in 1..Len(ring) - 1 : ring[i].seq < ring[i + 1].seq
    /\ heard # Nothing /\ ring # << >> => heard < ring[1].seq

Consecutive ==
    /\ \A i \in 1..Len(ring) - 1 : ring[i + 1].seq = ring[i].seq + 1
    /\ heard # Nothing /\ ring # << >> => ring[1].seq = heard + 1

(* What rx_emit_packet has in hand: never a packet older than the last.    *)
InHand ==
    /\ npc \in {"recv", "reset", "restarted", "filter", "fill"}
    /\ npc = "recv" <=> cur = Nothing
    /\ npc # "recv" => cur.seq \in Numbers /\ cur.pl \in Payloads
    /\ have \in BOOLEAN /\ lost \in Nat /\ filtered \in Nat
    /\ last \in 0..SeqSpace - 1 /\ (have => last \in Numbers)
    /\ fill \in 0..SeqSpace - 1 /\ (npc = "fill" => fill <= cur.seq)
    /\ npc \in {"reset", "restarted"} => ~ have
    /\ npc = "filter" /\ have => last <= cur.seq
    /\ npc = "fill" /\ ~ have => fill = 0

(* Where the end of the ring is in the numbers. *)
InPlace ==
    /\ npc # "reset" /\ ~ have => ring = << >> /\ heard = Nothing
    /\ Newest # Nothing /\ have /\ npc \in {"recv", "filter"} => Newest <= last
    /\ Newest # Nothing /\ npc = "fill" => Newest < cur.seq - fill
    /\ ~ overrun /\ have /\ npc \in {"recv", "filter"} => Newest = last
    /\ ~ overrun /\ have /\ npc = "fill" => Newest = (cur.seq - fill) - 1

InOrder == Increasing /\ (~ overrun => Consecutive) /\ InPlace

(* What the callback has loaded is out of date only upwards, but for a     *)
(* reset, and what it is about to copy is in the ring.                     *)
LoadedIsThere ==
    /\ cpc = "level" /\ ~ resetSince => read <= cw /\ cw <= Len(stored)
    /\ cpc = "check" /\ ~ resetSince => avail <= Len(stored) - read
    /\ cpc = "clamp" => read <= cw /\ cw <= Len(stored)
    /\ cpc \in {"index", "copy"} => 0 < cn /\ read + cn <= Len(stored)
    /\ cpc = "copy" => cr = read

Sampled ==
    /\ cpc \in {"idle", "level", "check", "read", "clamp", "index", "copy", "done"}
    /\ avail \in 0..IndexMod - 1 /\ cw \in Nat /\ cr \in Nat /\ cn \in 0..Period
    /\ started \in BOOLEAN /\ resetSince \in BOOLEAN
    /\ ~ raced => LoadedIsThere

(* A reset inside a read takes from the ring all but its types, until the  *)
(* next reset.                                                             *)
ReceiverInv == RingTypes /\ InHand /\ Sampled /\ (~ raced => InOrder)

(* The unread end of a sequence. *)
LEMMA SuffixIs ==
    ASSUME NEW S, NEW s \in Seq(S), NEW r \in Nat
    PROVE  /\ SubSeq(s, r + 1, Len(s)) \in Seq(S)
           /\ Len(SubSeq(s, r + 1, Len(s))) = IF r <= Len(s) THEN Len(s) - r ELSE 0
           /\ \A i \in 1..Len(s) - r : SubSeq(s, r + 1, Len(s))[i] = s[r + i]
<1>1. Len(s) \in Nat /\ r + 1 \in Int
  BY LenProperties
<1>2. \A i \in r + 1..Len(s) : s[i] \in S
  BY <1>1, ElementOfSeq
<1>3. /\ SubSeq(s, r + 1, Len(s)) \in Seq(S)
      /\ Len(SubSeq(s, r + 1, Len(s))) = IF r + 1 <= Len(s) THEN Len(s) - (r + 1) + 1 ELSE 0
      /\ \A i \in 1..Len(s) - (r + 1) + 1 : SubSeq(s, r + 1, Len(s))[i] = s[r + 1 + i - 1]
  BY <1>1, <1>2, SubSeqProperties
<1>4. /\ Len(s) - (r + 1) + 1 = Len(s) - r
      /\ r <= Len(s) <=> (r + 1 <= Len(s) \/ Len(s) - r = 0)
      /\ \A i \in 1..Len(s) - r : r + 1 + i - 1 = r + i
  BY <1>1
<1>5. Len(SubSeq(s, r + 1, Len(s))) = IF r <= Len(s) THEN Len(s) - r ELSE 0
  BY <1>1, <1>3, <1>4
<1>6. \A i \in 1..Len(s) - r : SubSeq(s, r + 1, Len(s))[i] = s[r + i]
  BY <1>3, <1>4
<1> QED
  BY <1>3, <1>5, <1>6

(* What the ring holds is what was written and not read. *)
LEMMA RingIs ==
    ASSUME RingTypes
    PROVE  /\ ring \in Seq(Items) /\ Len(ring) \in Nat
           /\ ring = << >> <=> Len(ring) = 0
           /\ read <= Len(stored) => Len(ring) = Len(stored) - read
           /\ \A i \in 1..Len(stored) - read : ring[i] = stored[read + i]
<1>1. /\ ring \in Seq(Items)
      /\ Len(ring) = IF read <= Len(stored) THEN Len(stored) - read ELSE 0
      /\ \A i \in 1..Len(stored) - read : ring[i] = stored[read + i]
  BY SuffixIs DEF RingTypes, ring
<1> QED
  BY <1>1, EmptySeq, LenProperties

(* The difference of two indices no further apart than the ring is long.   *)
LEMMA DiffIs ==
    ASSUME NEW x \in Nat, NEW y \in Nat
    PROVE  /\ R!Diff(x, y) \in 0..IndexMod - 1 /\ R!Diff(x, y) \in Nat
           /\ y <= x /\ x <= y + RingCap => R!Diff(x, y) = x - y
<1>1. IndexMod \in Nat \ {0} /\ RingCap \in Nat /\ RingCap < IndexMod
  BY ReceiverAssumption
<1>2. x - y \in Int
  OBVIOUS
<1> DEFINE d == x - y
<1>3. d \in Int /\ (y <= x /\ x <= y + RingCap => 0 <= d /\ d < IndexMod)
  BY <1>1
<1> HIDE DEF d
<1>4. d % IndexMod \in 0..IndexMod - 1
  BY <1>1, <1>3, SMT
<1>5. 0 <= d /\ d < IndexMod => d % IndexMod = d
  BY <1>1, <1>3, SMT
<1> QED
  BY <1>1, <1>3, <1>4, <1>5 DEF R!Diff, d

(* What is in the ring carries a number of the lower half. *)
LEMMA ItemSeq ==
    ASSUME RingTypes, NEW i \in 1..Len(ring)
    PROVE  ring[i] \in Items /\ ring[i].seq \in Nat /\ ring[i].seq < HalfSpace
<1>1. ring[i] \in Items
  BY RingIs, ElementOfSeq
<1>2. ring[i].seq \in Numbers
  BY <1>1 DEF Items
<1> QED
  BY <1>1, <1>2, HalfBounds DEF Numbers

(* So does the frame at its end. *)
LEMMA NewestType ==
    ASSUME RingTypes, Newest # Nothing
    PROVE  Newest \in Nat /\ Newest < HalfSpace
<1>1. CASE ring = << >>
  BY <1>1, HalfBounds DEF Newest, RingTypes, Numbers
<1>2. CASE ring # << >>
  <2>1. Len(ring) \in 1..Len(ring)
    BY <1>2, RingIs
  <2> QED
    BY <1>2, <2>1, ItemSeq DEF Newest
<1> QED
  BY <1>1, <1>2

(* A block written to the ring leaves what is there, and there is a block  *)
(* more when it found room.                                                *)
LEMMA WriteTypes ==
    ASSUME RingTypes, NEW item \in Items, R!Write(item), heard' = heard
    PROVE  /\ RingTypes' /\ read' = read /\ raced' = raced
           /\ Len(stored) <= Len(stored')
           /\ R!HasRoom /\ ~ raced =>
                /\ Len(stored') = Len(stored) + 1 /\ Len(ring') = Len(ring) + 1
                /\ ring'[Len(ring) + 1] = item
                /\ \A i \in 1..Len(ring) : ring'[i] = ring[i]
<1>1. /\ stored \in Seq(Items) /\ Len(stored) \in Nat /\ read \in Nat /\ RingCap \in Nat
      /\ read' = read /\ raced' = raced /\ offered' \in 0..Jitter
  BY LenProperties, ReceiverAssumption DEF RingTypes, R!Write
<1>2. CASE R!HasRoom
  <2>1. stored' = Append(stored, item) /\ overrun' = overrun
    BY <1>2 DEF R!Write
  <2>2. /\ stored' \in Seq(Items) /\ Len(stored') = Len(stored) + 1
        /\ \A i \in 1..Len(stored) : stored'[i] = stored[i]
        /\ stored'[Len(stored) + 1] = item
    BY <1>1, <2>1, AppendProperties
  <2>3. ~ raced => Len(stored) < read + RingCap /\ read <= Len(stored)
    <3> SUFFICES ASSUME ~ raced
                 PROVE  Len(stored) < read + RingCap /\ read <= Len(stored)
      OBVIOUS
    <3> DEFINE n == Len(stored)
    <3>1. n \in Nat /\ read <= n /\ n <= read + RingCap
      BY <1>1 DEF RingTypes
    <3>2. R!Diff(n, read) = n - read
      BY <1>1, <3>1, DiffIs
    <3>3. n - read \in Nat /\ n - read <= RingCap /\ RingCap <= (n - read) + RingCap
      BY <1>1, <3>1
    <3>4. R!Diff(RingCap, n - read) = RingCap - (n - read)
      BY <1>1, <3>3, DiffIs
    <3>5. RingCap - (n - read) > 0
      BY <1>2, <3>2, <3>4 DEF R!HasRoom, R!write
    <3> QED
      BY <1>1, <3>1, <3>5
  <2>4. RingTypes'
    BY <1>1, <2>1, <2>2, <2>3 DEF RingTypes
  <2>5. ASSUME ~ raced
        PROVE  /\ Len(ring') = Len(ring) + 1 /\ ring'[Len(ring) + 1] = item
               /\ \A i \in 1..Len(ring) : ring'[i] = ring[i]
    <3>1. Len(ring) = Len(stored) - read /\ \A i \in 1..Len(stored) - read : ring[i] = stored[read + i]
      BY <2>3, <2>5, RingIs
    <3>2. /\ Len(ring') = IF read <= Len(stored') THEN Len(stored') - read ELSE 0
          /\ \A i \in 1..Len(stored') - read : ring'[i] = stored'[read + i]
      BY <1>1, <2>2, SuffixIs DEF ring
    <3>3. Len(ring') = Len(ring) + 1 /\ read + (Len(ring) + 1) = Len(stored) + 1
      BY <1>1, <2>2, <2>3, <2>5, <3>1, <3>2
    <3>4. Len(ring) + 1 \in 1..Len(stored') - read
      BY <1>1, <2>2, <2>3, <2>5, <3>1
    <3>5. ring'[Len(ring) + 1] = item
      BY <2>2, <3>2, <3>3, <3>4
    <3>6. ASSUME NEW i \in 1..Len(ring)
          PROVE  ring'[i] = ring[i]
      <4>1. i \in 1..Len(stored) - read /\ i \in 1..Len(stored') - read /\ read + i \in 1..Len(stored)
        BY <1>1, <2>2, <2>3, <2>5, <3>1
      <4> QED
        BY <2>2, <3>1, <3>2, <4>1
    <3> QED
      BY <3>3, <3>5, <3>6
  <2> QED
    BY <1>1, <2>2, <2>4, <2>5
<1>3. CASE ~ R!HasRoom
  <2>1. stored' = stored /\ overrun' = TRUE
    BY <1>3 DEF R!Write
  <2> QED
    BY <1>1, <1>3, <2>1 DEF RingTypes
<1> QED
  BY <1>2, <1>3

(* A block written after the end of the ring keeps it in order, and        *)
(* without a hole when there is room.                                      *)
LEMMA WriteKeeps ==
    ASSUME RingTypes, ~ raced, Increasing, ~ overrun => Consecutive,
           NEW x \in Nat, x < HalfSpace, NEW p \in Payloads \cup {Lost},
           Newest # Nothing => Newest < x,
           ~ overrun /\ Newest # Nothing => x = Newest + 1,
           R!Write([seq |-> x, pl |-> p]), heard' = heard
    PROVE  /\ Increasing' /\ (~ overrun' => Consecutive')
           /\ Newest' # Nothing => Newest' <= x
           /\ ~ overrun' => Newest' = x
<1> DEFINE item == [seq |-> x, pl |-> p]
<1>0. item \in Items /\ item.seq = x
  BY HalfBounds DEF Items, Numbers
<1>1. ring \in Seq(Items) /\ Len(ring) \in Nat /\ (ring = << >> <=> Len(ring) = 0)
  BY RingIs
<1>3. CASE R!HasRoom
  <2>1. overrun' = overrun
    BY <1>3 DEF R!Write
  <2>2. item \in Items /\ item.seq = x
    BY <1>0
  <2> HIDE DEF item
  <2>3. /\ Len(ring') = Len(ring) + 1
        /\ \A i \in 1..Len(ring) : ring'[i] = ring[i]
        /\ ring'[Len(ring) + 1] = item /\ ring' # << >>
    <3>1. /\ Len(ring') = Len(ring) + 1 /\ ring'[Len(ring) + 1] = item
          /\ \A i \in 1..Len(ring) : ring'[i] = ring[i]
      BY <1>3, <2>2, WriteTypes DEF item
    <3>2. ring' # << >>
      <4>1. ring' = << >> => Len(ring') = 0
        BY EmptySeq
      <4> QED
        BY <1>1, <3>1, <4>1
    <3> QED
      BY <3>1, <3>2
  <2>5. Newest' = x
    BY <2>2, <2>3 DEF Newest
  <2>6. ring # << >> => Len(ring) >= 1 /\ Newest = ring[Len(ring)].seq /\ Newest # Nothing
    <3> SUFFICES ASSUME ring # << >>
                 PROVE  Len(ring) >= 1 /\ Newest = ring[Len(ring)].seq /\ Newest # Nothing
      OBVIOUS
    <3>1. Len(ring) \in 1..Len(ring)
      BY <1>1
    <3>2. ring[Len(ring)].seq \in Nat
      BY <3>1, ItemSeq
    <3> QED
      BY <3>1, <3>2, NothingAssumption DEF Newest
  <2>7. ring = << >> => Len(ring) = 0 /\ Newest = heard
    BY <1>1 DEF Newest
  <2>8. ASSUME NEW i \in 1..Len(ring') - 1
        PROVE  /\ ring'[i].seq < ring'[i + 1].seq
               /\ ~ overrun => ring'[i + 1].seq = ring'[i].seq + 1
    <3>1. CASE i < Len(ring)
      <4>1. i \in 1..Len(ring) - 1 /\ i \in 1..Len(ring) /\ i + 1 \in 1..Len(ring)
        BY <1>1, <2>3, <3>1
      <4> QED
        BY <2>3, <4>1 DEF Increasing, Consecutive
    <3>2. CASE i = Len(ring)
      <4>1. i \in 1..Len(ring) /\ ring # << >>
        BY <1>1, <2>3, <2>7, <3>2
      <4>2. ring'[i] = ring[i] /\ Newest = ring[i].seq /\ Newest # Nothing /\ ring'[i + 1] = item
        BY <2>3, <2>6, <3>2, <4>1
      <4> QED
        BY <2>2, <4>2
    <3> QED
      BY <1>1, <2>3, <3>1, <3>2
  <2>9. heard # Nothing => /\ heard < ring'[1].seq
                           /\ ~ overrun => ring'[1].seq = heard + 1
    <3>1. CASE ring = << >>
      BY <2>2, <2>3, <2>7, <3>1
    <3>2. CASE ring # << >>
      <4>1. ring'[1] = ring[1]
        BY <1>1, <2>3, <2>6, <3>2
      <4> QED
        BY <3>2, <4>1 DEF Increasing, Consecutive
    <3> QED
      BY <3>1, <3>2
  <2>10. Increasing' /\ (~ overrun' => Consecutive')
    BY <2>1, <2>8, <2>9 DEF Increasing, Consecutive
  <2> QED
    BY <2>5, <2>10
<1>4. CASE ~ R!HasRoom
  <2>1. stored' = stored /\ read' = read /\ overrun' = TRUE
    BY <1>4 DEF R!Write
  <2>2. ring' = ring /\ Newest' = Newest
    BY <2>1 DEF Newest, ring
  <2>3. Newest # Nothing => Newest <= x
    BY NewestType
  <2> QED
    BY <2>1, <2>2, <2>3 DEF Increasing
<1> QED
  BY <1>3, <1>4

(* So does every packet. *)
LEMMA NumberType ==
    ASSUME NEW s \in Numbers
    PROVE  s \in Nat /\ s < HalfSpace /\ s \in 0..SeqSpace - 1
BY HalfBounds DEF Numbers

(* A step that leaves the ring and what was heard of it alone. *)
LEMMA RingUnchanged ==
    ASSUME RingTypes, UNCHANGED <<stored, read, raced, heard, overrun, offered>>
    PROVE  /\ RingTypes' /\ ring' = ring /\ Newest' = Newest
           /\ Increasing => Increasing'
           /\ Consecutive => Consecutive'
BY DEF RingTypes, Increasing, Consecutive, Newest, ring

(* A step that leaves the callback and what it looks at alone. *)
LEMMA SampledUnchanged ==
    ASSUME Sampled,
           UNCHANGED <<stored, read, raced, started, resetSince, cpc, avail, cw, cr, cn>>
    PROVE  Sampled'
BY DEF Sampled, LoadedIsThere

(* The steps of the network thread. *)
LEMMA BeginKeeps ==
    ASSUME ReceiverInv, NEW p, p # Nothing, p.seq \in Numbers, p.pl \in Payloads, R!EmitBegin(p)
    PROVE  ReceiverInv'
<1> USE DEF ReceiverInv
<1>1. /\ npc = "recv" /\ cur' = p
      /\ UNCHANGED <<fill, lost, filtered, stored, read, started, cpc, avail, cw, cr, cn, heard,
                     overrun, offered, resetSince, raced>>
  BY DEF R!EmitBegin, R!audioSide, R!ringSide, R!reading, R!history
<1>2. p.seq \in Nat /\ p.seq < HalfSpace /\ last \in Nat /\ have \in BOOLEAN
      /\ (have => last < HalfSpace)
  BY NumberType, HalfBounds DEF InHand
<1>3. /\ RingTypes' /\ ring' = ring /\ Newest' = Newest
      /\ ~ raced => Increasing' /\ (~ overrun' => Consecutive')
  BY <1>1, RingUnchanged DEF InOrder
<1>4. Sampled'
  BY <1>1, SampledUnchanged
<1>5. CASE R!Seq32!LooksRestarted(have, last, p.seq)
  <2>1. npc' = "reset" /\ have' = FALSE /\ last' = 0
    BY <1>5 DEF R!EmitBegin
  <2>2. InHand'
    <3>1. have' \in BOOLEAN /\ ~ have'
      BY <2>1, Zenon
    <3>3. last' \in 0..SeqSpace - 1
      BY <2>1, HalfBounds
    <3>2. fill' \in 0..SeqSpace - 1 /\ lost' \in Nat /\ filtered' \in Nat
      BY <1>1 DEF InHand
    <3> QED
      BY <1>1, <2>1, <3>1, <3>2, <3>3 DEF InHand
  <2>3. ~ raced => InPlace'
    BY <1>1, <2>1 DEF InPlace
  <2> QED
    BY <1>1, <1>3, <1>4, <2>2, <2>3 DEF InOrder
<1>6. CASE ~ R!Seq32!LooksRestarted(have, last, p.seq)
  <2>1. npc' = "filter" /\ have' = have /\ last' = last
    BY <1>6 DEF R!EmitBegin
  <2>2. have => last <= p.seq
    <3>1. R!Seq32!LooksRestarted(have, last, p.seq) <=> have /\ p.seq < last
      BY <1>2, Comparisons, Zenon
    <3>2. have => ~ (p.seq < last)
      BY <1>6, <3>1, Zenon
    <3> QED
      BY <1>2, <3>2
  <2>3. InHand'
    BY <1>1, <2>1, <2>2 DEF InHand
  <2>4. ~ raced => InPlace'
    BY <1>1, <1>3, <2>1 DEF InPlace, InOrder
  <2> QED
    BY <1>1, <1>3, <1>4, <2>3, <2>4 DEF InOrder
<1> QED
  BY <1>5, <1>6

(* rx_emit_packet finds a restart and resets the ring. *)
LEMMA ResetKeeps ==
    ASSUME ReceiverInv, R!EmitReset \/ R!EmitRestarted
    PROVE  ReceiverInv'
<1> USE DEF ReceiverInv
<1>1. CASE R!EmitReset
  <2>1. /\ npc = "reset" /\ npc' = "restarted" /\ read' = Len(stored) /\ heard' = Nothing
        /\ overrun' = FALSE /\ offered' = 0 /\ resetSince' = TRUE
        /\ raced' = (cpc \in {"clamp", "index", "copy"})
        /\ UNCHANGED <<cur, fill, have, last, lost, filtered, stored, started, cpc, avail, cw, cr, cn>>
    BY <1>1 DEF R!EmitReset, R!reading, R!write
  <2>2. stored \in Seq(Items) /\ Len(stored) \in Nat /\ RingCap \in Nat
    BY LenProperties, ReceiverAssumption DEF RingTypes
  <2>3. ring' = << >> /\ Len(ring') = 0 /\ 1..Len(ring') - 1 = {} /\ Newest' = Nothing
    <3>1. Len(ring') = 0 /\ ring' \in Seq(Items)
      BY <2>1, <2>2, SuffixIs DEF ring
    <3>2. ring' = << >>
      BY <3>1, EmptySeq
    <3> QED
      BY <2>1, <3>1, <3>2 DEF Newest
  <2>4. raced' \in BOOLEAN /\ overrun' \in BOOLEAN /\ resetSince' \in BOOLEAN
    <3>1. raced' \in BOOLEAN
      BY <2>1
    <3>2. overrun' \in BOOLEAN /\ resetSince' \in BOOLEAN
      BY <2>1, Zenon
    <3> QED
      BY <3>1, <3>2
  <2>5. RingTypes'
    <3>1. offered' \in 0..Jitter
      BY <2>1, ReceiverAssumption
    <3>2. Len(stored') <= read' + RingCap /\ read' <= Len(stored') /\ read' \in Nat
      BY <2>1, <2>2
    <3> QED
      BY <2>1, <2>2, <2>4, <3>1, <3>2 DEF RingTypes
  <2>6. Increasing' /\ Consecutive'
    BY <2>1, <2>3 DEF Increasing, Consecutive
  <2>7. InHand'
    BY <2>1 DEF InHand
  <2>8. InPlace'
    BY <2>1, <2>3 DEF InHand, InPlace
  <2>9. Sampled'
    <3>1. raced' \/ cpc \notin {"clamp", "index", "copy"}
      BY <2>1
    <3>2. resetSince'
      BY <2>1
    <3> QED
      BY <2>1, <2>4, <3>1, <3>2 DEF Sampled, LoadedIsThere
  <2> QED
    BY <2>5, <2>6, <2>7, <2>8, <2>9 DEF InOrder
<1>2. CASE R!EmitRestarted
  <2>1. /\ npc = "restarted" /\ npc' = "filter" /\ started' = FALSE
        /\ UNCHANGED <<cur, fill, have, last, lost, filtered, stored, read, cpc, avail, cw, cr, cn,
                       heard, overrun, offered, resetSince, raced>>
    BY <1>2 DEF R!EmitRestarted, R!audioSide, R!reading, R!history
  <2>2. /\ RingTypes' /\ ring' = ring /\ Newest' = Newest
        /\ ~ raced => Increasing' /\ (~ overrun' => Consecutive')
    BY <2>1, RingUnchanged DEF InOrder
  <2>3. InHand'
    BY <2>1 DEF InHand
  <2>4. ~ raced => InPlace'
    BY <2>1, <2>2 DEF InHand, InPlace, InOrder
  <2>5. Sampled'
    <3>1. started' \in BOOLEAN
      BY <2>1, Zenon
    <3> QED
      BY <2>1, <3>1 DEF Sampled, LoadedIsThere
  <2> QED
    BY <2>1, <2>2, <2>3, <2>4, <2>5 DEF InOrder
<1> QED
  BY <1>1, <1>2

(* rx_emit_packet drops a copy, or works out the gap. *)
LEMMA FilterKeeps ==
    ASSUME ReceiverInv, R!EmitFiltered \/ R!EmitGap
    PROVE  ReceiverInv'
<1> USE DEF ReceiverInv
<1>1. /\ npc = "filter"
      /\ UNCHANGED <<have, last, stored, read, started, cpc, avail, cw, cr, cn, heard, overrun,
                     offered, resetSince, raced>>
  BY DEF R!EmitFiltered, R!EmitGap, R!audioSide, R!ringSide, R!reading, R!history
<1>2. /\ cur.seq \in Numbers /\ cur.seq \in Nat /\ cur.seq < HalfSpace /\ last \in Nat
      /\ have \in BOOLEAN /\ (have => last < HalfSpace) /\ (have => last <= cur.seq)
      /\ lost \in Nat /\ filtered \in Nat
  BY <1>1, NumberType, HalfBounds DEF InHand
<1>3. /\ RingTypes' /\ ring' = ring /\ Newest' = Newest
      /\ ~ raced => Increasing' /\ (~ overrun' => Consecutive')
  BY <1>1, RingUnchanged DEF InOrder
<1>4. Sampled'
  BY <1>1, SampledUnchanged
<1>5. CASE R!EmitFiltered
  <2>1. npc' = "recv" /\ cur' = Nothing /\ filtered' = filtered + 1 /\ fill' = fill /\ lost' = lost
    BY <1>5 DEF R!EmitFiltered
  <2>2. have
    BY <1>2, <1>5, Comparisons DEF R!EmitFiltered, R!Filtered
  <2>3. InHand'
    BY <1>1, <1>2, <2>1, <2>2 DEF InHand
  <2>4. ~ raced => InPlace'
    BY <1>1, <1>3, <2>1, <2>2 DEF InPlace, InOrder
  <2> QED
    BY <1>1, <1>3, <1>4, <2>3, <2>4 DEF InOrder
<1>6. CASE R!EmitGap
  <2>1. /\ npc' = "fill" /\ fill' = R!Seq32!Missing(have, last, cur.seq) /\ lost' = lost + fill'
        /\ cur' = cur /\ filtered' = filtered /\ ~ R!Filtered
    BY <1>6 DEF R!EmitGap
  <2>2. have => last < cur.seq /\ fill' = (cur.seq - last) - 1
    <3>1. /\ R!Seq32!IsCopy(have, last, cur.seq) <=> have /\ cur.seq = last
          /\ have /\ last < cur.seq => R!Seq32!Missing(have, last, cur.seq) = (cur.seq - last) - 1
      BY <1>2, Comparisons, Zenon
    <3>2. ~ R!Seq32!IsCopy(have, last, cur.seq)
      BY <2>1 DEF R!Filtered
    <3>3. have => cur.seq # last
      BY <3>1, <3>2, Zenon
    <3>4. have => last < cur.seq
      BY <1>2, <3>3
    <3> QED
      BY <2>1, <3>1, <3>4, Zenon
  <2>3. ~ have => fill' = 0
    BY <2>1, Zenon DEF R!Seq32!Missing
  <2>4. fill' \in Nat /\ fill' <= cur.seq /\ fill' \in 0..SeqSpace - 1
    BY <1>2, <2>2, <2>3, HalfBounds
  <2>5. InHand'
    BY <1>1, <1>2, <2>1, <2>2, <2>3, <2>4 DEF InHand
  <2>6. ASSUME ~ raced
        PROVE  InPlace'
    <3>0. InPlace
      BY <2>6 DEF InOrder
    <3>1. Newest # Nothing => have
      BY <1>1, <3>0 DEF InPlace, Newest
    <3>2. Newest # Nothing => Newest <= last /\ Newest \in Nat
      BY <1>1, <3>0, <3>1, NewestType DEF InPlace
    <3>3. ~ overrun /\ have => Newest = last
      BY <1>1, <3>0 DEF InPlace
    <3> QED
      BY <1>1, <1>2, <1>3, <2>1, <2>2, <3>0, <3>1, <3>2, <3>3 DEF InPlace
  <2> QED
    BY <1>1, <1>3, <1>4, <2>5, <2>6 DEF InOrder
<1> QED
  BY <1>5, <1>6

(* rx_emit_packet writes a concealed or a received block to the ring. *)
LEMMA WritingKeeps ==
    ASSUME ReceiverInv, R!EmitFill \/ R!EmitWrite
    PROVE  ReceiverInv'
<1> USE DEF ReceiverInv
<1>1. /\ npc = "fill" /\ filtered' = filtered
      /\ UNCHANGED <<started, cpc, avail, cw, cr, cn, heard, resetSince>>
  BY DEF R!EmitFill, R!EmitWrite, R!Write, R!audioSide, R!reading
<1>2. /\ cur.seq \in Numbers /\ cur.seq \in Nat /\ cur.seq < HalfSpace /\ cur.pl \in Payloads
      /\ fill \in Nat /\ fill <= cur.seq /\ lost \in Nat /\ filtered \in Nat
      /\ SeqSpace \in Nat /\ HalfSpace \in Nat /\ 2 * HalfSpace <= SeqSpace
  BY <1>1, NumberType, HalfBounds DEF InHand
<1>3. ~ raced /\ Newest # Nothing => Newest \in Nat /\ Newest < cur.seq - fill
  BY <1>1, NewestType DEF InPlace, InOrder
<1>4. ~ raced /\ ~ have => Newest = Nothing
  BY <1>1 DEF InPlace, InOrder, Newest
<1>5. ~ raced /\ ~ overrun /\ Newest # Nothing => cur.seq - fill = Newest + 1
  BY <1>1, <1>2, <1>3, <1>4 DEF InPlace, InOrder, InHand
<1>6. ASSUME NEW p \in Payloads \cup {Lost}, R!Write([seq |-> cur.seq - fill, pl |-> p])
      PROVE  /\ RingTypes' /\ Sampled' /\ raced' = raced
             /\ ~ raced =>
                  /\ Increasing' /\ (~ overrun' => Consecutive')
                  /\ Newest' # Nothing => Newest' \in Nat /\ Newest' <= cur.seq - fill
                  /\ ~ overrun' => Newest' = cur.seq - fill
  <2>1. cur.seq - fill \in Nat /\ cur.seq - fill < HalfSpace
    BY <1>2
  <2> DEFINE x == cur.seq - fill
             item == [seq |-> x, pl |-> p]
  <2> HIDE DEF x
  <2>2. item \in Items
    BY <2>1, HalfBounds DEF x, Items, Numbers
  <2>3. RingTypes' /\ read' = read /\ raced' = raced /\ Len(stored) <= Len(stored')
    BY <1>1, <1>6, <2>2, WriteTypes DEF x
  <2>4. Sampled'
    <3>1. Len(stored) \in Nat /\ Len(stored') \in Nat /\ read \in Nat
      BY <2>3, LenProperties DEF RingTypes
    <3> QED
      BY <1>1, <2>3, <3>1, ReceiverAssumption DEF Sampled, LoadedIsThere
  <2>5. ASSUME ~ raced
        PROVE  /\ Increasing' /\ (~ overrun' => Consecutive')
               /\ Newest' # Nothing => Newest' <= x
               /\ ~ overrun' => Newest' = x
    <3>1. x \in Nat /\ x < HalfSpace /\ (Newest # Nothing => Newest < x)
          /\ (~ overrun /\ Newest # Nothing => x = Newest + 1)
      BY <1>3, <1>5, <2>1, <2>5 DEF x
    <3>2. Increasing /\ (~ overrun => Consecutive)
      BY <2>5 DEF InOrder
    <3>3. R!Write([seq |-> x, pl |-> p]) /\ heard' = heard
      BY <1>1, <1>6 DEF x
    <3> QED
      BY <2>5, <3>1, <3>2, <3>3, WriteKeeps
  <2>6. Newest' # Nothing => Newest' \in Nat
    <3>1. CASE ring' = << >>
      BY <2>3, <3>1, HalfBounds DEF Newest, RingTypes, Numbers
    <3>2. CASE ring' # << >>
      <4>1. ring' \in Seq(Items)
        BY <2>3, SuffixIs DEF RingTypes, ring
      <4>2. Len(ring') \in 1..Len(ring')
        BY <3>2, <4>1, EmptySeq, LenProperties
      <4>3. ring'[Len(ring')] \in Items
        BY <4>1, <4>2, ElementOfSeq
      <4> QED
        BY <3>2, <4>3, HalfBounds DEF Newest, Items, Numbers
    <3> QED
      BY <3>1, <3>2
  <2> QED
    BY <2>3, <2>4, <2>5, <2>6 DEF x
<1>7. CASE R!EmitFill
  <2>1. /\ fill > 0 /\ fill' = fill - 1 /\ UNCHANGED <<cur, npc, have, last, lost>>
        /\ R!Write([seq |-> (cur.seq - fill) % SeqSpace, pl |-> Lost])
    BY <1>7 DEF R!EmitFill
  <2>2. (cur.seq - fill) % SeqSpace = cur.seq - fill
    BY <1>2, NoWrapMod
  <2>3. have
    BY <1>1, <2>1 DEF InHand
  <2>4. /\ RingTypes' /\ Sampled' /\ raced' = raced
        /\ ~ raced =>
             /\ Increasing' /\ (~ overrun' => Consecutive')
             /\ Newest' # Nothing => Newest' \in Nat /\ Newest' <= cur.seq - fill
             /\ ~ overrun' => Newest' = cur.seq - fill
    BY <1>6, <2>1, <2>2
  <2>5. fill' \in 0..SeqSpace - 1 /\ fill' <= cur.seq
    BY <1>2, <2>1
  <2>6. InHand'
    BY <1>1, <2>1, <2>3, <2>5 DEF InHand
  <2>7. ~ raced => InPlace'
    BY <1>1, <1>2, <2>1, <2>3, <2>4 DEF InPlace
  <2> QED
    BY <2>4, <2>6, <2>7 DEF InOrder
<1>8. CASE R!EmitWrite
  <2>1. /\ fill = 0 /\ npc' = "recv" /\ cur' = Nothing /\ have' = TRUE /\ last' = cur.seq
        /\ lost' = (IF cur.pl = Lost THEN lost + 1 ELSE lost) /\ fill' = fill
        /\ R!Write([seq |-> cur.seq, pl |-> cur.pl])
    BY <1>8 DEF R!EmitWrite
  <2>2. cur.seq - fill = cur.seq
    BY <1>2, <2>1
  <2>3. /\ RingTypes' /\ Sampled' /\ raced' = raced
        /\ ~ raced =>
             /\ Increasing' /\ (~ overrun' => Consecutive')
             /\ Newest' # Nothing => Newest' \in Nat /\ Newest' <= cur.seq
             /\ ~ overrun' => Newest' = cur.seq
    BY <1>2, <1>6, <2>1, <2>2
  <2>4. InHand'
    <3>1. have' \in BOOLEAN /\ have'
      BY <2>1, Zenon
    <3>2. last' \in Numbers /\ last' \in 0..SeqSpace - 1 /\ lost' \in Nat
      BY <1>2, <2>1, NumberType
    <3>3. fill' \in 0..SeqSpace - 1
      BY <2>1 DEF InHand
    <3> QED
      BY <1>1, <1>2, <2>1, <3>1, <3>2, <3>3 DEF InHand
  <2>5. ~ raced => InPlace'
    BY <2>1, <2>3 DEF InPlace
  <2> QED
    BY <2>3, <2>4, <2>5 DEF InOrder
<1> QED
  BY <1>7, <1>8

(* The callback's steps up to its load of the index to copy from, and its  *)
(* last, leave the ring alone.                                             *)
LooksAtRing ==
    \/ R!CallbackLevel \/ R!CallbackSample \/ R!CallbackSilent \/ R!CallbackPlay
    \/ R!CallbackRead \/ R!CallbackClamp \/ R!CallbackIndex \/ R!CallbackEnd

LEMMA LooksOnly ==
    ASSUME LooksAtRing
    PROVE  UNCHANGED <<cur, npc, fill, have, last, lost, filtered, stored, read, heard, overrun,
                       offered, raced>>
BY DEF LooksAtRing, R!CallbackLevel, R!CallbackSample, R!CallbackSilent, R!CallbackPlay,
       R!CallbackRead, R!CallbackClamp, R!CallbackIndex, R!CallbackEnd, R!netSide, R!ringSide,
       R!history

(* What the callback loads is in the ring until the ring is reset. *)
LEMMA LooksKeepSampled ==
    ASSUME RingTypes, Sampled, LooksAtRing
    PROVE  Sampled'
<1>1. /\ UNCHANGED <<stored, read, raced>>
      /\ cw \in Nat /\ cr \in Nat /\ cn \in 0..Period /\ avail \in 0..IndexMod - 1
      /\ started \in BOOLEAN /\ resetSince \in BOOLEAN
      /\ Len(stored) \in Nat /\ read \in Nat /\ IndexMod \in Nat \ {0} /\ Period \in Nat
      /\ ~ raced => read <= Len(stored) /\ Len(stored) <= read + RingCap
  BY LooksOnly, LenProperties, ReceiverAssumption DEF RingTypes, Sampled
<1>2. 0 \in Nat /\ 0 \in 0..IndexMod - 1 /\ 0 \in 0..Period /\ RingCap \in Nat
  BY <1>1, ReceiverAssumption
<1>3. /\ R!Diff(cw, read) \in 0..IndexMod - 1 /\ R!Diff(cw, read) \in Nat
      /\ read <= cw /\ cw <= read + RingCap => R!Diff(cw, read) = cw - read
  BY <1>1, DiffIs
<1>4. CASE R!CallbackLevel
  <2>1. /\ cpc' = "level" /\ cw' = Len(stored) /\ resetSince' = FALSE
        /\ UNCHANGED <<started, avail, cr, cn>>
    BY <1>4 DEF R!CallbackLevel, R!ringSide, R!write
  <2>2. resetSince' \in BOOLEAN
    BY <2>1, Zenon
  <2> QED
    BY <1>1, <2>1, <2>2 DEF Sampled, LoadedIsThere
<1>5. CASE R!CallbackSample
  <2>1. /\ cpc = "level" /\ cpc' = "check" /\ avail' = R!Diff(cw, read) /\ cw' = 0
        /\ UNCHANGED <<started, resetSince, cr, cn>>
    BY <1>5 DEF R!CallbackSample, R!ringSide, R!history
  <2>2. ASSUME ~ raced, ~ resetSince
        PROVE  avail' <= Len(stored) - read
    <3>1. read <= cw /\ cw <= Len(stored)
      BY <2>1, <2>2 DEF Sampled, LoadedIsThere
    <3>2. cw <= read + RingCap
      BY <1>1, <1>2, <2>2, <3>1
    <3> QED
      BY <1>1, <1>3, <2>1, <3>1, <3>2
  <2> QED
    BY <1>1, <1>2, <1>3, <2>1, <2>2 DEF Sampled, LoadedIsThere
<1>6. CASE R!CallbackSilent
  <2>1. cpc' = "idle" /\ avail' = 0 /\ UNCHANGED <<started, resetSince, cw, cr, cn>>
    BY <1>6 DEF R!CallbackSilent, R!ringSide, R!history, R!reading
  <2> QED
    BY <1>1, <1>2, <2>1 DEF Sampled, LoadedIsThere
<1>7. CASE R!CallbackPlay
  <2>1. cpc' = "read" /\ avail' = 0 /\ started' = TRUE /\ UNCHANGED <<resetSince, cw, cr, cn>>
    BY <1>7 DEF R!CallbackPlay, R!history, R!reading
  <2>2. started' \in BOOLEAN
    BY <2>1, Zenon
  <2> QED
    BY <1>1, <1>2, <2>1, <2>2 DEF Sampled, LoadedIsThere
<1>8. CASE R!CallbackRead
  <2>1. /\ cpc' = "clamp" /\ cw' = Len(stored)
        /\ UNCHANGED <<started, resetSince, avail, cr, cn>>
    BY <1>8 DEF R!CallbackRead, R!ringSide, R!history, R!write
  <2> QED
    BY <1>1, <2>1 DEF Sampled, LoadedIsThere
<1>9. CASE R!CallbackClamp
  <2>1. /\ cpc = "clamp" /\ cn' = R!AtMost(Period, R!Diff(cw, read)) /\ cw' = 0
        /\ cpc' = (IF cn' = 0 THEN "done" ELSE "index")
        /\ UNCHANGED <<started, resetSince, avail, cr>>
    BY <1>9 DEF R!CallbackClamp, R!ringSide, R!history
  <2>2. cn' \in 0..Period /\ cn' <= R!Diff(cw, read)
    BY <1>1, <1>3, <2>1 DEF R!AtMost
  <2>3. ASSUME ~ raced
        PROVE  read + cn' <= Len(stored)
    <3>1. read <= cw /\ cw <= Len(stored)
      BY <2>1, <2>3 DEF Sampled, LoadedIsThere
    <3>2. cw <= read + RingCap
      BY <1>1, <1>2, <2>3, <3>1
    <3> QED
      BY <1>1, <1>3, <2>2, <3>1, <3>2
  <2> QED
    BY <1>1, <1>2, <2>1, <2>2, <2>3 DEF Sampled, LoadedIsThere
<1>10. CASE R!CallbackIndex
  <2>1. /\ cpc = "index" /\ cpc' = "copy" /\ cr' = read
        /\ UNCHANGED <<started, resetSince, avail, cw, cn>>
    BY <1>10 DEF R!CallbackIndex, R!ringSide, R!history
  <2> QED
    BY <1>1, <2>1 DEF Sampled, LoadedIsThere
<1>11. CASE R!CallbackEnd
  <2>1. /\ cpc' = "idle" /\ cn' = 0 /\ UNCHANGED <<resetSince, avail, cw, cr>>
        /\ started' = IF cn < Period THEN FALSE ELSE started
    BY <1>11 DEF R!CallbackEnd, R!history
  <2>2. started' \in BOOLEAN
    <3>1. CASE cn < Period
      BY <2>1, <3>1, Zenon
    <3>2. CASE ~ (cn < Period)
      BY <1>1, <2>1, <3>2
    <3> QED
      BY <3>1, <3>2
  <2> QED
    BY <1>1, <1>2, <2>1, <2>2 DEF Sampled, LoadedIsThere
<1> QED
  BY <1>4, <1>5, <1>6, <1>7, <1>8, <1>9, <1>10, <1>11 DEF LooksAtRing

(* The steps of the callback that leave the ring alone. *)
LEMMA CallbackKeeps ==
    ASSUME ReceiverInv, LooksAtRing
    PROVE  ReceiverInv'
<1> USE DEF ReceiverInv
<1>1. UNCHANGED <<cur, npc, fill, have, last, lost, filtered, stored, read, heard, overrun, offered,
                  raced>>
  BY LooksOnly
<1>2. /\ RingTypes' /\ ring' = ring /\ Newest' = Newest
      /\ ~ raced => Increasing' /\ (~ overrun' => Consecutive')
  BY <1>1, RingUnchanged DEF InOrder
<1>3. InHand'
  BY <1>1 DEF InHand
<1>4. ~ raced => InPlace'
  BY <1>1, <1>2 DEF InPlace, InOrder
<1>5. Sampled'
  BY LooksKeepSampled
<1> QED
  BY <1>1, <1>2, <1>3, <1>4, <1>5 DEF InOrder

(* The callback's late store of read_frames, after a reset that fell       *)
(* inside the read: all that is kept is types.                             *)
LEMMA RacedPublishKeeps ==
    ASSUME ReceiverInv, R!CallbackPublish, raced
    PROVE  ReceiverInv'
<1> USE DEF ReceiverInv
<1>1. /\ cpc' = "done" /\ read' = cr + cn /\ cr' = 0 /\ heard' = Nothing /\ offered' = 0
      /\ UNCHANGED <<cur, npc, fill, have, last, lost, filtered, stored, started, avail, cw, cn,
                     overrun, resetSince, raced>>
  BY DEF R!CallbackPublish, R!netSide
<1>2. read' \in Nat /\ cr' \in Nat /\ offered' \in 0..Jitter
  BY <1>1, ReceiverAssumption DEF Sampled
<1>3. RingTypes'
  BY <1>1, <1>2 DEF RingTypes
<1>4. InHand' /\ Sampled'
  BY <1>1, <1>2 DEF InHand, Sampled
<1> QED
  BY <1>1, <1>3, <1>4

(* The callback takes what it found from the ring. *)
LEMMA ReadKeeps ==
    ASSUME ReceiverInv, R!CallbackPublish, ~ raced
    PROVE  ReceiverInv'
<1> USE DEF ReceiverInv
<1> DEFINE n == cn
<1>0. /\ Increasing /\ (~ overrun => Consecutive) /\ InPlace
      /\ cpc = "copy" /\ cr = read /\ 0 < cn /\ cn \in Nat /\ read + cn <= Len(stored)
      /\ stored \in Seq(Items) /\ Len(stored) \in Nat /\ read \in Nat /\ RingCap \in Nat
      /\ read <= Len(stored) /\ Len(stored) <= read + RingCap
  BY LenProperties, ReceiverAssumption
     DEF R!CallbackPublish, InOrder, Sampled, LoadedIsThere, RingTypes
<1>2. /\ ring \in Seq(Items) /\ Len(ring) \in Nat /\ Len(ring) = Len(stored) - read
      /\ \A i \in 1..Len(ring) : ring[i] = stored[read + i]
      /\ ring = << >> <=> Len(ring) = 0
  BY <1>0, RingIs
<1>3. n \in Nat /\ 0 < n /\ n <= Len(ring)
  BY <1>0, <1>2
<1>1. /\ cpc' = "done" /\ read' = read + n /\ heard' = ring[n].seq /\ offered' = 0 /\ cr' = 0
      /\ UNCHANGED <<cur, npc, fill, have, last, lost, filtered, stored, started, avail, cw, cn,
                     overrun, resetSince, raced>>
  <2>1. n \in 1..Len(ring)
    BY <1>2, <1>3
  <2>2. ring[n] = stored[cr + cn]
    BY <1>0, <1>2, <2>1
  <2> QED
    BY <1>0, <2>2 DEF R!CallbackPublish, R!netSide
<1> HIDE DEF n
<1>4. /\ ring' \in Seq(Items) /\ Len(ring') = Len(ring) - n
      /\ \A i \in 1..Len(ring) - n : ring'[i] = ring[n + i]
  <2>1. read' \in Nat /\ stored' = stored
    BY <1>0, <1>1, <1>3
  <2>2. /\ ring' \in Seq(Items)
        /\ Len(ring') = IF read' <= Len(stored) THEN Len(stored) - read' ELSE 0
        /\ \A i \in 1..Len(stored) - read' : ring'[i] = stored[read' + i]
    BY <1>0, <2>1, SuffixIs DEF ring
  <2>3. read' <= Len(stored) /\ Len(stored) - read' = Len(ring) - n
    BY <1>0, <1>1, <1>2, <1>3
  <2>4. ASSUME NEW i \in 1..Len(ring) - n
        PROVE  ring'[i] = ring[n + i]
    <3>1. n + i \in 1..Len(ring) /\ read' + i = read + (n + i)
      BY <1>0, <1>1, <1>2, <1>3
    <3>2. ring'[i] = stored[read' + i]
      BY <2>2, <2>3
    <3> QED
      BY <1>2, <3>1, <3>2
  <2> QED
    BY <2>2, <2>3, <2>4
<1>5. ring[n].seq \in Numbers
  <2>1. n \in 1..Len(ring)
    BY <1>2, <1>3
  <2>2. ring[n] \in Items
    BY <1>2, <2>1, ElementOfSeq
  <2> QED
    BY <2>2 DEF Items
<1>6. RingTypes'
  <2>1. offered' \in 0..Jitter
    BY <1>1, ReceiverAssumption
  <2>2. read' \in Nat /\ read' <= Len(stored) /\ Len(stored) <= read' + RingCap
    BY <1>0, <1>1, <1>2, <1>3
  <2> QED
    BY <1>0, <1>1, <1>5, <2>1, <2>2 DEF RingTypes
<1>7. ring' = << >> <=> n = Len(ring)
  <2>1. ring' = << >> <=> Len(ring') = 0
    BY <1>4, EmptySeq
  <2> QED
    BY <1>2, <1>3, <1>4, <2>1
<1>8. Newest' = Newest
  <2>0. ring # << >>
    BY <1>2, <1>3
  <2>1. CASE n < Len(ring)
    <3>1. ring'[Len(ring')] = ring[Len(ring)]
      BY <1>2, <1>3, <1>4, <2>1
    <3> QED
      BY <1>2, <1>3, <1>7, <2>0, <2>1, <3>1 DEF Newest
  <2>2. CASE n = Len(ring)
    BY <1>1, <1>7, <2>0, <2>2 DEF Newest
  <2> QED
    BY <1>2, <1>3, <2>1, <2>2
<1>9. ASSUME NEW i \in 1..Len(ring') - 1
      PROVE  /\ ring'[i].seq < ring'[i + 1].seq
             /\ ~ overrun => ring'[i + 1].seq = ring'[i].seq + 1
  <2>1. n + i \in 1..Len(ring) - 1 /\ ring'[i] = ring[n + i] /\ ring'[i + 1] = ring[(n + i) + 1]
    BY <1>2, <1>3, <1>4
  <2> QED
    BY <1>0, <2>1 DEF Increasing, Consecutive
<1>10. ASSUME heard' # Nothing, ring' # << >>
       PROVE  /\ heard' < ring'[1].seq
              /\ ~ overrun => ring'[1].seq = heard' + 1
  <2>1. n < Len(ring)
    BY <1>2, <1>3, <1>7, <1>10
  <2>2. ring'[1] = ring[n + 1]
    BY <1>2, <1>3, <1>4, <2>1
  <2>3. n \in 1..Len(ring) - 1
    BY <1>2, <1>3, <2>1
  <2> QED
    BY <1>0, <1>1, <2>2, <2>3 DEF Increasing, Consecutive
<1>11. Increasing' /\ (~ overrun' => Consecutive')
  BY <1>1, <1>9, <1>10 DEF Increasing, Consecutive
<1>12. InHand'
  BY <1>1 DEF InHand
<1>13. InPlace'
  <2>1. ring # << >>
    BY <1>2, <1>3
  <2> QED
    BY <1>0, <1>1, <1>8, <2>1 DEF InPlace
<1>14. Sampled'
  <2>1. cr' \in Nat
    BY <1>1
  <2> QED
    BY <1>1, <2>1 DEF Sampled, LoadedIsThere
<1> QED
  BY <1>6, <1>11, <1>12, <1>13, <1>14 DEF InOrder

(* Steps of the sender and the network alone. *)
LEMMA ReceiverUnchanged ==
    ASSUME ReceiverInv, UNCHANGED receiverVars
    PROVE  ReceiverInv'
<1> USE DEF ReceiverInv
<1>1. /\ UNCHANGED <<cur, npc, fill, have, last, lost, filtered, stored, read, started>>
      /\ UNCHANGED <<cpc, avail, cw, cr, cn, heard, overrun, offered, resetSince, raced>>
  BY DEF receiverVars
<1>2. /\ RingTypes' /\ ring' = ring /\ Newest' = Newest
      /\ ~ raced => Increasing' /\ (~ overrun' => Consecutive')
  BY <1>1, RingUnchanged DEF InOrder
<1>3. InHand' /\ (~ raced => InPlace')
  BY <1>1, <1>2 DEF InHand, InPlace, InOrder
<1>4. Sampled'
  BY <1>1, SampledUnchanged
<1> QED
  BY <1>1, <1>2, <1>3, <1>4 DEF InOrder

-----------------------------------------------------------------------------
(* The receiver behind the sender and the network. *)

PlaybackInv == StreamInv /\ ReceiverInv

(* Numbers below the half do not wrap. *)
LEMMA BelowHalfIsNoWrap == BelowHalf => NoWrap
BY ScenarioType, SeqAssumption DEF BelowHalf, NoWrap

(* What the sender sends has a number in the lower half. *)
LEMMA SentInNumbers ==
    ASSUME BelowHalf, StreamInv, NEW p \in sent
    PROVE  p.seq \in Numbers /\ p.pl \in Payloads /\ p # Nothing
<1>1. p \in PacketType /\ p.seq < 2 * max.chunks /\ max \in Scenarios
  BY DEF StreamInv, SenderInv, SentNumbers, Counters
<1>2. max.chunks \in Nat /\ 4 * max.chunks < SeqSpace /\ p.seq \in Nat /\ p.pl \in Payloads
  BY <1>1, ScenarioType DEF BelowHalf, PacketType, Payloads
<1>3. p.seq \in Numbers
  BY <1>1, <1>2, HalfBounds DEF Numbers
<1>4. p \in [seq : Nat, parity : BOOLEAN, ns : Nat, pl : SUBSET (Nat \X Nat), era : Nat]
  BY <1>1 DEF PacketType
<1> QED
  BY <1>2, <1>3, <1>4, NothingAssumption

(* An empty ring and a sender at number 0 satisfy the invariant. *)
LEMMA InitPlaybackInv == Init => PlaybackInv
<1> SUFFICES ASSUME Init
             PROVE  PlaybackInv
  OBVIOUS
<1> USE DEF Init, R!ReceiverInit
<1>1. StreamInv
  BY StreamInitInv
<1>2. /\ stored \in Seq(Items) /\ Len(stored) = 0 /\ ring = << >>
      /\ Len(ring) = 0 /\ 1..Len(ring) - 1 = {} /\ Newest = Nothing
  <2>1. stored \in Seq(Items) /\ Len(stored) = 0 /\ read = 0
    BY EmptySeq
  <2>2. Len(ring) = 0 /\ ring \in Seq(Items)
    BY <2>1, SuffixIs DEF ring
  <2>3. ring = << >>
    BY <2>2, EmptySeq
  <2> QED
    BY <2>1, <2>2, <2>3 DEF Newest
<1>3. RingTypes
  <2>1. overrun \in BOOLEAN /\ raced \in BOOLEAN
    BY Zenon
  <2> QED
    BY <1>2, <2>1, ReceiverAssumption DEF RingTypes
<1>4. Increasing /\ Consecutive
  BY <1>2 DEF Increasing, Consecutive
<1>5. InHand
  <2>1. have \in BOOLEAN /\ ~ have
    BY Zenon
  <2>2. last \in 0..SeqSpace - 1 /\ fill \in 0..SeqSpace - 1 /\ lost \in Nat /\ filtered \in Nat
    BY SeqAssumption
  <2> QED
    BY <2>1, <2>2 DEF InHand
<1>6. InPlace
  BY <1>2 DEF InPlace
<1>7. Sampled
  <2>1. started \in BOOLEAN /\ resetSince \in BOOLEAN
    BY Zenon
  <2> QED
    BY <2>1, ReceiverAssumption DEF Sampled, LoadedIsThere
<1> QED
  BY <1>1, <1>3, <1>4, <1>5, <1>6, <1>7 DEF PlaybackInv, ReceiverInv, InOrder

(* Every step of sender, network, receive loop and callback. *)
LEMMA NextPlaybackInv ==
    ASSUME BelowHalf, PlaybackInv, [Next]_vars
    PROVE  PlaybackInv'
<1> USE DEF PlaybackInv
<1>1. NoWrap
  BY BelowHalfIsNoWrap
<1>2. CASE Network
  BY <1>1, <1>2, StreamStepKeepsInv, ReceiverUnchanged DEF Network
<1>3. CASE Receive
  <2>1. PICK i \in Arriving :
          /\ Arrive(i)
          /\ IF net[i].parity THEN UNCHANGED receiverVars ELSE R!EmitBegin(net[i])
    BY <1>3 DEF Receive
  <2>2. StreamInv' /\ net[i] \in sent
    BY <2>1, ArriveKeepsInv
  <2>3. ReceiverInv'
    <3>1. net[i].seq \in Numbers /\ net[i].pl \in Payloads /\ net[i] # Nothing
      BY <2>2, SentInNumbers
    <3>2. CASE R!EmitBegin(net[i])
      BY <3>1, <3>2, BeginKeeps
    <3>3. CASE UNCHANGED receiverVars
      BY <3>3, ReceiverUnchanged
    <3> QED
      BY <2>1, <3>2, <3>3
  <2> QED
    BY <2>2, <2>3
<1>4. CASE Emit
  BY <1>4, ResetKeeps, FilterKeeps, WritingKeeps, StreamUnchanged DEF Emit, R!EmitStep
<1>5. CASE Audio
  <2>1. StreamInv' /\ R!Callback
    BY <1>5, StreamUnchanged DEF Audio
  <2>2. LooksAtRing \/ R!CallbackPublish
    BY <2>1 DEF R!Callback, LooksAtRing
  <2> QED
    BY <2>1, <2>2, CallbackKeeps, RacedPublishKeeps, ReadKeeps
<1>6. CASE UNCHANGED vars
  <2>1. UNCHANGED streamVars /\ UNCHANGED receiverVars
    BY <1>6 DEF vars
  <2> QED
    BY <2>1, StreamUnchanged, ReceiverUnchanged
<1> QED
  BY <1>2, <1>3, <1>4, <1>5, <1>6 DEF Next

-----------------------------------------------------------------------------
(* The theorems. *)

(* In every reachable state, unless the last reset of the ring fell inside *)
(* a read of the callback, the end of the ring is where the network thread *)
(* will go on, the callback's sample of the fill level is out of date only *)
(* upwards unless the ring was reset since, and what it is about to copy   *)
(* is in the ring.                                                         *)
THEOREM PlaybackInvariant ==
    ASSUME BelowHalf
    PROVE  Spec => []PlaybackInv
<1>1. Init => PlaybackInv
  BY InitPlaybackInv
<1>2. PlaybackInv /\ [Next]_vars => PlaybackInv'
  BY NextPlaybackInv
<1> QED
  BY <1>1, <1>2, PTL DEF Spec

(* The ring stays within its capacity, a packet is in hand only inside     *)
(* rx_emit_packet, and the counters are counters.                          *)
THEOREM PlaybackTypeCorrect ==
    ASSUME BelowHalf
    PROVE  Spec => []TypeOK
<1>1. PlaybackInv => TypeOK
  <2> SUFFICES ASSUME PlaybackInv
               PROVE  TypeOK
    OBVIOUS
  <2> USE DEF PlaybackInv, ReceiverInv
  <2>1. /\ npc \in {"recv", "reset", "restarted", "filter", "fill"}
        /\ (npc = "recv") <=> (cur = Nothing)
        /\ fill \in 0..SeqSpace - 1 /\ last \in 0..SeqSpace - 1 /\ lost \in Nat /\ filtered \in Nat
        /\ read \in Nat /\ (~ raced => read <= Len(stored) /\ Len(stored) <= read + RingCap)
        /\ offered \in 0..Jitter
        /\ cpc \in {"idle", "level", "check", "read", "clamp", "index", "copy", "done"}
        /\ avail \in 0..IndexMod - 1 /\ cw \in Nat /\ cr \in Nat /\ cn \in 0..Period
    BY DEF InHand, RingTypes, Sampled
  <2>2. {have, started, overrun, resetSince, raced} \subseteq BOOLEAN
    BY Zenon DEF InHand, RingTypes, Sampled
  <2>3. R!ReceiverTypeOK
    BY <2>1, <2>2 DEF R!ReceiverTypeOK, R!write
  <2>4. sequence \in 0..SeqSpace - 1 /\ timestamp \in 0..max.chunks
    BY ScenarioType, SeqAssumption DEF BelowHalf, StreamInv, SenderInv, Counters
  <2> QED
    BY <2>3, <2>4 DEF TypeOK
<1> QED
  BY <1>1, PlaybackInvariant, PTL

(* As long as the ring had room and no reset fell inside a read, what was  *)
(* played, what waits and what comes next are consecutive numbers, each    *)
(* once.                                                                   *)
THEOREM PlaybackTimelineAligned ==
    ASSUME BelowHalf
    PROVE  Spec => []TimelineAligned
<1>1. PlaybackInv => TimelineAligned
  <2> SUFFICES ASSUME PlaybackInv, ~ overrun, ~ raced
               PROVE  /\ \A i \in 1..Len(ring) - 1 : ring[i + 1].seq = R!Next32(ring[i].seq)
                      /\ heard # Nothing /\ ring # << >> => ring[1].seq = R!Next32(heard)
                      /\ npc = "recv" /\ have /\ ring # << >> => ring[Len(ring)].seq = last
                      /\ npc = "recv" /\ have /\ ring = << >> => heard = last
    BY DEF TimelineAligned, R!TimelineAligned, R!ring, R!write, ring
  <2> USE DEF PlaybackInv, ReceiverInv, InOrder
  <2>1. ASSUME NEW s \in Nat, s < HalfSpace
        PROVE  R!Next32(s) = s + 1
    BY <2>1, HalfBounds, NoWrapMod DEF R!Next32
  <2>2. ASSUME NEW i \in 1..Len(ring) - 1
        PROVE  ring[i + 1].seq = R!Next32(ring[i].seq)
    <3>1. i \in 1..Len(ring)
      BY RingIs
    <3>2. ring[i + 1].seq = ring[i].seq + 1 /\ ring[i].seq \in Nat /\ ring[i].seq < HalfSpace
      BY <3>1, ItemSeq DEF Consecutive
    <3> QED
      BY <2>1, <3>2
  <2>3. heard # Nothing /\ ring # << >> => ring[1].seq = R!Next32(heard)
    BY <2>1, NumberType DEF RingTypes, Consecutive
  <2>4. npc = "recv" /\ have => Newest = last
    BY DEF InPlace
  <2> QED
    BY <2>2, <2>3, <2>4 DEF Newest
<1> QED
  BY <1>1, PlaybackInvariant, PTL

(* Two increasing sequences, one after the other. *)
Rises(s) == \A i \in 1..Len(s) - 1 : s[i] < s[i + 1]

(* One rising sequence continued by another rises. *)
LEMMA ConcatRises ==
    ASSUME NEW s \in Seq(Int), NEW t \in Seq(Int), Rises(s), Rises(t),
           s # << >> /\ t # << >> => s[Len(s)] < t[1]
    PROVE  Rises(s \o t)
<1>1. /\ Len(s) \in Nat /\ Len(t) \in Nat /\ Len(s \o t) = Len(s) + Len(t)
      /\ Len(s) > 0 => s # << >>
      /\ Len(t) > 0 => t # << >>
  BY LenProperties, EmptySeq, ConcatProperties
<1>2. /\ \A i \in 1..Len(s) : (s \o t)[i] = s[i]
      /\ \A i \in Len(s) + 1..Len(s) + Len(t) : (s \o t)[i] = t[i - Len(s)]
  BY <1>1
<1> SUFFICES ASSUME NEW i \in 1..Len(s \o t) - 1
             PROVE  (s \o t)[i] < (s \o t)[i + 1]
  BY DEF Rises
<1>3. CASE i < Len(s)
  <2>1. i \in 1..Len(s) - 1 /\ i \in 1..Len(s) /\ i + 1 \in 1..Len(s)
    BY <1>1, <1>3
  <2> QED
    BY <1>2, <2>1 DEF Rises
<1>4. CASE i = Len(s)
  <2>1. /\ i \in 1..Len(s) /\ i + 1 \in Len(s) + 1..Len(s) + Len(t) /\ (i + 1) - Len(s) = 1
        /\ s # << >> /\ t # << >>
    BY <1>1, <1>4
  <2> QED
    BY <1>2, <1>4, <2>1
<1>5. CASE i > Len(s)
  <2> DEFINE j == i - Len(s)
  <2>1. /\ i \in Len(s) + 1..Len(s) + Len(t) /\ i + 1 \in Len(s) + 1..Len(s) + Len(t)
        /\ j \in 1..Len(t) - 1 /\ (i + 1) - Len(s) = j + 1
    BY <1>1, <1>5
  <2>2. (s \o t)[i] = t[j]
    BY <1>2, <2>1
  <2>3. (s \o t)[i + 1] = t[(i + 1) - Len(s)]
    <3> DEFINE i1 == i + 1
    <3>1. i1 \in Len(s) + 1..Len(s) + Len(t)
      BY <2>1
    <3> HIDE DEF i1
    <3>2. (s \o t)[i1] = t[i1 - Len(s)]
      BY <1>2, <3>1
    <3> QED
      BY <3>2 DEF i1
  <2>4. (s \o t)[i + 1] = t[j + 1]
    BY <2>1, <2>3
  <2> HIDE DEF j
  <2> QED
    BY <2>1, <2>2, <2>4 DEF Rises
<1>6. i < Len(s) \/ i = Len(s) \/ i > Len(s)
  <2> DEFINE n == Len(s)
  <2>1. n \in Int /\ i \in Int
    BY <1>1
  <2> HIDE DEF n
  <2>2. i < n \/ i = n \/ i > n
    BY <2>1
  <2> QED
    BY <2>2 DEF n
<1> QED
  BY <1>3, <1>4, <1>5, <1>6

(* Nothing is played twice or out of order, ring full or not, unless a     *)
(* reset fell inside a read.                                               *)
THEOREM PlaybackTimelineOrdered ==
    ASSUME BelowHalf
    PROVE  Spec => []TimelineOrdered
<1>1. PlaybackInv => TimelineOrdered
  <2> SUFFICES ASSUME PlaybackInv, ~ raced
               PROVE  Rises(R!Timeline)
    BY DEF TimelineOrdered, R!TimelineOrdered, Rises
  <2> USE DEF PlaybackInv, ReceiverInv, InOrder
  <2> DEFINE played == IF heard = Nothing THEN << >> ELSE <<heard>>
             waiting == [i \in DOMAIN ring |-> ring[i].seq]
             written == IF npc = "fill" THEN <<cur.seq - fill>> ELSE << >>
  <2>1. /\ ring \in Seq(Items) /\ Len(ring) \in Nat /\ DOMAIN ring = 1..Len(ring)
        /\ \A i \in 1..Len(ring) : ring[i].seq \in Nat
        /\ heard # Nothing => heard \in Nat
        /\ npc = "fill" => cur.seq - fill \in Int
    <3>1. ring \in Seq(Items) /\ Len(ring) \in Nat /\ DOMAIN ring = 1..Len(ring)
      BY RingIs, LenProperties
    <3>2. \A i \in 1..Len(ring) : ring[i].seq \in Nat
      BY ItemSeq
    <3>3. heard # Nothing => heard \in Nat
      BY NumberType DEF RingTypes
    <3>4. npc = "fill" => cur.seq - fill \in Int
      BY NumberType DEF InHand
    <3> QED
      BY <3>1, <3>2, <3>3, <3>4
  <2>2. /\ waiting \in Seq(Int) /\ Len(waiting) = Len(ring)
        /\ \A i \in 1..Len(ring) : waiting[i] = ring[i].seq
    BY <2>1
  <2>3. /\ played \in Seq(Int) /\ Rises(played) /\ written \in Seq(Int) /\ Rises(written)
    BY <2>1 DEF Rises
  <2>4. Rises(waiting)
    BY <2>1, <2>2 DEF Rises, Increasing
  <2>5. waiting # << >> <=> ring # << >>
    BY <2>1, <2>2, EmptySeq
  <2>6. /\ played # << >> => played = <<heard>> /\ heard # Nothing
        /\ written # << >> => written = <<cur.seq - fill>> /\ npc = "fill"
    OBVIOUS
  <2> HIDE DEF played, waiting, written
  <2>7. Rises(played \o waiting)
    <3>1. played # << >> /\ waiting # << >> => played[Len(played)] < waiting[1]
      <4> SUFFICES ASSUME played # << >>, waiting # << >>
                   PROVE  played[Len(played)] < waiting[1]
        OBVIOUS
      <4>1. ring # << >> /\ 1 \in 1..Len(ring) /\ heard # Nothing /\ played = <<heard>>
        BY <2>1, <2>5, <2>6, EmptySeq
      <4>2. heard < ring[1].seq
        BY <4>1 DEF Increasing
      <4> QED
        BY <2>2, <4>1, <4>2
    <3> QED
      BY <2>2, <2>3, <2>4, <3>1, ConcatRises
  <2>8. Rises(played \o waiting \o written)
    <3> DEFINE s == played \o waiting
    <3>1. s \in Seq(Int) /\ Len(s) = Len(played) + Len(waiting)
      BY <2>2, <2>3, ConcatProperties
    <3>2. s # << >> /\ written # << >> => s[Len(s)] < written[1]
      <4> SUFFICES ASSUME s # << >>, written # << >>
                   PROVE  s[Len(s)] < written[1]
        OBVIOUS
      <4>1. written = <<cur.seq - fill>> /\ npc = "fill"
        BY <2>6
      <4>2. s[Len(s)] = Newest /\ Newest # Nothing
        <5>1. CASE ring = << >>
          <6>1. Len(waiting) = 0 /\ played # << >>
            BY <2>2, <2>3, <3>1, <5>1, EmptySeq
          <6>2. played = <<heard>> /\ heard # Nothing /\ Len(played) = 1
            BY <2>6, <6>1
          <6>3. Len(s) = 1 /\ s[1] = heard
            BY <2>2, <2>3, <3>1, <6>1, <6>2
          <6> QED
            BY <5>1, <6>2, <6>3 DEF Newest
        <5>2. CASE ring # << >>
          <6>1. Len(ring) \in 1..Len(ring)
            BY <2>1, <5>2, EmptySeq
          <6>2. s[Len(s)] = waiting[Len(waiting)]
            BY <2>1, <2>2, <2>3, <3>1, <6>1
          <6>3. ring[Len(ring)].seq \in Nat
            BY <2>1, <6>1
          <6> QED
            BY <2>2, <5>2, <6>1, <6>2, <6>3, NothingAssumption DEF Newest
        <5> QED
          BY <5>1, <5>2
      <4> QED
        BY <4>1, <4>2 DEF InPlace
    <3> HIDE DEF s
    <3>3. Rises(s \o written)
      BY <2>3, <2>7, <3>1, <3>2, ConcatRises DEF s
    <3> QED
      BY <3>3 DEF s
  <2>9. R!Timeline = played \o waiting \o written
    BY DEF R!Timeline, R!ring, R!write, ring, played, waiting, written
  <2> QED
    BY <2>8, <2>9
<1> QED
  BY <1>1, PlaybackInvariant, PTL

(* Playback starts only with the jitter target in the ring, or when the    *)
(* ring was reset under the callback.                                      *)
THEOREM PlaybackStartsPrimed ==
    ASSUME BelowHalf
    PROVE  Spec => StartsPrimed
<1>1. PlaybackInv /\ [Next]_vars =>
        [~ started /\ started' => Jitter <= Len(R!ring) \/ resetSince \/ raced]_(R!receiverVars)
  <2> SUFFICES ASSUME PlaybackInv, [Next]_vars, ~ started, started', ~ resetSince, ~ raced
               PROVE  Jitter <= Len(R!ring)
    OBVIOUS
  <2> USE DEF PlaybackInv, ReceiverInv
  <2>1. R!CallbackPlay
    BY DEF Next, Network, Receive, Emit, Audio, vars, receiverVars, R!Callback, R!CallbackLevel,
           R!CallbackSample, R!CallbackSilent, R!CallbackRead, R!CallbackClamp, R!CallbackIndex,
           R!CallbackPublish, R!CallbackEnd, R!EmitStep, R!EmitBegin, R!EmitReset,
           R!EmitRestarted, R!EmitFiltered, R!EmitGap, R!EmitFill, R!EmitWrite, R!Write,
           R!ringSide
  <2>2. cpc = "check" /\ Jitter <= avail
    BY <2>1, ReceiverAssumption DEF R!CallbackPlay, R!Primed, Sampled
  <2>3. avail <= Len(stored) - read
    BY <2>2 DEF Sampled, LoadedIsThere
  <2>4. Len(ring) = Len(stored) - read /\ Len(stored) - read \in Int /\ avail \in Nat
    BY RingIs, LenProperties, ReceiverAssumption DEF RingTypes, Sampled
  <2>5. R!ring = ring
    BY DEF R!ring, R!write, ring
  <2>6. Jitter <= Len(ring)
    BY <2>2, <2>3, <2>4, ReceiverAssumption
  <2> QED
    BY <2>5, <2>6
<1> QED
  BY <1>1, PlaybackInvariant, PTL DEF Spec, StartsPrimed, R!StartsPrimed

-----------------------------------------------------------------------------
(* The count of losses, where the network keeps the order of packets and   *)
(* FEC is off.                                                             *)

PlainInOrder == GroupSize = 0 /\ \A s \in Scenarios : s.overtake = 0

(* A packet without samples is one the receiver's FEC could not fill.      *)
LostIsNoPayload == Lost \notin Payloads

(* The number of the packet that arrived last. *)
Frontier == IF npc = "recv" THEN last ELSE cur.seq

Between(low, high) == {d \in dropped : low < d.seq /\ d.seq < high}

(* What is in flight comes after what has arrived, or is a second copy.    *)
Ahead == \A p : Holds(net, p) => Frontier <= p.seq /\ (p.seq = Frontier => p \in copies)

(* What was sent after the last arrival is lost or in flight. *)
Accounted ==
    \A p \in sent : first = Nothing \/ Frontier < p.seq => p \in dropped \/ Holds(net, p)

(* What has arrived is not lost; what it jumped over is. *)
Jumped ==
    /\ \A d \in dropped : d.seq # Frontier /\ (have => d.seq # last)
    /\ npc # "recv" /\ have =>
        last <= cur.seq /\ \A p \in sent : last < p.seq /\ p.seq < cur.seq => p \in dropped

(* The count is up to date before the gap is measured and after it.        *)
Counted ==
    /\ npc # "recv" => cur \in sent
    /\ have => first.seq <= last /\ \E p \in sent : p.seq = last
    /\ ~ have => cur = first /\ lost = 0
    /\ npc \in {"recv", "filter"} /\ have => lost = Cardinality(Between(first.seq, last))
    /\ npc = "fill" => lost = Cardinality(Between(first.seq, cur.seq))

FirstRun ==
    /\ Ascending(net) /\ \A d \in dropped : ~ Holds(net, d)
    /\ npc \notin {"reset", "restarted"}
    /\ first = Nothing <=> npc = "recv" /\ ~ have
    /\ first = Nothing => lost = 0
    /\ Accounted
    /\ first # Nothing => first \in sent /\ Ahead /\ Jumped /\ Counted

LossInv == IsFiniteSet(dropped) /\ (era = 0 => FirstRun)

(* What PlainInOrder says of a scenario. *)
LEMMA MaxIs ==
    ASSUME PlainInOrder, StreamInv
    PROVE  max.overtake = 0 /\ GroupSize = 0 /\ era \in Nat
<1>1. max \in Scenarios /\ era \in 0..max.eras
  BY DEF StreamInv, SenderInv, Counters
<1> QED
  BY <1>1, ScenarioType DEF PlainInOrder

(* In the first run a number is a packet's, and all packets are data.      *)
LEMMA FirstRunSent ==
    ASSUME PlainInOrder, StreamInv, era = 0
    PROVE  /\ \A p \in sent : p.seq \in Nat /\ p.seq < sequence /\ ~ p.parity
           /\ \A p, q \in sent : p.seq = q.seq => p = q
           /\ \A p \in sent, n \in Nat : n < p.seq => \E q \in sent : q.seq = n
           /\ sequence \in Nat /\ dropped \subseteq sent
<1>1. SenderInv /\ dropped \subseteq sent /\ GroupSize = 0
  BY DEF StreamInv, NetInv, PlainInOrder
<1>2. \A p \in sent : p.era = 0 /\ p.seq \in Nat /\ p.seq < sequence /\ ~ p.parity
  BY <1>1 DEF SenderInv, SentNumbers, PacketType
<1>3. \A p, q \in sent : p.seq = q.seq => p = q
  BY <1>1, <1>2 DEF SenderInv, SentOnce
<1>4. \A p \in sent, n \in Nat : n < p.seq => \E q \in sent : q.seq = n
  BY <1>1 DEF SenderInv, SentOnce
<1>5. sequence \in Nat
  BY <1>1 DEF SenderInv, Counters
<1> QED
  BY <1>1, <1>2, <1>3, <1>4, <1>5

(* What the receive loop has in hand. *)
LEMMA HandTypes ==
    ASSUME ReceiverInv
    PROVE  /\ last \in Nat /\ last < SeqSpace /\ have \in BOOLEAN /\ lost \in Nat
           /\ have => last < HalfSpace
           /\ npc = "recv" <=> cur = Nothing
           /\ npc # "recv" => cur.seq \in Nat /\ cur.seq < HalfSpace /\ cur.pl \in Payloads
BY NumberType, HalfBounds DEF ReceiverInv, InHand

(* Before the first packet nothing is lost. *)
LEMMA LossInit ==
    ASSUME Init
    PROVE  LossInv
<1>1. sent = {} /\ dropped = {} /\ net = << >> /\ first = Nothing /\ npc = "recv" /\ lost = 0 /\ ~ have
  <2>1. have = FALSE
    BY DEF Init, R!ReceiverInit
  <2> QED
    BY <2>1 DEF Init, StreamInit, SenderInit, R!ReceiverInit
<1>2. Len(net) = 0
  BY <1>1
<1>3. Ascending(net) /\ \A p : ~ Holds(net, p)
  BY <1>2 DEF Ascending, Holds
<1>4. IsFiniteSet(dropped)
  BY <1>1, FS_EmptySet
<1> QED
  BY <1>1, <1>3, <1>4 DEF LossInv, FirstRun, Accounted

(* Steps of the network thread between two packets and of the callback     *)
(* that touch nothing the count is about.                                  *)
LEMMA LossUnchanged ==
    ASSUME LossInv,
           UNCHANGED <<era, net, sent, dropped, copies, first, cur, npc, have, last, lost>>
    PROVE  LossInv'
<1>1. /\ Ascending(net)' <=> Ascending(net)
      /\ \A p : Holds(net, p)' <=> Holds(net, p)
  BY DEF Ascending, Holds
<1>2. Frontier' = Frontier /\ \A l, h : Between(l, h)' = Between(l, h)
  BY DEF Frontier, Between
<1>3. /\ Ahead' <=> Ahead
      /\ Accounted' <=> Accounted
      /\ Jumped' <=> Jumped
  BY <1>1, <1>2 DEF Ahead, Accounted, Jumped
<1>4. Counted' <=> Counted
  <2>1. Between(first.seq, last)' = Between(first.seq, last)
    BY <1>2
  <2>2. Between(first.seq, cur.seq)' = Between(first.seq, cur.seq)
    BY <1>2
  <2> QED
    BY <2>1, <2>2 DEF Counted
<1> QED
  BY <1>1, <1>3, <1>4 DEF LossInv, FirstRun

(* Where the network thread is, is the number of a packet sent.            *)
LEMMA FrontierSent ==
    ASSUME ReceiverInv, LossInv, era = 0, first # Nothing
    PROVE  /\ Frontier \in Nat /\ \E p \in sent : p.seq = Frontier
           /\ have => last <= Frontier
<1>1. FirstRun /\ Counted /\ Jumped /\ last \in Nat /\ (npc # "recv" => cur.seq \in Nat)
  BY HandTypes DEF LossInv, FirstRun
<1>2. npc = "recv" => have
  BY <1>1 DEF FirstRun
<1>3. CASE npc = "recv"
  BY <1>1, <1>2, <1>3 DEF Frontier, Counted
<1>4. CASE npc # "recv"
  BY <1>1, <1>4 DEF Frontier, Counted, Jumped
<1> QED
  BY <1>3, <1>4

(* The sender and the network go on: packets are sent or lost that the     *)
(* receiver has not got to.                                                *)
LEMMA LossAhead ==
    ASSUME PlainInOrder, StreamInv, ReceiverInv, LossInv, era = 0, era' = era,
           UNCHANGED <<first, cur, npc, have, last, lost, copies>>,
           Ascending(net'), sent \subseteq sent',
           IsFiniteSet(dropped'), dropped \subseteq dropped',
           \A d \in dropped' : ~ Holds(net', d),
           \A p : Holds(net', p) => Holds(net, p) \/ p \in sent' \ sent,
           \A p \in sent' : p \in dropped \/ Holds(net, p) \/ p \notin sent =>
                p \in dropped' \/ Holds(net', p),
           first # Nothing =>
                /\ \A d \in dropped' \ dropped : d.seq \in Nat /\ Frontier < d.seq
                /\ \A p \in sent' \ sent : p.seq \in Nat /\ Frontier < p.seq
    PROVE  LossInv'
<1>1. FirstRun
  BY DEF LossInv
<1>2. Ascending(net)' /\ \A p : Holds(net, p)' <=> Holds(net', p)
  BY DEF Ascending, Holds
<1>3. Frontier' = Frontier
  BY DEF Frontier
<1>4. Accounted'
  BY <1>1, <1>2, <1>3 DEF FirstRun, Accounted
<1>5. ASSUME first # Nothing
      PROVE  Ahead' /\ Jumped' /\ Counted'
  <2>1. /\ Frontier \in Nat /\ last \in Nat /\ (have => last <= Frontier)
        /\ \A d \in dropped' \ dropped : d.seq \in Nat /\ Frontier < d.seq
        /\ \A p \in sent' \ sent : p.seq \in Nat /\ Frontier < p.seq
        /\ Ahead /\ Jumped /\ Counted
    BY <1>1, <1>5, FrontierSent, HandTypes DEF FirstRun
  <2>2. Ahead'
    <3> SUFFICES ASSUME NEW p, Holds(net', p)
                 PROVE  Frontier <= p.seq /\ (p.seq = Frontier => p \in copies)
      BY <1>2, <1>3 DEF Ahead
    <3>1. CASE Holds(net, p)
      BY <2>1, <3>1 DEF Ahead
    <3>2. CASE p \in sent' \ sent
      BY <2>1, <3>2
    <3> QED
      BY <3>1, <3>2
  <2>3. \A d \in dropped' : d.seq # Frontier /\ (have => d.seq # last)
    BY <2>1 DEF Jumped
  <2>4. ASSUME npc # "recv", have
        PROVE  last <= cur.seq /\ \A p \in sent' : last < p.seq /\ p.seq < cur.seq => p \in dropped'
    BY <2>1, <2>4 DEF Jumped, Frontier
  <2>5. Jumped'
    BY <1>3, <2>3, <2>4 DEF Jumped
  <2>6. ASSUME NEW l, NEW h \in Nat, h <= Frontier
        PROVE  Between(l, h)' = Between(l, h)
    <3>1. \A d \in dropped' \ dropped : ~ (d.seq < h)
      BY <2>1, <2>6
    <3>2. Between(l, h)' = {d \in dropped' : l < d.seq /\ d.seq < h}
      BY DEF Between
    <3> QED
      BY <3>1, <3>2 DEF Between
  <2>7. have => Between(first.seq, last)' = Between(first.seq, last)
    <3>1. have => \A l : Between(l, last)' = Between(l, last)
      BY <2>1, <2>6
    <3> QED
      BY <3>1 DEF Between
  <2>8. npc # "recv" => Between(first.seq, cur.seq)' = Between(first.seq, cur.seq)
    <3>1. npc # "recv" => cur.seq \in Nat /\ cur.seq = Frontier
      BY HandTypes DEF Frontier
    <3>2. npc # "recv" => \A l : {d \in dropped' : l < d.seq /\ d.seq < cur.seq} = Between(l, cur.seq)
      <4> SUFFICES ASSUME npc # "recv", NEW l
                   PROVE  {d \in dropped' : l < d.seq /\ d.seq < cur.seq} = Between(l, cur.seq)
        OBVIOUS
      <4>1. \A d \in dropped' \ dropped : ~ (d.seq < cur.seq)
        BY <2>1, <3>1
      <4> QED
        BY <4>1 DEF Between
    <3>3. Between(first.seq, cur.seq)' = {d \in dropped' : first.seq < d.seq /\ d.seq < cur.seq}
      BY DEF Between
    <3> QED
      BY <3>2, <3>3
  <2>9. Counted'
    BY <2>1, <2>7, <2>8 DEF Counted
  <2> QED
    BY <2>2, <2>5, <2>9
<1> QED
  BY <1>1, <1>2, <1>4, <1>5 DEF LossInv, FirstRun

(* After a restart the statement claims nothing. *)
LEMMA LossOver ==
    ASSUME IsFiniteSet(dropped'), era' # 0
    PROVE  LossInv'
BY DEF LossInv

(* A packet sent is in flight. *)
LEMMA SendKeepsLoss ==
    ASSUME PlainInOrder, BelowHalf, PlaybackInv, LossInv, Send, UNCHANGED <<receiverVars, first>>
    PROVE  LossInv'
<1>1. NoWrap /\ StreamInv /\ ReceiverInv
  BY BelowHalfIsNoWrap DEF PlaybackInv
<1>2. IsFiniteSet(dropped) /\ (era = 0 => FirstRun)
  BY DEF LossInv
<1>3. UNCHANGED <<first, cur, npc, have, last, lost, copies>>
  BY DEF receiverVars, Send
<1>4. CASE era # 0
  <2>1. IsFiniteSet(dropped') /\ era' = era
    BY <1>1, <1>2, SendDrops
  <2> QED
    BY <1>4, <2>1, LossOver
<1>5. CASE era = 0
  <2>1. Ascending(net)
    BY <1>2, <1>5 DEF FirstRun
  <2>2. /\ Ascending(net') /\ era' = era /\ sent \subseteq sent' /\ dropped \subseteq dropped'
        /\ IsFiniteSet(dropped')
        /\ \A p \in sent' \ sent : p.seq \in Nat /\ sequence <= p.seq
        /\ dropped' \subseteq dropped \cup (sent' \ sent)
        /\ \A p : Holds(net', p) <=> Holds(net, p) \/ p \in (sent' \ sent) \ dropped'
    BY <1>1, <1>2, <2>1, SendAppends
  <2>3. \A p : Holds(net, p) => p \in sent
    BY <1>1, InFlight
  <2>4. \A d \in dropped' : ~ Holds(net', d)
    BY <1>2, <1>5, <2>2, <2>3 DEF FirstRun
  <2>5. \A p \in sent' : p \in dropped \/ Holds(net, p) \/ p \notin sent =>
                p \in dropped' \/ Holds(net', p)
    BY <2>2
  <2>6. first # Nothing =>
                /\ \A d \in dropped' \ dropped : d.seq \in Nat /\ Frontier < d.seq
                /\ \A p \in sent' \ sent : p.seq \in Nat /\ Frontier < p.seq
    <3> SUFFICES ASSUME first # Nothing
                 PROVE  \A p \in sent' \ sent : p.seq \in Nat /\ Frontier < p.seq
      BY <2>2
    <3>1. Frontier \in Nat /\ Frontier < sequence /\ sequence \in Nat
      BY <1>1, <1>5, FrontierSent, FirstRunSent
    <3> QED
      BY <2>2, <3>1
  <2> QED
    BY <1>1, <1>3, <1>5, <2>2, <2>4, <2>5, <2>6, LossAhead
<1> QED
  BY <1>4, <1>5

(* A packet lost comes before those still in flight. *)
LEMMA LoseKeepsLoss ==
    ASSUME PlainInOrder, PlaybackInv, LossInv, Lose, UNCHANGED <<receiverVars, first>>
    PROVE  LossInv'
<1>1. StreamInv /\ ReceiverInv
  BY DEF PlaybackInv
<1>2. PICK i \in Arriving : /\ net[i] \notin copies
                            /\ dropped' = dropped \cup {net[i]}
                            /\ net' = RemoveAt(net, i)
                            /\ UNCHANGED <<senderVars, copies>>
  BY DEF Lose
<1>3. UNCHANGED <<first, cur, npc, have, last, lost, copies, era, sent>>
  BY <1>2 DEF receiverVars, senderVars
<1>4. IsFiniteSet(dropped')
  BY <1>2, FS_AddElement DEF LossInv
<1>5. CASE era # 0
  BY <1>3, <1>4, <1>5, LossOver
<1>6. CASE era = 0
  <2> DEFINE p == net[1]
  <2>1. FirstRun /\ Ascending(net)
    BY <1>6 DEF LossInv, FirstRun
  <2>2. i = 1 /\ 1 \in 1..Len(net) /\ Holds(net, p) /\ net \in Seq(PacketType)
    BY <1>1, <2>1, MaxIs, OldestArrives, InFlight
  <2>3. /\ Ascending(net') /\ ~ Holds(net', p)
        /\ \A x : Holds(net', x) => Holds(net, x)
        /\ \A x : Holds(net, x) => x = p \/ Holds(net', x)
    <3>1. net' = RemoveAt(net, 1)
      BY <1>2, <2>2
    <3> QED
      BY <2>1, <2>2, <3>1, HeadRemoved
  <2>4. p \notin copies /\ dropped' = dropped \cup {p}
    BY <1>2, <2>2
  <2>5. p.seq \in Nat
    BY <1>1, <2>2, InFlight
  <2> HIDE DEF p
  <2>6. \A d \in dropped' : ~ Holds(net', d)
    BY <2>1, <2>3, <2>4 DEF FirstRun
  <2>7. \A x \in sent' : x \in dropped \/ Holds(net, x) \/ x \notin sent =>
                x \in dropped' \/ Holds(net', x)
    BY <1>3, <2>3, <2>4
  <2>8. first # Nothing => Frontier < p.seq
    <3> SUFFICES ASSUME first # Nothing
                 PROVE  Frontier < p.seq
      OBVIOUS
    <3>1. Frontier <= p.seq /\ p.seq # Frontier
      BY <2>1, <2>2, <2>4 DEF FirstRun, Ahead
    <3>2. Frontier \in Nat
      BY <1>1, <1>6, FrontierSent
    <3> QED
      BY <2>5, <3>1, <3>2
  <2> QED
    BY <1>1, <1>3, <1>4, <1>6, <2>3, <2>4, <2>5, <2>6, <2>7, <2>8, LossAhead
<1> QED
  BY <1>5, <1>6

(* A step of the sender or the network: sent, lost, or the sender          *)
(* restarted.                                                              *)
LEMMA NetworkKeepsLoss ==
    ASSUME PlainInOrder, BelowHalf, PlaybackInv, LossInv, Network
    PROVE  LossInv'
<1>1. UNCHANGED <<receiverVars, first>>
  BY DEF Network
<1>2. CASE Send
  BY <1>1, <1>2, SendKeepsLoss
<1>3. CASE SendHardError
  <2>1. UNCHANGED <<era, net, sent, dropped, copies, first, cur, npc, have, last, lost>>
    BY <1>1, <1>3 DEF SendHardError, SendRefused, SendFails, receiverVars
  <2> QED
    BY <2>1, LossUnchanged
<1>4. CASE Restart
  <2>1. era \in Nat /\ era' = era + 1 /\ dropped' = dropped
    BY <1>4, MaxIs DEF PlaybackInv, Restart, SenderRestart, netVars
  <2> QED
    BY <2>1, LossOver DEF LossInv
<1>5. CASE Lose
  BY <1>1, <1>5, LoseKeepsLoss
<1> QED
  BY <1>2, <1>3, <1>4, <1>5 DEF Network, StreamStep

(* rx_emit_packet begins with the oldest packet in flight: all between it  *)
(* and the last one is lost.                                               *)
LEMMA ReceiveKeepsLoss ==
    ASSUME PlainInOrder, BelowHalf, PlaybackInv, LossInv, Receive
    PROVE  LossInv'
<1>1. StreamInv /\ ReceiverInv
  BY DEF PlaybackInv
<1>2. PICK i \in Arriving :
          /\ npc = "recv"
          /\ Arrive(i)
          /\ IF net[i].parity THEN UNCHANGED receiverVars ELSE R!EmitBegin(net[i])
          /\ first' = IF first = Nothing THEN net[i] ELSE first
  BY DEF Receive
<1>3. UNCHANGED <<era, sent, dropped>>
  BY <1>2 DEF Arrive, senderVars
<1>4. CASE era # 0
  BY <1>3, <1>4 DEF LossInv
<1>5. CASE era = 0
  <2> DEFINE p == net[1]
  <2>1. FirstRun /\ Ascending(net)
    BY <1>5 DEF LossInv, FirstRun
  <2>2. /\ i = 1 /\ 1 \in 1..Len(net) /\ Holds(net, p) /\ net \in Seq(PacketType)
        /\ \A x : Holds(net, x) => p.seq <= x.seq
    BY <1>1, <2>1, MaxIs, OldestArrives, InFlight
  <2>3. /\ p \in sent /\ p.seq \in Nat /\ ~ p.parity /\ p # Nothing /\ p.seq < HalfSpace
        /\ \A x, y \in sent : x.seq = y.seq => x = y
        /\ \A x : Holds(net, x) => x \in sent /\ x.seq \in Nat
        /\ dropped \subseteq sent
    <3>1. p \in sent /\ p.seq \in Nat
      BY <1>1, <2>2, InFlight
    <3>2. ~ p.parity /\ (\A x, y \in sent : x.seq = y.seq => x = y) /\ dropped \subseteq sent
      BY <1>1, <1>5, <3>1, FirstRunSent
    <3>3. p # Nothing /\ p.seq < HalfSpace
      BY <1>1, <3>1, SentInNumbers, NumberType
    <3>4. \A x : Holds(net, x) => x \in sent /\ x.seq \in Nat
      BY <1>1, InFlight
    <3> QED
      BY <3>1, <3>2, <3>3, <3>4
  <2>4. R!EmitBegin(p) /\ first' = IF first = Nothing THEN p ELSE first
    BY <1>2, <2>2, <2>3
  <2>5. \/ net' = RemoveAt(net, 1) /\ copies' = copies
        \/ net' = net /\ copies' = copies \cup {p}
    BY <1>2, <2>2 DEF Arrive
  <2>6. /\ Ascending(net')
        /\ \A x : Holds(net', x) => Holds(net, x) /\ (x = p => p \in copies')
        /\ \A x : Holds(net, x) => x = p \/ Holds(net', x)
    <3>1. CASE net' = RemoveAt(net, 1)
      BY <2>1, <2>2, <3>1, HeadRemoved
    <3>2. CASE net' = net /\ copies' = copies \cup {p}
      BY <2>1, <3>2 DEF Ascending, Holds
    <3> QED
      BY <2>5, <3>1, <3>2
  <2> HIDE DEF p
  <2>7. have /\ first # Nothing => last \in Nat /\ last < HalfSpace /\ last <= p.seq
    <3> SUFFICES ASSUME have, first # Nothing
                 PROVE  last \in Nat /\ last < HalfSpace /\ last <= p.seq
      OBVIOUS
    <3>1. Frontier = last
      BY <1>2 DEF Frontier
    <3> QED
      BY <1>1, <2>1, <2>2, <3>1, HandTypes DEF FirstRun, Ahead
  <2>8. have <=> first # Nothing
    BY <1>2, <2>1 DEF FirstRun
  <2>9. ~ R!Seq32!LooksRestarted(have, last, p.seq)
    <3>1. have \in BOOLEAN /\ last \in Nat
      BY <1>1, HandTypes
    <3>2. R!Seq32!LooksRestarted(have, last, p.seq) <=> have /\ p.seq < last
      BY <1>1, <2>3, <3>1, Comparisons, HandTypes
    <3> QED
      BY <2>3, <2>7, <2>8, <3>2
  <2>10. /\ npc' = "filter" /\ cur' = p
         /\ UNCHANGED <<have, last, lost>>
    BY <2>4, <2>9 DEF R!EmitBegin
  <2>11. first' # Nothing /\ first' \in sent
    BY <2>1, <2>3, <2>4 DEF FirstRun
  <2>12. Frontier' = p.seq
    BY <2>10 DEF Frontier
  <2>13. Ascending(net)' /\ \A x : Holds(net, x)' <=> Holds(net', x)
    BY <2>6 DEF Ascending, Holds
  <2>14. \A x \in sent : first = Nothing \/ last < x.seq => x \in dropped \/ Holds(net, x)
    BY <1>2, <2>1 DEF FirstRun, Accounted, Frontier
  <2>15. Ahead'
    <3> SUFFICES ASSUME NEW x, Holds(net', x)
                 PROVE  p.seq <= x.seq /\ (x.seq = p.seq => x \in copies')
      BY <2>12, <2>13 DEF Ahead
    <3> QED
      BY <2>2, <2>3, <2>6
  <2>16. Accounted'
    <3> SUFFICES ASSUME NEW x \in sent, p.seq < x.seq
                 PROVE  x \in dropped \/ Holds(net', x)
      BY <1>3, <2>11, <2>12, <2>13 DEF Accounted
    <3>1. first = Nothing \/ last < x.seq
      BY <1>1, <1>5, <2>3, <2>7, <2>8, FirstRunSent
    <3>2. x # p
      BY <2>3
    <3> QED
      BY <2>6, <2>14, <3>1, <3>2
  <2>17. Jumped'
    <3>1. p \notin dropped
      BY <2>1, <2>2 DEF FirstRun
    <3>2. \A d \in dropped : d.seq # p.seq
      BY <2>3, <3>1
    <3>3. have => \A d \in dropped : d.seq # last
      BY <2>1, <2>8 DEF FirstRun, Jumped
    <3>4. ASSUME have, NEW x \in sent, last < x.seq, x.seq < p.seq
          PROVE  x \in dropped
      <4>1. x.seq \in Nat
        BY <1>1, <1>5, FirstRunSent
      <4>2. ~ Holds(net, x)
        BY <2>2, <2>3, <3>4, <4>1
      <4> QED
        BY <2>14, <3>4, <4>2
    <3> QED
      BY <1>3, <2>7, <2>8, <2>10, <2>12, <3>2, <3>3, <3>4 DEF Jumped
  <2>18. Counted'
    <3>1. CASE have
      <4>1. first' = first /\ Counted
        BY <2>1, <2>4, <2>8, <3>1 DEF FirstRun
      <4>2. Between(first.seq, last)' = Between(first.seq, last)
        BY <1>3, <2>10, <4>1 DEF Between
      <4> QED
        BY <1>2, <1>3, <2>3, <2>10, <3>1, <4>1, <4>2 DEF Counted
    <3>2. CASE ~ have
      <4>1. first' = p /\ lost = 0
        BY <2>1, <2>4, <2>8, <3>2 DEF FirstRun
      <4> QED
        BY <1>3, <2>3, <2>10, <3>2, <4>1 DEF Counted
    <3> QED
      BY <3>1, <3>2
  <2>19. \A d \in dropped : ~ Holds(net', d)
    BY <2>1, <2>6 DEF FirstRun
  <2> QED
    BY <1>3, <1>5, <2>10, <2>11, <2>13, <2>15, <2>16, <2>17, <2>18, <2>19, <2>6
       DEF LossInv, FirstRun
<1> QED
  BY <1>4, <1>5

(* A gap counts as many losses as packets were lost in it. *)
LEMMA GapCount ==
    ASSUME PlainInOrder, StreamInv, LossInv, era = 0,
           NEW a \in Nat, NEW l \in Nat, NEW c \in Nat, a <= l, l < c,
           \A d \in dropped : d.seq # l,
           \A p \in sent : l < p.seq /\ p.seq < c => p \in dropped,
           \E p \in sent : p.seq = c
    PROVE  Cardinality(Between(a, c)) = Cardinality(Between(a, l)) + ((c - l) - 1)
<1> DEFINE gap == Between(l, c)
           T == l + 1..c - 1
           f == [d \in gap |-> d.seq]
<1>1. /\ IsFiniteSet(dropped) /\ dropped \subseteq sent
      /\ \A p \in sent : p.seq \in Nat
      /\ \A p, q \in sent : p.seq = q.seq => p = q
      /\ \A n \in Nat : n < c => \E q \in sent : q.seq = n
  BY FirstRunSent DEF LossInv
<1>2. /\ IsFiniteSet(Between(a, l)) /\ Between(a, l) \subseteq dropped
      /\ IsFiniteSet(gap) /\ gap \subseteq dropped
  BY <1>1, FS_Subset DEF Between
<1>3. Between(a, c) = Between(a, l) \cup gap
  <2> SUFFICES ASSUME NEW d \in dropped
               PROVE  a < d.seq /\ d.seq < c <=> (a < d.seq /\ d.seq < l) \/ (l < d.seq /\ d.seq < c)
    BY DEF Between
  <2>1. d.seq \in Nat /\ d.seq # l
    BY <1>1
  <2> QED
    BY <2>1
<1>4. Between(a, l) \cap gap = {}
  <2>1. \A d \in dropped : ~ (d.seq < l /\ l < d.seq)
    BY <1>1
  <2> QED
    BY <2>1 DEF Between
<1>5. \A d \in gap : d.seq \in T /\ d \in sent
  BY <1>1 DEF Between
<1>6. \A n \in T : \E d \in gap : d.seq = n
  <2> SUFFICES ASSUME NEW n \in T
               PROVE  \E d \in gap : d.seq = n
    OBVIOUS
  <2>1. n \in Nat /\ l < n /\ n < c
    OBVIOUS
  <2>2. PICK q \in sent : q.seq = n
    BY <1>1, <2>1
  <2> QED
    BY <2>1, <2>2 DEF Between
<1>7. f \in Surjection(gap, T) /\ f \in Injection(gap, T)
  <2>1. f \in [gap -> T] /\ \A d \in gap : f[d] = d.seq
    BY <1>5
  <2> HIDE DEF f, gap, T
  <2>2. \A d, x \in gap : f[d] = f[x] => d = x
    BY <1>1, <1>5, <2>1
  <2>3. \A n \in T : \E d \in gap : f[d] = n
    BY <1>6, <2>1
  <2> QED
    BY <2>1, <2>2, <2>3 DEF Surjection, Injection, IsInjective
<1>8. Cardinality(T) = Cardinality(gap)
  <2> HIDE DEF f, gap, T
  <2> QED
    BY <1>2, <1>7, FS_Surjection
<1>9. Cardinality(T) = (c - l) - 1
  <2>1. l + 1 \in Int /\ c - 1 \in Int
    OBVIOUS
  <2>2. Cardinality(T) = IF l + 1 > c - 1 THEN 0 ELSE (c - 1) - (l + 1) + 1
    BY <2>1, FS_Interval
  <2> QED
    BY <2>2
<1>10. Cardinality(Between(a, c)) = Cardinality(Between(a, l)) + Cardinality(gap) - Cardinality({})
  <2> HIDE DEF gap
  <2>1. Cardinality(Between(a, l) \cup gap)
            = Cardinality(Between(a, l)) + Cardinality(gap) - Cardinality(Between(a, l) \cap gap)
    BY <1>2, FS_Union
  <2> QED
    BY <1>3, <1>4, <2>1
<1>11. Cardinality({}) = 0 /\ Cardinality(Between(a, l)) \in Nat
  BY <1>2, FS_EmptySet, FS_CardinalityType
<1> DEFINE x == Cardinality(Between(a, c))
           y == Cardinality(Between(a, l))
           z == Cardinality(gap)
<1>12. x = y + z - 0 /\ y \in Nat /\ z = (c - l) - 1
  BY <1>8, <1>9, <1>10, <1>11
<1> HIDE DEF x, y, z
<1>13. x = y + ((c - l) - 1)
  BY <1>12
<1> QED
  BY <1>13 DEF x, y

(* rx_emit_packet measures the gap, fills it and writes the packet.        *)
LEMMA EmitKeepsLoss ==
    ASSUME PlainInOrder, BelowHalf, LostIsNoPayload, PlaybackInv, LossInv, Emit
    PROVE  LossInv'
<1>1. StreamInv /\ ReceiverInv
  BY DEF PlaybackInv
<1>2. UNCHANGED <<era, net, sent, dropped, copies, first>>
  BY DEF Emit, streamVars, senderVars, netVars
<1>3. CASE era # 0
  BY <1>2, <1>3 DEF LossInv
<1>4. CASE era = 0
  <2>1. FirstRun /\ npc \notin {"reset", "restarted"}
    BY <1>4 DEF LossInv, FirstRun
  <2>2. /\ last \in Nat /\ have \in BOOLEAN /\ lost \in Nat /\ (have => last < HalfSpace)
        /\ npc # "recv" => cur.seq \in Nat /\ cur.seq < HalfSpace /\ cur.pl \in Payloads /\ cur # Nothing
    BY <1>1, HandTypes
  <2>3. /\ Ascending(net)' <=> Ascending(net)
        /\ \A p : Holds(net, p)' <=> Holds(net, p)
    BY <1>2 DEF Ascending, Holds
  <2>4. \A l, h : {d \in dropped' : l < d.seq /\ d.seq < h} = Between(l, h)
    BY <1>2 DEF Between
  <2>5. ASSUME npc # "recv"
        PROVE  /\ first # Nothing /\ first \in sent /\ Ahead /\ Accounted /\ Jumped /\ Counted
               /\ Frontier = cur.seq /\ first.seq \in Nat /\ cur \in sent
    <3>1. first # Nothing
      BY <2>1, <2>5 DEF FirstRun
    <3>2. first \in sent
      BY <2>1, <3>1 DEF FirstRun
    <3>3. first.seq \in Nat
      BY <1>1, <1>4, <3>2, FirstRunSent
    <3> QED
      BY <2>1, <2>5, <3>1, <3>2, <3>3 DEF FirstRun, Frontier, Counted
  <2>6. CASE R!EmitFiltered
    <3>1. /\ npc = "filter" /\ R!Filtered /\ npc' = "recv" /\ cur' = Nothing
          /\ UNCHANGED <<have, last, lost>>
      BY <2>6 DEF R!EmitFiltered
    <3>2. have /\ cur.seq = last
      <4>1. have => last <= cur.seq
        BY <2>5, <3>1 DEF Jumped
      <4>2. /\ R!Seq32!IsCopy(have, last, cur.seq) <=> have /\ cur.seq = last
            /\ have /\ last <= cur.seq => ~ R!Seq32!IsOld(have, last, cur.seq)
            /\ ~ have => ~ R!Seq32!IsOld(have, last, cur.seq)
        BY <2>2, <3>1, Comparisons
      <4> QED
        BY <3>1, <4>1, <4>2 DEF R!Filtered
    <3>3. Frontier' = Frontier
      BY <2>5, <3>1, <3>2 DEF Frontier
    <3>4. Ahead' /\ Accounted' /\ Jumped'
      BY <1>2, <2>3, <2>5, <3>1, <3>3 DEF Ahead, Accounted, Jumped
    <3>5. Between(first.seq, last)' = Between(first.seq, last)
      BY <1>2, <2>4, <3>1 DEF Between
    <3>6. Counted'
      BY <1>2, <2>5, <3>1, <3>2, <3>5 DEF Counted
    <3> QED
      BY <1>2, <1>4, <2>1, <2>3, <2>5, <3>1, <3>2, <3>4, <3>6 DEF LossInv, FirstRun
  <2>7. CASE R!EmitGap
    <3>1. /\ npc = "filter" /\ ~ R!Filtered /\ npc' = "fill" /\ lost' = lost + fill'
          /\ fill' = R!Seq32!Missing(have, last, cur.seq)
          /\ UNCHANGED <<cur, have, last>>
      BY <2>7 DEF R!EmitGap
    <3>2. Frontier' = Frontier
      BY <3>1 DEF Frontier
    <3>3. Ahead' /\ Accounted' /\ Jumped'
      BY <1>2, <2>3, <2>5, <3>1, <3>2 DEF Ahead, Accounted, Jumped
    <3>4. Between(first.seq, cur.seq)' = Between(first.seq, cur.seq)
      BY <1>2, <2>4, <3>1 DEF Between
    <3>5. CASE have
      <4>1. last < cur.seq /\ fill' = (cur.seq - last) - 1
        <5>1. last <= cur.seq
          BY <2>5, <3>1, <3>5 DEF Jumped
        <5>2. /\ R!Seq32!IsCopy(have, last, cur.seq) <=> have /\ cur.seq = last
              /\ have /\ last < cur.seq =>
                    R!Seq32!Missing(have, last, cur.seq) = (cur.seq - last) - 1
          BY <2>2, <3>1, Comparisons
        <5>3. cur.seq # last
          BY <3>1, <3>5, <5>2 DEF R!Filtered
        <5>4. last < cur.seq
          BY <2>2, <3>1, <3>5, <5>1, <5>3
        <5>5. R!Seq32!Missing(have, last, cur.seq) = (cur.seq - last) - 1
          BY <3>5, <5>2, <5>4
        <5> QED
          BY <3>1, <5>4, <5>5
      <4>2. /\ lost = Cardinality(Between(first.seq, last)) /\ first.seq <= last
            /\ \A d \in dropped : d.seq # last
            /\ \A p \in sent : last < p.seq /\ p.seq < cur.seq => p \in dropped
        BY <2>5, <3>1, <3>5 DEF Counted, Jumped
      <4>3. \E p \in sent : p.seq = cur.seq
        BY <2>5, <3>1
      <4>4. Cardinality(Between(first.seq, cur.seq))
                = Cardinality(Between(first.seq, last)) + ((cur.seq - last) - 1)
        BY <1>1, <1>4, <2>2, <2>5, <3>1, <4>1, <4>2, <4>3, GapCount
      <4>5. lost' = Cardinality(Between(first.seq, cur.seq))
        BY <3>1, <4>1, <4>2, <4>4
      <4>6. Counted'
        BY <1>2, <2>5, <3>1, <3>4, <3>5, <4>5 DEF Counted
      <4> QED
        BY <1>2, <1>4, <2>1, <2>3, <2>5, <3>1, <3>3, <3>5, <4>6 DEF LossInv, FirstRun
    <3>6. CASE ~ have
      <4>1. fill' = 0 /\ lost = 0 /\ cur = first /\ lost' = 0
        BY <2>2, <2>5, <3>1, <3>6 DEF R!Seq32!Missing, Counted
      <4>2. Cardinality(Between(first.seq, cur.seq)) = 0
        <5>1. \A d \in dropped : d.seq \in Nat
          BY <1>1, <1>4, FirstRunSent
        <5>2. Between(first.seq, cur.seq) = {}
          BY <2>5, <3>1, <4>1, <5>1 DEF Between
        <5> QED
          BY <5>2, FS_EmptySet
      <4>3. Counted'
        BY <1>2, <2>5, <3>1, <3>4, <3>6, <4>1, <4>2 DEF Counted
      <4> QED
        BY <1>2, <1>4, <2>1, <2>3, <2>5, <3>1, <3>3, <3>6, <4>3 DEF LossInv, FirstRun
    <3> QED
      BY <3>5, <3>6
  <2>8. CASE R!EmitFill
    <3>1. UNCHANGED <<cur, npc, have, last, lost>>
      BY <2>8 DEF R!EmitFill
    <3> QED
      BY <1>2, <3>1, LossUnchanged
  <2>9. CASE R!EmitWrite
    <3>1. /\ npc = "fill" /\ npc' = "recv" /\ cur' = Nothing /\ last' = cur.seq
          /\ have' = TRUE
          /\ lost' = IF cur.pl = Lost THEN lost + 1 ELSE lost
      BY <2>9 DEF R!EmitWrite
    <3>2. lost' = lost
      BY <2>2, <3>1 DEF LostIsNoPayload
    <3>3. Frontier' = Frontier
      BY <2>5, <3>1 DEF Frontier
    <3>4. Ahead' /\ Accounted'
      BY <1>2, <2>3, <2>5, <3>1, <3>3 DEF Ahead, Accounted
    <3>5. Jumped'
      BY <1>2, <2>5, <3>1, <3>3 DEF Jumped
    <3>6. Between(first.seq, last)' = Between(first.seq, cur.seq)
      BY <1>2, <2>4, <3>1 DEF Between
    <3>7. first.seq <= cur.seq
      <4>1. CASE have
        <5>1. first.seq <= last /\ last <= cur.seq
          BY <2>5, <3>1, <4>1 DEF Counted, Jumped
        <5> QED
          BY <2>2, <2>5, <3>1, <5>1
      <4>2. CASE ~ have
        <5>1. cur = first
          BY <2>5, <3>1, <4>2 DEF Counted
        <5> QED
          BY <2>2, <3>1, <5>1
      <4> QED
        BY <4>1, <4>2
    <3>8. Counted'
      <4>1. have'
        BY <3>1
      <4>2. lost = Cardinality(Between(first.seq, cur.seq))
        BY <2>5, <3>1 DEF Counted
      <4>3. \E p \in sent : p.seq = cur.seq
        BY <2>5, <3>1
      <4> QED
        BY <1>2, <3>1, <3>2, <3>6, <3>7, <4>1, <4>2, <4>3 DEF Counted
    <3>9. have'
      BY <3>1
    <3> QED
      BY <1>2, <1>4, <2>1, <2>3, <2>5, <3>1, <3>4, <3>5, <3>8, <3>9 DEF LossInv, FirstRun
  <2>10. ~ R!EmitReset /\ ~ R!EmitRestarted
    BY <2>1 DEF R!EmitReset, R!EmitRestarted
  <2> QED
    BY <2>6, <2>7, <2>8, <2>9, <2>10 DEF Emit, R!EmitStep
<1> QED
  BY <1>3, <1>4

(* LossCounted of Playback: on a network that keeps the order, with FEC    *)
(* off, total_packets_lost of rx_emit_packet is the number of packets lost *)
(* since the first one arrived, whatever is lost or copied.                *)
THEOREM PlaybackLossCounted ==
    ASSUME BelowHalf, PlainInOrder, LostIsNoPayload
    PROVE  Spec => []LossCounted
<1>1. PlaybackInv /\ LossInv /\ [Next]_vars => LossInv'
  <2> SUFFICES ASSUME PlaybackInv, LossInv, [Next]_vars
               PROVE  LossInv'
    OBVIOUS
  <2>1. CASE Network
    BY <2>1, NetworkKeepsLoss
  <2>2. CASE Receive
    BY <2>2, ReceiveKeepsLoss
  <2>3. CASE Emit
    BY <2>3, EmitKeepsLoss
  <2>4. CASE Audio
    <3>1. UNCHANGED <<era, net, sent, dropped, copies, first, cur, npc, have, last, lost>>
      BY <2>4 DEF Audio, R!Callback, R!CallbackLevel, R!CallbackSample, R!CallbackSilent,
                  R!CallbackPlay, R!CallbackRead, R!CallbackClamp, R!CallbackIndex,
                  R!CallbackPublish, R!CallbackEnd, R!netSide, streamVars, senderVars, netVars
    <3> QED
      BY <3>1, LossUnchanged
  <2>5. CASE UNCHANGED vars
    <3>1. UNCHANGED <<era, net, sent, dropped, copies, first, cur, npc, have, last, lost>>
      BY <2>5 DEF vars, receiverVars, streamVars, senderVars, netVars
    <3> QED
      BY <3>1, LossUnchanged
  <2> QED
    BY <2>1, <2>2, <2>3, <2>4, <2>5 DEF Next
<1>2. LossInv => LossCounted
  <2> SUFFICES ASSUME LossInv, era = 0, npc = "recv", have
               PROVE  lost = Cardinality({d \in dropped : first.seq < d.seq /\ d.seq < last})
    BY DEF LossCounted
  <2>1. FirstRun /\ first # Nothing
    BY DEF LossInv, FirstRun
  <2>2. lost = Cardinality(Between(first.seq, last))
    BY <2>1 DEF FirstRun, Counted
  <2> QED
    BY <2>2 DEF Between
<1>3. Spec => []PlaybackInv
  BY PlaybackInvariant
<1> QED
  BY <1>1, <1>2, <1>3, LossInit, PTL DEF Spec
=============================================================================

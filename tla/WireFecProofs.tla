---------------------------- MODULE WireFecProofs ----------------------------
(***************************************************************************)
(* What is proved of Wire with FEC: the window holds what was received,    *)
(* byte for byte, a missing packet is rebuilt whole from what is left of   *)
(* its group, and everything is emitted in order.  With WireProofs this    *)
(* gives the invariant of the receiver and the theorems about what is      *)
(* heard.                                                                  *)
(***************************************************************************)
EXTENDS WireProofs

-----------------------------------------------------------------------------
(* The invariant: the window.                                              *)

SlotType == [kind : {"empty", "data", "parity"}, ns : Nat, pl : SUBSET Cells]

(* A slot holds a packet, and what was behind it in the buffer. *)
Holds(s, p) ==
    /\ s.kind = IF p.parity THEN "parity" ELSE "data"
    /\ s.ns = p.ns /\ First(s.pl, p.ns * width) = p.pl

(* A window at number h holds the packets of K. *)
Holding(h, w, K) ==
    /\ w \in [0..GroupSize -> SlotType]
    /\ \A i \in 0..GroupSize : w[i] = Rx!Empty \/ \E p \in K : p.seq = h + i /\ Holds(w[i], p)
    /\ \A i \in 0..GroupSize, p \in K : p.seq = h + i => w[i].kind # "empty"

(* The packets received, but the one being worked on. *)
Kept == {p \in sent : p \notin dropped /\ p.seq < Arrived /\ (pkt # NoPacket => p.seq # pkt.seq)}

NotStarted ==
    /\ started = FALSE /\ head = 0 /\ slot = Rx!EmptyWindow /\ expected = 0
    /\ pkt = NoPacket /\ out = << >> /\ book.have = FALSE /\ Kept = {}

Running ==
    /\ started = TRUE
    /\ \E p \in Data : expected = p.ns
    /\ head \in Nat /\ head % (GroupSize + 1) = 0 /\ head <= Arrived
    /\ Holding(head, slot, Kept) /\ slot[GroupSize] = Rx!Empty
    /\ \A p \in Kept : p.seq <= head + GroupSize
    /\ \A i \in 1..Len(out) : out[i].seq < head
    /\ book.have => book.last < head
    /\ pkt # NoPacket =>
        /\ pkt \in PacketType /\ pkt.seq >= head /\ pkt.seq < Arrived
        /\ \A p \in Kept : p.seq < pkt.seq
        /\ \E p \in sent : p \notin dropped /\ p.parity = pkt.parity /\ Match(pkt, p)

(* A data packet that was heard, or is about to be. *)
IsHeard(p) ==
    \A f \in FirstFrame(p)..FirstFrame(p) + p.ns - 1 :
        \E i \in 1..Len(heard) : heard[i].real /\ heard[i].data = FrameBytes(f)
Waiting(p) == \E i \in 1..Len(out) : out[i].pl # Lost /\ Match(out[i], p)

(* A group that lost one packet at most is heard whole. *)
Rebuilt ==
    SameLength =>
        \A p \in Data :
            /\ p.seq < head
            /\ \A q, r \in dropped : GroupOf(q) = GroupOf(p) /\ GroupOf(r) = GroupOf(p) => q = r
            => IsHeard(p) \/ Waiting(p)

FecInv == setup.fec => (NotStarted \/ Running) /\ Rebuilt

-----------------------------------------------------------------------------
(* Numbers and groups. *)

(* A number's offset from its group's first is its remainder. *)
LEMMA SlotOffset ==
    ASSUME NEW h \in Nat, h % (GroupSize + 1) = 0, NEW i \in 0..GroupSize
    PROVE  (h + i) % (GroupSize + 1) = i /\ (h + i) \div (GroupSize + 1) = h \div (GroupSize + 1)
<1> DEFINE w == GroupSize + 1
<1>1. w \in Nat \ {0} /\ i \in 0..w - 1 /\ h % w = 0
  BY Sizes
<1> HIDE DEF w
<1>2. (h + i) % w = i /\ (h + i) \div w = h \div w
  BY <1>1, OffsetRemainder
<1> QED
  BY <1>2 DEF w

(* No number wraps. *)
LEMMA RoomLeft ==
    ASSUME Roomy, SenderInv, NetInv, NEW h \in Nat, h <= Arrived, NEW i \in 0..4 * (GroupSize + 1)
    PROVE  Rx!PlusSeq(h, i) = h + i /\ h + i < SeqSpace
<1>1. sequence <= 2 * (timestamp + offset) /\ timestamp + offset <= MaxFrames
  <2>1. /\ timestamp + block <= MaxFrames /\ offset <= block /\ sequence <= 2 * (timestamp + offset)
        /\ timestamp \in Nat /\ offset \in Nat /\ block \in Nat
    BY Widths DEF SenderInv, Counters
  <2> QED
    BY <2>1, Sizes
<1>2. timestamp + offset \in Nat /\ Arrived \in Nat /\ Arrived <= sequence /\ sequence \in Nat
  BY Widths, NetTypes DEF SenderInv, Counters
<1>3. h + i \in Nat /\ h + i < SeqSpace
  BY <1>1, <1>2, Sizes DEF Roomy
<1>4. (h + i) % SeqSpace = h + i
  BY <1>3, SmallRemainder, Sizes
<1> QED
  BY <1>3, <1>4 DEF Rx!PlusSeq

(* What a packet is. *)
LEMMA SentIs ==
    ASSUME SenderInv, NEW p \in sent
    PROVE  /\ p \in PacketType /\ p # NoPacket /\ p.seq \in Nat /\ p.seq < sequence /\ p.ns \in Nat \ {0}
           /\ p.pl \in SUBSET Cells /\ p.parity \in BOOLEAN
           /\ setup.fec => p.ns <= setup.txBuffer
           /\ p.parity <=> setup.fec /\ p.seq % (GroupSize + 1) = GroupSize
           /\ \A q \in sent : q.seq = p.seq => q = p
           /\ ~ p.parity => p \in Data
<1>1. /\ p \in PacketType /\ p.seq < sequence /\ p.ns \in 1..MaxPerPacket
      /\ setup.fec => p.ns <= setup.txBuffer
      /\ p.parity <=> setup.fec /\ p.seq % (GroupSize + 1) = GroupSize
  BY DEF SenderInv, SentType
<1>2. p # NoPacket
  BY <1>1, NoPacketAssumption DEF PacketType, Cells
<1>3. MaxPerPacket \in Nat
  BY Widths DEF SenderInv, Counters
<1> QED
  BY <1>1, <1>2, <1>3 DEF PacketType, SenderInv, SentOnce, Data

(* The packet of a number in a group. *)
LEMMA GroupSent ==
    ASSUME SenderInv, setup.fec, NEW h \in Nat, h % (GroupSize + 1) = 0,
           NEW i \in 0..GroupSize, h + i < sequence
    PROVE  \E p \in sent : /\ p.seq = h + i /\ (p.parity <=> i = GroupSize)
                           /\ i # GroupSize => p \in Data
<1>1. h + i \in Nat /\ i \in Nat
  BY Sizes
<1>2. PICK p \in sent : p.seq = h + i
  BY <1>1 DEF SenderInv, SentOnce
<1>3. p.parity <=> i = GroupSize
  BY <1>2, SentIs, SlotOffset
<1> QED
  BY <1>2, <1>3, SentIs

(* The numbers of a group. *)
LEMMA GroupNumbers ==
    ASSUME SenderInv, NEW h \in Nat, h % (GroupSize + 1) = 0,
           NEW p \in sent, NEW q \in sent, h <= p.seq, p.seq <= h + GroupSize
    PROVE  GroupOf(p) = GroupOf(q) <=> h <= q.seq /\ q.seq <= h + GroupSize
<1> DEFINE w == GroupSize + 1
           s == q.seq
           t == p.seq
<1>1. w \in Nat \ {0} /\ s \in Nat /\ t \in Nat /\ h + GroupSize = h + (w - 1) /\ h % w = 0
      /\ h <= t /\ t <= h + GroupSize
  BY SentIs, Sizes
<1>2. GroupOf(p) = t \div w /\ GroupOf(q) = s \div w
  BY DEF GroupOf
<1> HIDE DEF w, s, t
<1>3. h <= t => h \div w <= t \div w
  BY <1>1, MultiplesApart
<1>4. t \div w = h \div w
  <2>1. t - h \in 0..w - 1 /\ h + (t - h) = t
    BY <1>1
  <2>2. (h + (t - h)) \div w = h \div w
    BY <1>1, <2>1, OffsetRemainder
  <2> QED
    BY <2>1, <2>2
<1>5. CASE h <= s /\ s <= h + (w - 1)
  <2>1. s - h \in 0..w - 1 /\ h + (s - h) = s
    BY <1>1, <1>5
  <2>2. (h + (s - h)) \div w = h \div w
    BY <1>1, <2>1, OffsetRemainder
  <2> QED
    BY <1>1, <1>2, <1>4, <1>5, <2>1, <2>2 DEF s
<1>6. CASE s < h
  <2>1. s \div w < h \div w /\ s \div w \in Nat /\ h \div w \in Nat
    BY <1>1, <1>6, MultiplesApart, RemainderBounds
  <2>2. s \div w # h \div w
    BY <2>1
  <2>3. ~ (h <= s)
    BY <1>1, <1>6
  <2> QED
    BY <1>2, <1>4, <2>2, <2>3 DEF s
<1>7. CASE h + w <= s
  <2>1. h \div w < s \div w /\ s \div w \in Nat /\ h \div w \in Nat
    BY <1>1, <1>7, MultiplesApart, RemainderBounds
  <2>2. s \div w # h \div w
    BY <2>1
  <2>3. ~ (s <= h + GroupSize)
    BY <1>1, <1>7
  <2> QED
    BY <1>2, <1>4, <2>2, <2>3 DEF s
<1>8. (h <= s /\ s <= h + (w - 1)) \/ s < h \/ h + w <= s
  BY <1>1
<1> QED
  BY <1>5, <1>6, <1>7, <1>8

-----------------------------------------------------------------------------
(* What a window emits. *)

(* Cardinality as FecRx and as Wire know it. *)
LEMMA SameCardinality == \A S : Rx!Cardinality(S) = Cardinality(S)
BY DEF Rx!Cardinality, Cardinality

(* The k emissions of window w are of the slots at, in their order, and no *)
(* slot but a parity packet's is passed over.                              *)
InTurn(h, w, k, at) ==
    /\ Rx!Emissions(h, w) = [n \in 1..k |-> Rx!Emission(h, w, at[n])]
    /\ \A m, n \in 1..k : m < n => at[m] < at[n]
    /\ \A i \in 0..GroupSize : w[i].kind # "parity" => \E n \in 1..k : at[n] = i
    /\ (\A i \in 0..GroupSize : w[i].kind = "parity" <=> i = GroupSize) =>
            k = GroupSize /\ \A n \in 1..k : at[n] = n - 1

(* emit_head_slot is called for every slot in turn. *)
LEMMA EmissionsInTurn ==
    ASSUME NEW h, NEW w, DOMAIN w = 0..GroupSize
    PROVE  \E k \in 0..GroupSize + 1 : \E at \in [1..k -> 0..GroupSize] : InTurn(h, w, k, at)
<1> DEFINE slots == {i \in DOMAIN w : w[i].kind # "parity"}
           Place(i) == Rx!Cardinality({j \in slots : j <= i})
           k == Rx!Cardinality(slots)
           at == [n \in 1..k |-> CHOOSE i \in slots : Place(i) = n]
<1>1. slots \in SUBSET (0..GroupSize)
  OBVIOUS
<1>2. k = Cardinality(slots)
  BY SameCardinality
<1>3. Rx!Emissions(h, w) = [n \in 1..k |-> Rx!Emission(h, w, at[n])]
  <2>1. Rx!Emissions(h, w) =
            [n \in 1..k |-> Rx!Emission(h, w, CHOOSE i \in slots : Place(i) = n)]
    BY DEF Rx!Emissions
  <2> HIDE DEF k, slots, Place
  <2> QED
    BY <2>1
<1>4. at = OrderOf(slots)
  BY DEF OrderOf, PlaceIn, Rx!Cardinality, Cardinality
<1>5. \A i \in 0..GroupSize : i \in slots <=> w[i].kind # "parity"
  OBVIOUS
<1> HIDE DEF slots, k, at
<1>6. /\ k \in 0..GroupSize + 1 /\ at \in [1..k -> 0..GroupSize]
      /\ \A n \in 1..k : at[n] \in slots /\ PlaceIn(slots, at[n]) = n
      /\ \A m, n \in 1..k : m < n => at[m] < at[n]
      /\ \A i \in slots : \E n \in 1..k : at[n] = i
  <2>1. GroupSize \in Nat /\ k = Cardinality(slots)
    BY <1>2, Sizes
  <2>2. k \in 0..GroupSize + 1 /\ at \in [1..k -> 0..GroupSize]
    BY <1>1, <1>4, <2>1, Ordered
  <2>3. \A n \in 1..k : at[n] \in slots /\ PlaceIn(slots, at[n]) = n
    BY <1>1, <1>4, <2>1, Ordered
  <2>4. \A m, n \in 1..k : m < n => at[m] < at[n]
    BY <1>1, <1>4, <2>1, Ordered
  <2>5. \A i \in slots : \E n \in 1..k : at[n] = i
    BY <1>1, <1>4, <2>1, Ordered
  <2> QED
    BY <2>2, <2>3, <2>4, <2>5
<1>7. ASSUME \A i \in 0..GroupSize : w[i].kind = "parity" <=> i = GroupSize
      PROVE  k = GroupSize /\ \A n \in 1..k : at[n] = n - 1
  <2>1. slots = 0..GroupSize - 1
    <3>1. \A i \in 0..GroupSize : i \in slots <=> i # GroupSize
      BY <1>5, <1>7
    <3>2. \A i : i \in 0..GroupSize - 1 <=> i \in 0..GroupSize /\ i # GroupSize
      BY Sizes
    <3> QED
      BY <1>1, <3>1, <3>2
  <2>2. k = GroupSize
    <3>1. 0 \in Int /\ GroupSize - 1 \in Int /\ ~ (0 > GroupSize - 1) /\ (GroupSize - 1) - 0 + 1 = GroupSize
      BY Sizes
    <3>2. Cardinality(0..GroupSize - 1) = (GroupSize - 1) - 0 + 1
      BY <3>1, FS_Interval
    <3> QED
      BY <1>2, <2>1, <3>1, <3>2
  <2>3. ASSUME NEW n \in 1..k
        PROVE  at[n] = n - 1
    <3>1. PICK a \in slots : a = at[n] /\ PlaceIn(slots, a) = n
      BY <1>6
    <3>2. a \in 0..GroupSize - 1 /\ a \in Int /\ 0 \in Int /\ ~ (0 > a) /\ a - 0 + 1 = a + 1
      BY <2>1, <3>1, Sizes
    <3>3. {j \in slots : j <= a} = 0..a
      BY <2>1, <3>2, Sizes
    <3>4. Cardinality(0..a) = a - 0 + 1
      BY <3>2, FS_Interval
    <3>5. n = a + 1
      BY <3>1, <3>2, <3>3, <3>4 DEF PlaceIn
    <3>6. a = n - 1
      BY <3>2, <3>5
    <3> QED
      BY <3>1, <3>6
  <2> QED
    BY <2>2, <2>3
<1>8. InTurn(h, w, k, at)
  BY <1>3, <1>5, <1>6, <1>7 DEF InTurn
<1> QED
  BY <1>6, <1>8

-----------------------------------------------------------------------------
(* Recovery. *)

(* The empty slot of a cleared window. *)
LEMMA EmptyIs == Rx!Empty \in SlotType /\ Rx!Empty.kind = "empty"
BY DEF Rx!Empty, SlotType

(* What a slot holds is a packet of its place. *)
OfPlace(h, K, w, i) ==
    \E p \in K : /\ p.seq = h + i /\ Holds(w[i], p)
                 /\ (p.parity <=> i = GroupSize) /\ (i # GroupSize => p \in Data)
                 /\ w[i].kind = IF i = GroupSize THEN "parity" ELSE "data"

(* A filled slot holds the packet of its place in the group. *)
LEMMA SlotIs ==
    ASSUME SenderInv, setup.fec, NEW h \in Nat, h % (GroupSize + 1) = 0,
           NEW K \in SUBSET sent, NEW w, Holding(h, w, K),
           NEW i \in 0..GroupSize, w[i].kind # "empty"
    PROVE  OfPlace(h, K, w, i)
<1>1. PICK p \in K : p.seq = h + i /\ Holds(w[i], p)
  BY EmptyIs DEF Holding
<1>2. (h + i) % (GroupSize + 1) = i
  BY SlotOffset
<1>3. p.parity <=> i = GroupSize
  BY <1>1, <1>2, SentIs
<1> QED
  BY <1>1, <1>3, SentIs DEF Holds, OfPlace

(* The data packets of a group that was sent with its parity. *)
LEMMA GroupData ==
    ASSUME SenderInv, setup.fec, NEW h \in Nat, h % (GroupSize + 1) = 0, h + GroupSize < sequence
    PROVE  \E D \in [0..GroupSize - 1 -> Data] :
              /\ \A j \in 0..GroupSize - 1 : D[j].seq = h + j
              /\ \A j, k \in 0..GroupSize - 1 : j # k => \A c \in D[j].pl : c \notin D[k].pl
              /\ \A c : c \in Covered(h..h + GroupSize - 1) <=> \E j \in 0..GroupSize - 1 : c \in D[j].pl
<1> DEFINE data == 0..GroupSize - 1
           D == [j \in data |-> CHOOSE d \in Data : d.seq = h + j]
<1>1. ASSUME NEW j \in data
      PROVE  \E d \in Data : d.seq = h + j
  <2>1. j \in 0..GroupSize /\ j # GroupSize /\ h + j < sequence
    BY Sizes DEF SenderInv, Counters
  <2> QED
    BY <2>1, GroupSent
<1>2. \A j \in data : D[j] \in Data /\ D[j].seq = h + j
  BY <1>1
<1>3. D \in [data -> Data]
  <2>1. \A j \in data : (CHOOSE d \in Data : d.seq = h + j) \in Data
    BY <1>1
  <2> QED
    BY <2>1
<1> HIDE DEF D
<1>4. ASSUME NEW j \in data, NEW k \in data, j < k, NEW c \in D[j].pl
      PROVE  c \notin D[k].pl
  <2>1. PICK d \in Data : d = D[j] /\ d.seq = h + j
    BY <1>2
  <2>2. PICK e \in Data : e = D[k] /\ e.seq = h + k
    BY <1>2
  <2>3. d.seq < e.seq
    BY <1>4, <2>1, <2>2, Sizes
  <2>4. FirstFrame(d) + d.ns <= FirstFrame(e)
    BY <2>3 DEF SenderInv, SentData
  <2>5. c[2] \in Int /\ c[2] < FirstFrame(d) + d.ns /\ FirstFrame(d) \in Nat /\ d.ns \in Nat
    BY <1>4, <2>1, DataIs
  <2>6. FirstFrame(e) \in Nat /\ \A x \in e.pl : FirstFrame(e) <= x[2]
    BY DataIs
  <2>7. c \notin e.pl
    <3> SUFFICES ASSUME c \in e.pl PROVE FALSE
      OBVIOUS
    <3> DEFINE f == FirstFrame(e)
               g == FirstFrame(d)
               y == c[2]
    <3>1. f <= y /\ y < g + d.ns /\ g + d.ns <= f /\ f \in Nat /\ g \in Nat /\ y \in Int /\ d.ns \in Nat
      BY <2>4, <2>5, <2>6
    <3> HIDE DEF f, g, y
    <3> QED
      BY <3>1
  <2> QED
    BY <2>2, <2>7
<1>5. ASSUME NEW j \in data, NEW k \in data, j # k, NEW c \in D[j].pl
      PROVE  c \notin D[k].pl
  <2>1. j < k \/ k < j
    BY <1>5, Sizes
  <2>2. CASE j < k
    BY <1>4, <1>5, <2>2
  <2>3. CASE k < j
    BY <1>4, <1>5, <2>3
  <2> QED
    BY <2>1, <2>2, <2>3
<1>6. ASSUME NEW c
      PROVE  c \in Covered(h..h + GroupSize - 1) <=> \E j \in data : c \in D[j].pl
  <2>1. ASSUME NEW d \in Data, d.seq \in h..h + GroupSize - 1
        PROVE  \E j \in data : d = D[j]
    <3>1. d.seq - h \in data /\ h + (d.seq - h) = d.seq
      BY <2>1, DataIs, Sizes
    <3>2. PICK j \in data : h + j = d.seq
      BY <3>1
    <3>3. D[j] \in sent /\ d \in sent /\ D[j].seq = d.seq
      BY <1>2, <3>2 DEF Data
    <3> QED
      BY <3>3, SentIs
  <2>2. \A j \in data : D[j] \in Data /\ D[j].seq \in h..h + GroupSize - 1
    BY <1>2, Sizes
  <2> QED
    BY <2>1, <2>2 DEF Covered, DataIn
<1> QED
  BY <1>2, <1>3, <1>5, <1>6

(* try_recover_group: parity and all data packets but one, XORed, are the  *)
(* missing one, whatever is behind the packets in the slots.               *)
LEMMA RebuiltPayload ==
    ASSUME SenderInv, setup.fec, SameLength, NEW h \in Nat, h % (GroupSize + 1) = 0,
           NEW K \in SUBSET sent, NEW w, Holding(h, w, K), w[GroupSize].kind # "empty",
           NEW m, Rx!Missing(w) = {m}
    PROVE  \E d \in Data : /\ d.seq = h + m /\ d.ns \in Nat \ {0}
                           /\ First(Rx!XorOf(w, DOMAIN w \ {m}), d.ns * width) = d.pl
<1> DEFINE data == 0..GroupSize - 1
           S == DOMAIN w \ {m}
           having(c) == {i \in S : c \in w[i].pl}
<1>1. /\ GroupSize \in 0..GroupSize /\ data = 0..GroupSize \ {GroupSize} /\ DOMAIN w = 0..GroupSize
      /\ m \in data /\ m # GroupSize
  <2>1. m \in data
    BY DEF Rx!Missing, Rx!DataOffsets
  <2> QED
    BY <2>1, Sizes DEF Holding
<1>2. PICK p \in sent : p.seq = h + GroupSize /\ p.parity /\ Holds(w[GroupSize], p)
  <2>1. PICK i \in 0..GroupSize : i = GroupSize
    BY <1>1
  <2>2. w[i].kind # "empty"
    BY <2>1
  <2>3. OfPlace(h, K, w, i)
    BY <2>2, SlotIs
  <2> QED
    BY <2>1, <2>3 DEF OfPlace
<1>3. h + GroupSize < sequence
  BY <1>2, SentIs
<1>4. PICK D \in [data -> Data] :
          /\ \A j \in data : D[j].seq = h + j
          /\ \A j, k \in data : j # k => \A c \in D[j].pl : c \notin D[k].pl
          /\ \A c : c \in Covered(h..h + GroupSize - 1) <=> \E j \in data : c \in D[j].pl
  BY <1>3, GroupData
<1>5. PICK l \in Nat \ {0} : l = p.ns /\ \A d \in Data : d.ns = l
  <2>1. \E d \in Data : d.ns = p.ns
    BY <1>2 DEF SenderInv, ParityInv
  <2>2. \A d \in Data : d.ns = p.ns
    BY <2>1 DEF SameLength
  <2> QED
    BY <2>2, SentIs
<1>6. PICK z : z = l * width
  OBVIOUS
<1>7. \A j \in data : \A c \in D[j].pl : c[1] < z
  <2> TAKE j \in data
  <2>1. D[j] \in Data
    BY <1>4
  <2> QED
    BY <1>5, <1>6, <2>1, DataIs
<1>8. ASSUME NEW i \in data, i # m, NEW c, c[1] < z
      PROVE  c \in w[i].pl <=> c \in D[i].pl
  <2>1. w[i].kind # "empty" /\ i \in 0..GroupSize
    BY <1>1, <1>8 DEF Rx!Missing, Rx!DataOffsets
  <2>2. PICK q \in K : q.seq = h + i /\ Holds(w[i], q)
    BY <2>1, SlotIs DEF OfPlace
  <2>3. D[i] \in Data /\ D[i] \in sent /\ D[i].seq = h + i
    BY <1>4 DEF Data
  <2>4. q = D[i]
    BY <2>2, <2>3, SentIs
  <2>5. First(w[i].pl, z) = D[i].pl
    BY <1>5, <1>6, <2>2, <2>3, <2>4 DEF Holds
  <2> QED
    BY <1>8, <2>5 DEF First
<1>9. ASSUME NEW c, c[1] < z
      PROVE  c \in w[GroupSize].pl <=> \E j \in data : c \in D[j].pl
  <2>1. First(w[GroupSize].pl, z) = p.pl
    BY <1>2, <1>5, <1>6 DEF Holds
  <2>2. p.pl = First(Covered(h..h + GroupSize - 1), z)
    <3>1. p.seq - GroupSize = h /\ p.seq - 1 = h + GroupSize - 1
      BY <1>2, Sizes
    <3> QED
      BY <1>2, <1>5, <1>6, <3>1 DEF SenderInv, ParityInv
  <2>3. c \in w[GroupSize].pl <=> c \in Covered(h..h + GroupSize - 1)
    BY <1>9, <2>1, <2>2 DEF First
  <2> QED
    BY <1>4, <2>3
<1>10. S = (data \ {m}) \cup {GroupSize}
  BY <1>1
<1> HIDE DEF S, data
<1>11. ASSUME NEW c, c[1] < z, NEW k \in data, k # m, c \in D[k].pl
       PROVE  Rx!Cardinality(having(c)) % 2 # 1
  <2>1. \A i \in data : i # m => (c \in w[i].pl <=> i = k)
    BY <1>4, <1>8, <1>11
  <2>2. c \in w[GroupSize].pl
    BY <1>9, <1>11
  <2>3. having(c) = {k} \cup {GroupSize}
    BY <1>10, <1>11, <2>1, <2>2
  <2>4. k # GroupSize
    BY <1>1
  <2>5. Cardinality({k} \cup {GroupSize}) = 2
    BY <2>4, PairSize
  <2>6. Rx!Cardinality(having(c)) = 2
    BY <2>3, <2>5, SameCardinality
  <2> HIDE DEF having
  <2> QED
    BY <2>6
<1>12. ASSUME NEW c, c[1] < z, c \in D[m].pl
       PROVE  Rx!Cardinality(having(c)) % 2 = 1 /\ c \in w[GroupSize].pl
  <2>1. \A i \in data : i # m => c \notin w[i].pl
    BY <1>1, <1>4, <1>8, <1>12
  <2>2. c \in w[GroupSize].pl
    BY <1>1, <1>9, <1>12
  <2>3. having(c) = {GroupSize}
    BY <1>10, <2>1, <2>2
  <2>4. Rx!Cardinality(having(c)) = 1
    BY <2>3, FS_Singleton, SameCardinality
  <2> HIDE DEF having
  <2> QED
    BY <2>2, <2>4
<1>13. Rx!XorOf(w, S) = {c \in UNION {w[i].pl : i \in S} : Rx!Cardinality(having(c)) % 2 = 1}
  BY DEF Rx!XorOf
<1> HIDE DEF having
<1>14. First(Rx!XorOf(w, S), z) = D[m].pl
  <2>1. ASSUME NEW c \in D[m].pl
        PROVE  c \in Rx!XorOf(w, S) /\ c[1] < z
    <3>1. c[1] < z
      BY <1>1, <1>7
    <3>2. Rx!Cardinality(having(c)) % 2 = 1 /\ c \in w[GroupSize].pl
      BY <1>12, <3>1
    <3>3. GroupSize \in S
      BY <1>10
    <3> QED
      BY <1>13, <3>1, <3>2, <3>3
  <2>2. ASSUME NEW c \in Rx!XorOf(w, S), c[1] < z
        PROVE  c \in D[m].pl
    <3>1. Rx!Cardinality(having(c)) % 2 = 1 /\ \E i \in S : c \in w[i].pl
      BY <1>13
    <3>2. \E k \in data : c \in D[k].pl
      BY <1>8, <1>9, <1>10, <2>2, <3>1
    <3>3. PICK k \in data : c \in D[k].pl
      BY <3>2
    <3>4. k = m
      BY <1>11, <2>2, <3>1, <3>3
    <3> QED
      BY <3>3, <3>4
  <2> QED
    BY <2>1, <2>2 DEF First
<1>15. D[m] \in Data /\ D[m].seq = h + m /\ D[m].ns = l
  BY <1>1, <1>4, <1>5
<1> QED
  BY <1>6, <1>14, <1>15 DEF S

(* A recovered window keeps what it held, and holds the missing packet if  *)
(* it was the only one; what it holds as data is what was sent.            *)
Recovered(h, w, r) ==
    /\ r \in [0..GroupSize -> SlotType]
    /\ \A i \in 0..GroupSize : w[i].kind # "empty" => r[i] = w[i]
    /\ \A i \in 0..GroupSize : r[i].kind = "parity" => i = GroupSize
    /\ \A i \in 0..GroupSize :
            r[i].kind = "data" /\ (SameLength \/ w[i].kind # "empty") =>
                \E d \in Data : d.seq = h + i /\ Holds(r[i], d)
    /\ \A m : Rx!Missing(w) = {m} /\ w[GroupSize].kind # "empty" => r[m].kind = "data"

(* Recovery keeps what the window held, and rebuilds a packet that alone is*)
(* missing.                                                                *)
LEMMA RecoverKeeps ==
    ASSUME SenderInv, setup.fec, NEW h \in Nat, h % (GroupSize + 1) = 0, expected \in Nat,
           NEW K \in SUBSET sent, NEW w, Holding(h, w, K),
           SameLength => \A d \in Data : d.ns = expected
    PROVE  Recovered(h, w, Rx!Recover(w))
<1> DEFINE r == Rx!Recover(w)
<1>1. DOMAIN w = 0..GroupSize /\ GroupSize \in 0..GroupSize /\ w \in [0..GroupSize -> SlotType]
  BY Sizes DEF Holding
<1>2. ASSUME NEW i \in 0..GroupSize, w[i].kind # "empty"
      PROVE  /\ w[i].kind = IF i = GroupSize THEN "parity" ELSE "data"
             /\ i # GroupSize => \E d \in Data : d.seq = h + i /\ Holds(w[i], d)
  <2>1. OfPlace(h, K, w, i)
    BY <1>2, SlotIs
  <2> QED
    BY <2>1 DEF OfPlace
<1>3. CASE ~ Rx!Recoverable(w)
  <2>1. r = w
    BY <1>3 DEF Rx!Recover
  <2>2. \A m : Rx!Missing(w) = {m} => Rx!Cardinality(Rx!Missing(w)) = 1
    BY SameCardinality, FS_Singleton
  <2>3. w[GroupSize].kind # "empty" => w[GroupSize].kind = "parity"
    BY <1>1, <1>2
  <2>4. \A m : ~ (Rx!Missing(w) = {m} /\ w[GroupSize].kind # "empty")
    BY <1>3, <2>2, <2>3 DEF Rx!Recoverable
  <2>5. \A i \in 0..GroupSize : w[i].kind = "parity" => i = GroupSize
    BY <1>2
  <2>6. \A i \in 0..GroupSize : w[i].kind = "data" => \E d \in Data : d.seq = h + i /\ Holds(w[i], d)
    BY <1>2
  <2> QED
    BY <1>1, <2>1, <2>4, <2>5, <2>6 DEF Recovered
<1>4. CASE Rx!Recoverable(w)
  <2>1. w[GroupSize].kind = "parity" /\ Cardinality(Rx!Missing(w)) = 1
    BY <1>4, SameCardinality DEF Rx!Recoverable
  <2>2. IsFiniteSet(Rx!Missing(w))
    <3>1. IsFiniteSet(0..GroupSize) /\ Rx!Missing(w) \in SUBSET (0..GroupSize)
      BY FS_Interval, Sizes DEF Rx!Missing, Rx!DataOffsets
    <3> QED
      BY <3>1, FS_Subset
  <2>3. PICK m : Rx!Missing(w) = {m}
    BY <2>1, <2>2, FS_Singleton
  <2>4. m \in 0..GroupSize /\ m # GroupSize /\ w[m].kind = "empty"
    BY <2>3, Sizes DEF Rx!Missing, Rx!DataOffsets
  <2> DEFINE x == Rx!XorOf(w, DOMAIN w \ {m})
             s == [kind |-> "data", ns |-> expected, pl |-> x]
  <2>5. r = [i \in DOMAIN w |-> IF i \in {m} THEN s ELSE w[i]]
    BY <1>4, <2>3 DEF Rx!Recover, Rx!Sources
  <2>6. s \in SlotType
    <3>1. \A i \in 0..GroupSize : w[i].pl \in SUBSET Cells
      BY <1>1 DEF SlotType
    <3>2. x \in SUBSET Cells
      BY <1>1, <3>1 DEF Rx!XorOf
    <3> HIDE DEF x
    <3> QED
      BY <3>2 DEF SlotType
  <2>7. SameLength => \E d \in Data : d.seq = h + m /\ Holds(s, d)
    <3> SUFFICES ASSUME SameLength PROVE \E d \in Data : d.seq = h + m /\ Holds(s, d)
      OBVIOUS
    <3>1. PICK d \in Data : d.seq = h + m /\ First(x, d.ns * width) = d.pl
      BY <2>1, <2>3, RebuiltPayload
    <3>2. d.ns = expected /\ ~ d.parity
      BY DEF Data
    <3> HIDE DEF x
    <3> QED
      BY <3>1, <3>2 DEF Holds
  <2>8. s.kind = "data"
    OBVIOUS
  <2> HIDE DEF s
  <2>9. r[m] = s /\ \A i \in 0..GroupSize : i # m => r[i] = w[i]
    BY <1>1, <2>4, <2>5
  <2>10. r \in [0..GroupSize -> SlotType]
    BY <1>1, <2>5, <2>6
  <2> HIDE DEF r
  <2>11. \A i \in 0..GroupSize : r[i].kind = "parity" => i = GroupSize
    BY <1>2, <2>8, <2>9
  <2>12. ASSUME NEW i \in 0..GroupSize, r[i].kind = "data", SameLength \/ w[i].kind # "empty"
         PROVE  \E d \in Data : d.seq = h + i /\ Holds(r[i], d)
    <3>1. CASE i = m
      BY <2>4, <2>7, <2>9, <2>12, <3>1
    <3>2. CASE i # m
      BY <1>2, <2>9, <2>12, <3>2
    <3> QED
      BY <3>1, <3>2
  <2> QED
    BY <2>3, <2>4, <2>8, <2>9, <2>10, <2>11, <2>12 DEF Recovered, r
<1> QED
  BY <1>3, <1>4

(* What a finished window emits: what was sent, in order; all of a group   *)
(* that lost one packet at most; and of one that lost none its data        *)
(* packets one after the other.                                            *)
WindowEmitted(h, es) ==
    /\ es \in Seq(EmissionType) /\ Len(es) \in 0..GroupSize + 1
    /\ \A n \in 1..Len(es) : h <= es[n].seq /\ es[n].seq <= h + GroupSize
    /\ \A m, n \in 1..Len(es) : m < n => es[m].seq < es[n].seq
    /\ Exact => \A n \in 1..Len(es) : es[n].pl # Lost => \E d \in Data : Match(es[n], d)
    /\ SameLength => \A d \in Data :
         /\ h <= d.seq /\ d.seq <= h + GroupSize
         /\ \A p, q \in dropped : GroupOf(p) = GroupOf(d) /\ GroupOf(q) = GroupOf(d) => p = q
         => \E n \in 1..Len(es) : es[n].pl # Lost /\ Match(es[n], d)
    /\ dropped = {} => /\ Len(es) = GroupSize
                       /\ \A n \in 1..GroupSize : es[n].pl # Lost /\ es[n].seq = h + n - 1

(* What a window emits when it is over: numbers in order, and, if one      *)
(* packet at most is missing, all data.                                    *)
LEMMA Flushed ==
    ASSUME Roomy, LostIsNoPayload, SenderInv, NetInv, setup.fec,
           NEW h \in Nat, h % (GroupSize + 1) = 0, h + GroupSize < Arrived,
           NEW K \in SUBSET sent, K = {p \in sent : p \notin dropped}, NEW w, Holding(h, w, K),
           \E d \in Data : expected = d.ns,
           NEW es, es = Rx!Emissions(h, Rx!Recover(w))
    PROVE  WindowEmitted(h, es)
<1> DEFINE r == Rx!Recover(w)
<1>1. expected \in Nat /\ (SameLength => \A d \in Data : d.ns = expected)
  BY SentIs DEF Data, SameLength
<1>2. /\ r \in [0..GroupSize -> SlotType]
      /\ \A i \in 0..GroupSize : w[i].kind # "empty" => r[i] = w[i]
      /\ \A i \in 0..GroupSize : r[i].kind = "parity" => i = GroupSize
      /\ \A i \in 0..GroupSize : r[i].kind = "data" /\ (SameLength \/ w[i].kind # "empty") =>
            \E d \in Data : d.seq = h + i /\ Holds(r[i], d)
      /\ \A m : Rx!Missing(w) = {m} /\ w[GroupSize].kind # "empty" => r[m].kind = "data"
  <2>1. Recovered(h, w, r)
    BY <1>1, RecoverKeeps
  <2> HIDE DEF r
  <2> QED
    BY <2>1 DEF Recovered
<1>3. es = Rx!Emissions(h, r)
  OBVIOUS
<1> HIDE DEF r
<1>4. PICK k \in 0..GroupSize + 1 : \E at \in [1..k -> 0..GroupSize] : InTurn(h, r, k, at)
  BY <1>2, EmissionsInTurn
<1>5. PICK at \in [1..k -> 0..GroupSize] :
          /\ es = [n \in 1..k |-> Rx!Emission(h, r, at[n])]
          /\ \A m, n \in 1..k : m < n => at[m] < at[n]
          /\ \A i \in 0..GroupSize : r[i].kind # "parity" => \E n \in 1..k : at[n] = i
          /\ (\A i \in 0..GroupSize : r[i].kind = "parity" <=> i = GroupSize) =>
                k = GroupSize /\ \A n \in 1..k : at[n] = n - 1
  BY <1>3, <1>4 DEF InTurn
<1>6. /\ GroupSize \in Nat \ {0} /\ k \in Nat /\ Arrived \in Nat /\ Arrived <= sequence
      /\ sequence \in Nat /\ h + GroupSize < sequence
  BY Sizes, NetTypes
<1>7. ASSUME NEW i \in 0..GroupSize
      PROVE  Rx!PlusSeq(h, i) = h + i /\ h + i \in Nat
  <2>1. h <= Arrived /\ i \in 0..4 * (GroupSize + 1)
    BY <1>6
  <2> QED
    BY <2>1, RoomLeft
<1>8. ASSUME NEW i \in 0..GroupSize
      PROVE  /\ Rx!Emission(h, r, i) \in EmissionType /\ Rx!Emission(h, r, i).seq = h + i
             /\ Rx!Emission(h, r, i).pl # Lost <=> r[i].kind = "data"
             /\ \A d \in Data : d.seq = h + i /\ Holds(r[i], d) => Match(Rx!Emission(h, r, i), d)
  <2>1. r[i] \in SlotType
    BY <1>2
  <2>2. CASE r[i].kind = "data"
    <3>1. Rx!Emission(h, r, i) = [seq |-> h + i, ns |-> r[i].ns, pl |-> r[i].pl]
      BY <1>7, <2>2 DEF Rx!Emission
    <3>2. r[i].pl \in SUBSET Cells /\ r[i].ns \in Nat
      BY <2>1 DEF SlotType
    <3>3. r[i].pl # Lost
      BY <3>2 DEF LostIsNoPayload, Cells
    <3> QED
      BY <1>7, <2>2, <3>1, <3>2, <3>3 DEF EmissionType, Match, Holds
  <2>3. CASE r[i].kind # "data"
    <3>1. Rx!Emission(h, r, i) = [seq |-> h + i, ns |-> expected, pl |-> Lost]
      BY <1>7, <2>3 DEF Rx!Emission
    <3>2. \A d \in Data : ~ Holds(r[i], d)
      BY <2>3 DEF Holds, Data
    <3> QED
      BY <1>1, <1>7, <2>3, <3>1, <3>2 DEF EmissionType
  <2> QED
    BY <2>2, <2>3
<1>9. \A n \in 1..k : es[n] = Rx!Emission(h, r, at[n]) /\ at[n] \in 0..GroupSize
  BY <1>5
<1>10. es \in Seq(EmissionType) /\ Len(es) = k
  <2>1. es \in [1..k -> EmissionType]
    BY <1>5, <1>8, <1>9
  <2> QED
    BY <1>6, <2>1, FunctionIsSeq
<1>11. \A n \in 1..k : h <= es[n].seq /\ es[n].seq <= h + GroupSize
  <2> TAKE n \in 1..k
  <2>1. PICK i \in 0..GroupSize : i = at[n] /\ es[n].seq = h + i
    BY <1>8, <1>9
  <2>2. h <= h + i /\ h + i <= h + GroupSize
    BY <1>6, <2>1
  <2> QED
    BY <2>1, <2>2
<1>12. \A m, n \in 1..k : m < n => es[m].seq < es[n].seq
  <2> SUFFICES ASSUME NEW m \in 1..k, NEW n \in 1..k, m < n PROVE es[m].seq < es[n].seq
    OBVIOUS
  <2>1. PICK i \in 0..GroupSize : i = at[m] /\ es[m].seq = h + i
    BY <1>8, <1>9
  <2>2. PICK j \in 0..GroupSize : j = at[n] /\ es[n].seq = h + j
    BY <1>8, <1>9
  <2>3. i < j
    BY <1>5, <2>1, <2>2
  <2> QED
    BY <1>6, <2>1, <2>2, <2>3
<1>13. ASSUME NEW i \in 0..GroupSize, w[i].kind = "empty"
       PROVE  \E p \in dropped : p.seq = h + i
  <2>1. PICK p \in sent : p.seq = h + i
    <3>1. h + i < sequence /\ h + i \in Nat
      BY <1>6
    <3> QED
      BY <3>1 DEF SenderInv, SentOnce
  <2>2. p \notin K
    BY <1>13, <2>1 DEF Holding
  <2> QED
    BY <2>1, <2>2
<1>14. ASSUME Exact, NEW n \in 1..k, es[n].pl # Lost
       PROVE  \E d \in Data : Match(es[n], d)
  <2>1. PICK i \in 0..GroupSize : es[n] = Rx!Emission(h, r, i)
    BY <1>9
  <2>2. r[i].kind = "data"
    BY <1>8, <1>14, <2>1
  <2>3. SameLength \/ w[i].kind # "empty"
    BY <1>13, <1>14 DEF Exact
  <2>4. PICK d \in Data : d.seq = h + i /\ Holds(r[i], d)
    BY <1>2, <2>2, <2>3
  <2> QED
    BY <1>8, <2>1, <2>4
<1>15. ASSUME SameLength, NEW d \in Data, h <= d.seq, d.seq <= h + GroupSize,
              \A p, q \in dropped : GroupOf(p) = GroupOf(d) /\ GroupOf(q) = GroupOf(d) => p = q
       PROVE  \E n \in 1..k : es[n].pl # Lost /\ Match(es[n], d)
  <2>1. d \in sent /\ d.seq \in Nat /\ ~ d.parity
    BY DataIs
  <2>2. PICK i \in 0..GroupSize : d.seq = h + i
    <3>1. d.seq - h \in 0..GroupSize /\ h + (d.seq - h) = d.seq
      BY <1>15, <2>1, <1>6
    <3> QED
      BY <3>1
  <2>3. i # GroupSize
    BY <2>1, <2>2, SentIs, SlotOffset
  <2>4. ASSUME NEW p \in dropped, h <= p.seq, p.seq <= h + GroupSize
        PROVE  GroupOf(p) = GroupOf(d)
    <3>1. p \in sent
      BY DEF NetInv
    <3>2. GroupOf(d) = GroupOf(p) <=> h <= p.seq /\ p.seq <= h + GroupSize
      BY <1>15, <2>1, <3>1, GroupNumbers
    <3> QED
      BY <2>4, <3>2
  <2>5. r[i].kind = "data"
    <3>1. CASE w[i].kind # "empty"
      <4>1. PICK p \in K : w[i].kind = IF i = GroupSize THEN "parity" ELSE "data"
        <5>1. OfPlace(h, K, w, i)
          BY <3>1, SlotIs
        <5> QED
          BY <5>1 DEF OfPlace
      <4> QED
        BY <1>2, <2>3, <3>1, <4>1
    <3>2. CASE w[i].kind = "empty"
      <4>1. PICK p \in dropped : p.seq = h + i
        BY <1>13, <3>2
      <4>2. ASSUME NEW j \in 0..GroupSize, w[j].kind = "empty"
            PROVE  j = i
        <5>1. PICK q \in dropped : q.seq = h + j
          BY <1>13, <4>2
        <5>2. /\ h <= h + i /\ h + i <= h + GroupSize /\ h <= h + j /\ h + j <= h + GroupSize
          BY <1>6
        <5>3. GroupOf(p) = GroupOf(d) /\ GroupOf(q) = GroupOf(d)
          BY <2>4, <4>1, <5>1, <5>2
        <5>4. p = q
          BY <1>15, <5>3
        <5> QED
          BY <4>1, <5>1, <5>4, <1>6
      <4>3. Rx!Missing(w) = {i} /\ w[GroupSize].kind # "empty"
        <5>1. i \in 0..GroupSize - 1 /\ \A j \in 0..GroupSize - 1 : j \in 0..GroupSize
          BY <1>6, <2>3
        <5>2. GroupSize \in 0..GroupSize
          BY <1>6
        <5>3. w[GroupSize].kind # "empty"
          BY <2>3, <4>2, <5>2
        <5> QED
          BY <3>2, <4>2, <5>1, <5>3 DEF Rx!Missing, Rx!DataOffsets
      <4> QED
        BY <1>2, <4>3
    <3> QED
      BY <3>1, <3>2
  <2>6. PICK c \in Data : c.seq = h + i /\ Holds(r[i], c)
    BY <1>2, <1>15, <2>5
  <2>7. c = d
    <3>1. c \in sent
      BY DEF Data
    <3> QED
      BY <2>1, <2>2, <2>6, <3>1, SentIs
  <2>8. PICK n \in 1..k : at[n] = i
    BY <1>5, <2>5
  <2>9. es[n] = Rx!Emission(h, r, i)
    BY <1>9, <2>8
  <2> QED
    BY <1>8, <2>2, <2>5, <2>6, <2>7, <2>9
<1>16. ASSUME dropped = {}
       PROVE  k = GroupSize /\ \A n \in 1..GroupSize : es[n].pl # Lost /\ es[n].seq = h + n - 1
  <2>1. \A i \in 0..GroupSize : w[i].kind # "empty"
    BY <1>13, <1>16
  <2>2. ASSUME NEW i \in 0..GroupSize
        PROVE  r[i].kind = IF i = GroupSize THEN "parity" ELSE "data"
    <3>1. w[i].kind # "empty"
      BY <2>1
    <3>2. OfPlace(h, K, w, i)
      BY <3>1, SlotIs
    <3> QED
      BY <1>2, <3>1, <3>2 DEF OfPlace
  <2>3. k = GroupSize /\ \A n \in 1..k : at[n] = n - 1
    BY <1>5, <2>2
  <2>4. ASSUME NEW n \in 1..GroupSize
        PROVE  es[n].pl # Lost /\ es[n].seq = h + n - 1
    <3>1. PICK i \in 0..GroupSize : i = n - 1 /\ i # GroupSize
      <4>1. n - 1 \in 0..GroupSize /\ n - 1 # GroupSize
        BY <1>6
      <4> QED
        BY <4>1
    <3>2. es[n] = Rx!Emission(h, r, i)
      BY <1>9, <2>3, <3>1
    <3>3. es[n].pl # Lost /\ es[n].seq = h + i
      BY <1>8, <2>2, <3>1, <3>2
    <3>4. h + i = h + n - 1
      BY <3>1
    <3> QED
      BY <3>3, <3>4
  <2> QED
    BY <2>3, <2>4
<1> QED
  BY <1>10, <1>11, <1>12, <1>14, <1>15, <1>16 DEF WindowEmitted

-----------------------------------------------------------------------------
(* Steps that leave the window alone. *)

(* What a window holds does not depend on the step. *)
LEMMA HoldingKept ==
    ASSUME setup' = setup
    PROVE  /\ \A h, w, K : Holding(h, w, K)' <=> Holding(h, w, K)
           /\ \A e, p : Match(e, p)' <=> Match(e, p)
BY SetupKept DEF Holding, Holds, First, Match

(* What is sent or dropped later is not among the packets received. *)
LEMMA KeptSame ==
    ASSUME SenderInv, NetInv, Grows, pkt' = pkt, \A p \in sent' : p.seq \in Nat,
           \A p \in sent' : Arrived <= p.seq /\ p.seq < Arrived' => p \in dropped',
           \A p \in dropped' : p \in dropped \/ p.seq >= Arrived
    PROVE  Kept' = Kept
<1>1. /\ Arrived \in Nat /\ Arrived' \in Nat /\ Arrived <= Arrived' /\ sequence \in Nat /\ Arrived <= sequence
      /\ sent \subseteq sent' /\ dropped \subseteq dropped'
      /\ \A p \in sent' : p \in sent \/ p.seq >= sequence
  BY NetTypes DEF Grows
<1>2. ASSUME NEW p \in Kept'
      PROVE  p \in Kept
  <2>1. p \in sent' /\ p \notin dropped' /\ p.seq < Arrived' /\ (pkt # NoPacket => p.seq # pkt.seq)
    BY DEF Kept
  <2>2. p.seq < Arrived
    BY <1>1, <2>1
  <2>3. p \in sent
    BY <1>1, <2>1, <2>2
  <2> QED
    BY <1>1, <2>1, <2>2, <2>3 DEF Kept
<1>3. ASSUME NEW p \in Kept
      PROVE  p \in Kept'
  <2>1. p \in sent' /\ p \notin dropped /\ p.seq < Arrived /\ (pkt # NoPacket => p.seq # pkt.seq)
    BY <1>1 DEF Kept
  <2>2. p \notin dropped' /\ p.seq < Arrived'
    BY <1>1, <2>1
  <2> QED
    BY <2>1, <2>2 DEF Kept
<1> QED
  BY <1>2, <1>3

(* Steps of the sender, the network and strays leave the window alone. *)
LEMMA IdleKeepsFec ==
    ASSUME SenderInv, NetInv, FecInv, Grows, UNCHANGED <<fecVars, emitVars>>, Kept' = Kept,
           \A p \in sent' : p.seq \in Nat,
           \A p \in dropped' : p \in dropped \/ p.seq >= Arrived
    PROVE  FecInv'
<1> SUFFICES ASSUME setup.fec PROVE ((NotStarted \/ Running) /\ Rebuilt)'
  BY DEF FecInv, Grows
<1>1. /\ book' = book /\ heard' = heard /\ out' = out /\ setup' = setup
      /\ started' = started /\ head' = head /\ slot' = slot /\ expected' = expected /\ pkt' = pkt
      /\ Data \subseteq Data' /\ sent \subseteq sent' /\ dropped \subseteq dropped'
      /\ Arrived \in Nat /\ Arrived' \in Nat /\ Arrived <= Arrived'
      /\ \A p \in sent' : p \in sent \/ p.seq >= sequence
  BY DEF fecVars, emitVars, Grows
<1>2. (NotStarted \/ Running) /\ Rebuilt
  BY DEF FecInv
<1>3. NotStarted => NotStarted'
  BY <1>1 DEF NotStarted
<1>4. ASSUME Running
      PROVE  Running'
  <2>1. /\ \E p \in Data : expected = p.ns
        /\ head \in Nat /\ head <= Arrived /\ Holding(head, slot, Kept)
        /\ pkt # NoPacket =>
            /\ pkt \in PacketType /\ pkt.seq < Arrived
            /\ \E p \in sent : p \notin dropped /\ p.parity = pkt.parity /\ Match(pkt, p)
    BY <1>4 DEF Running
  <2>2. Holding(head, slot, Kept)'
    BY <1>1, <2>1, HoldingKept
  <2>3. head <= Arrived' /\ \E p \in Data' : expected = p.ns
    BY <1>1, <2>1
  <2>4. ASSUME pkt # NoPacket
        PROVE  pkt.seq < Arrived' /\ \E p \in sent' : p \notin dropped' /\ p.parity = pkt.parity /\ Match(pkt, p)'
    <3>1. PICK p \in sent : p \notin dropped /\ p.parity = pkt.parity /\ Match(pkt, p)
      BY <2>1, <2>4
    <3>2. pkt.seq \in Nat /\ pkt.seq < Arrived
      BY <2>1, <2>4 DEF PacketType
    <3>3. p.seq < Arrived /\ p.seq \in Nat
      BY <3>1, <3>2 DEF Match
    <3>4. p \notin dropped'
      BY <1>1, <3>1, <3>3
    <3>5. Match(pkt, p)'
      BY <1>1, <3>1, HoldingKept
    <3> QED
      BY <1>1, <3>1, <3>2, <3>4, <3>5
  <2> QED
    BY <1>1, <1>4, <2>2, <2>3, <2>4 DEF Running
<1>5. Rebuilt'
  <2> SUFFICES ASSUME SameLength', NEW p \in Data', p.seq < head,
                      \A q, r \in dropped' : GroupOf(q) = GroupOf(p) /\ GroupOf(r) = GroupOf(p) => q = r
               PROVE  (IsHeard(p) \/ Waiting(p))'
    BY <1>1 DEF Rebuilt, GroupOf
  <2>1. SameLength
    BY <1>1 DEF SameLength
  <2>2. head \in Nat /\ head <= sequence /\ sequence \in Nat
    BY <1>2, NetTypes DEF NotStarted, Running
  <2>3. p \in sent
    <3>1. p \in sent' /\ p.seq \in Nat
      BY DEF Data
    <3> QED
      BY <1>1, <2>2, <3>1
  <2>4. p \in Data
    <3>1. ~ p.parity
      BY DEF Data
    <3> QED
      BY <2>3, <3>1 DEF Data
  <2>5. IsHeard(p) \/ Waiting(p)
    BY <1>1, <1>2, <2>1, <2>4 DEF Rebuilt
  <2>6. IsHeard(p) => IsHeard(p)'
    BY <1>1, SetupKept DEF IsHeard
  <2>7. Waiting(p) => Waiting(p)'
    BY <1>1, SetupKept DEF Waiting, Match, First
  <2> QED
    BY <2>5, <2>6, <2>7
<1> QED
  BY <1>2, <1>3, <1>4, <1>5

(* A group none of whose packets arrived lost two of them. *)
LEMMA GroupLost ==
    ASSUME SenderInv, NetInv, setup.fec, Kept = {}, pkt = NoPacket,
           NEW h \in Nat, h % (GroupSize + 1) = 0, h <= Arrived, NEW p \in Data, p.seq < h
    PROVE  \E q, r \in dropped : q # r /\ GroupOf(q) = GroupOf(p) /\ GroupOf(r) = GroupOf(p)
<1> DEFINE w == GroupSize + 1
           s == p.seq
           f == s - (s % w)
<1>1. /\ w \in Nat \ {0} /\ GroupSize \in Nat \ {0} /\ s \in Nat /\ Arrived \in Nat
      /\ Arrived <= sequence /\ sequence \in Nat /\ p \in sent /\ w = GroupSize + 1
  BY DataIs, Sizes, NetTypes
<1>2. /\ f \in Nat /\ f <= s /\ s <= f + (w - 1) /\ f % w = 0
  <2> HIDE DEF w, s
  <2>1. 0 \in Nat /\ 0 % w = 0
    BY <1>1
  <2> QED
    BY <1>1, <2>1, MultiplesApart
<1> HIDE DEF s, f
<1>3. f + GroupSize < Arrived
  <2>1. f + w <= h
    <3> HIDE DEF w
    <3>1. f < h /\ h % w = 0
      BY <1>1, <1>2 DEF s, w
    <3>2. f \div w < h \div w
      BY <1>1, <1>2, <3>1, MultiplesApart
    <3>3. /\ f \div w \in Nat /\ h \div w \in Nat
          /\ f = w * (f \div w) + (f % w) /\ h = w * (h \div w) + (h % w)
      BY <1>1, <1>2, RemainderBounds
    <3> DEFINE a == f \div w
               b == h \div w
    <3>4. a \in Nat /\ b \in Nat /\ a + 1 <= b /\ f = w * a /\ h = w * b
      BY <1>1, <1>2, <3>1, <3>2, <3>3
    <3> HIDE DEF a, b
    <3>5. (a + 1) * w <= b * w
      BY <1>1, <3>4, ScaleMono
    <3>6. (a + 1) * w = w * a + w /\ b * w = w * b
      BY <1>1, <3>4
    <3> QED
      BY <3>4, <3>5, <3>6
  <2> QED
    BY <1>1, <1>2, <2>1
<1>4. ASSUME NEW i \in 0..GroupSize
      PROVE  \E q \in dropped : q.seq = f + i /\ GroupOf(q) = GroupOf(p)
  <2>1. f + i \in Nat /\ f + i < Arrived /\ f + i < sequence /\ f <= f + i /\ f + i <= f + GroupSize
    BY <1>1, <1>2, <1>3
  <2>2. PICK q \in sent : q.seq = f + i
    BY <2>1 DEF SenderInv, SentOnce
  <2>3. q \in dropped
    BY <2>1, <2>2 DEF Kept
  <2>4. f <= p.seq /\ p.seq <= f + GroupSize /\ f % (GroupSize + 1) = 0
    <3>1. f <= s /\ s <= f + GroupSize
      BY <1>1, <1>2
    <3> QED
      BY <1>2, <3>1 DEF s
  <2>5. GroupOf(p) = GroupOf(q) <=> f <= q.seq /\ q.seq <= f + GroupSize
    BY <1>1, <1>2, <2>4, GroupNumbers
  <2> QED
    BY <2>1, <2>2, <2>3, <2>5
<1>5. 0 \in 0..GroupSize /\ 1 \in 0..GroupSize /\ f + 0 # f + 1
  BY <1>1, <1>2
<1> QED
  BY <1>4, <1>5

-----------------------------------------------------------------------------
(* fec_rx_process takes a packet. *)

(* No packet is late: the next one goes into the window, or starts it.     *)
LEMMA FecPacket ==
    ASSUME Roomy, SenderInv, NetInv, FecInv, Receive, setup.fec
    PROVE  /\ out = << >> /\ pkt = NoPacket /\ started' = TRUE
           /\ UNCHANGED <<setup, senderVars, emitVars, dropped, out>>
           /\ NetInv' /\ Grows /\ Arrived' = Arrived + 1
           /\ expected' = IF expected = 0 THEN Head(wire).ns ELSE expected
           /\ pkt' \in PacketType /\ pkt'.seq = Arrived /\ pkt'.parity = Head(wire).parity
           /\ Match(pkt', Head(wire))
           /\ Running => head' = head /\ slot' = slot
           /\ NotStarted => /\ head' \in Nat /\ head' <= Arrived /\ Arrived <= head' + GroupSize
                            /\ head' % (GroupSize + 1) = 0 /\ slot' = Rx!EmptyWindow
<1> DEFINE p == Head(wire)
           n == setup.rxBuffer * width
           q == [p EXCEPT !.pl = First(packetBuf', n)]
<1>1. /\ wire # << >> /\ pkt = NoPacket /\ out = << >> /\ packetBuf' = Received(p) /\ wire' = Tail(wire)
      /\ UNCHANGED <<setup, senderVars, emitVars, dropped>> /\ Rx!Process(q)
  BY DEF Receive, ReceiveFec, ReceivePlain
<1>2. p \in sent /\ p.seq = Arrived /\ Arrived \in Nat
  BY <1>1, WireHead, NetTypes
<1>3. p \in PacketType /\ p.ns \in Nat /\ p.ns <= setup.txBuffer
  BY <1>2, SentIs
<1>4. NetInv' /\ Grows /\ Arrived' = Arrived + 1
  BY <1>1, TakeKeepsNet
<1>5. packetBuf' \in SUBSET Cells
  BY <1>4 DEF NetInv
<1>6. First(packetBuf', p.ns * width) = p.pl
  BY <1>1, <1>2, <1>5, ReceivedMatches
<1>7. First(First(packetBuf', n), p.ns * width) = p.pl
  <2>1. p.ns <= setup.rxBuffer /\ setup.rxBuffer \in Nat /\ width \in Nat /\ setup.txBuffer \in Nat
    BY <1>3, Widths DEF SenderInv, Counters
  <2>2. p.ns * width <= n
    BY <1>3, <2>1, ScaleMono
  <2>3. p.ns * width \in Int /\ n \in Int
    <3> DEFINE a == p.ns
               b == setup.rxBuffer
               w == width
    <3>1. a \in Nat /\ b \in Nat /\ w \in Nat
      BY <1>3, <2>1
    <3> HIDE DEF a, b, w
    <3>2. a * w \in Int /\ b * w \in Int
      BY <3>1
    <3> QED
      BY <3>2 DEF a, b, w
  <2>4. \A c \in packetBuf' : c[1] < p.ns * width => c[1] < n
    <3> TAKE c \in packetBuf'
    <3> DEFINE x == c[1]
               a == p.ns * width
               b == n
    <3>1. x \in Int /\ a \in Int /\ b \in Int /\ a <= b
      BY <1>5, <2>2, <2>3 DEF Cells
    <3> HIDE DEF x, a, b
    <3>2. x < a => x < b
      BY <3>1
    <3> QED
      BY <3>2 DEF x, a, b
  <2> HIDE DEF n
  <2> QED
    BY <1>6, <2>4 DEF First
<1>8. q \in PacketType /\ q.seq = Arrived /\ q.parity = p.parity /\ q.ns = p.ns
  <2>1. First(packetBuf', n) \in SUBSET Cells
    BY <1>5 DEF First
  <2> HIDE DEF n
  <2> QED
    BY <1>2, <1>3, <2>1 DEF PacketType
<1>9. q.pl = First(packetBuf', n)
  BY <1>3 DEF PacketType
<1> HIDE DEF n, q, p
<1>10. Match(q, p)
  BY <1>2, <1>7, <1>8, <1>9 DEF Match
<1>11. /\ NotStarted \/ Running
       /\ Running => started = TRUE /\ head \in Nat /\ head <= Arrived
       /\ NotStarted => started = FALSE
  BY DEF FecInv, Running, NotStarted
<1>12. PICK f \in Nat : /\ f = Rx!GroupFirst(Arrived) /\ f <= Arrived /\ Arrived <= f + GroupSize
                        /\ f % (GroupSize + 1) = 0
  <2> DEFINE w == GroupSize + 1
             a == Arrived
             f == a - (a % w)
  <2>1. w \in Nat \ {0} /\ a \in Nat /\ 0 \in Nat /\ 0 % w = 0 /\ GroupSize \in Nat
    BY <1>2, Sizes
  <2>2. Rx!GroupFirst(Arrived) = f
    BY DEF Rx!GroupFirst, Rx!WindowSize
  <2>3. w = GroupSize + 1
    OBVIOUS
  <2> HIDE DEF a, w
  <2>4. f \in Nat /\ f <= a /\ a <= f + (w - 1) /\ f % w = 0
    BY <2>1, MultiplesApart
  <2> HIDE DEF f
  <2>5. a <= f + GroupSize
    BY <2>1, <2>3, <2>4
  <2> QED
    BY <2>2, <2>4, <2>5 DEF a, w
<1>13. PICK h \in Nat : /\ h = Rx!HeadFor(q) /\ h <= Arrived
                        /\ h = (IF started THEN head ELSE f)
  BY <1>8, <1>11, <1>12 DEF Rx!HeadFor
<1>14. ~ Rx!FarBehind(q) /\ ~ Rx!Behind(q)
  <2>1. 4 * (GroupSize + 1) \in 0..4 * (GroupSize + 1) /\ Arrived <= Arrived
    BY <1>2, Sizes
  <2>2. Rx!PlusSeq(Arrived, 4 * Rx!WindowSize) = Arrived + 4 * (GroupSize + 1)
    BY <1>2, <2>1, RoomLeft DEF Rx!WindowSize
  <2>3. ~ (Arrived + 4 * (GroupSize + 1) < h)
    BY <1>2, <1>13, Sizes
  <2> QED
    BY <1>2, <1>8, <1>13, <2>2, <2>3 DEF Rx!FarBehind, Rx!Behind
<1>15. Rx!ProcessNext(q)
  BY <1>1, <1>14 DEF Rx!Process, Rx!ProcessRestart, Rx!ProcessLate
<1>16. /\ head' = h /\ slot' = Rx!CurrentWindow /\ started' = TRUE /\ pkt' = q /\ out' = out
       /\ expected' = IF expected = 0 THEN q.ns ELSE expected
  BY <1>13, <1>15 DEF Rx!ProcessNext, Rx!Expect
<1>17. Running => head' = head /\ slot' = slot
  BY <1>11, <1>13, <1>16 DEF Rx!CurrentWindow
<1>18. NotStarted => head' = f /\ slot' = Rx!EmptyWindow
  BY <1>11, <1>13, <1>16 DEF Rx!CurrentWindow
<1> QED
  BY <1>1, <1>4, <1>8, <1>10, <1>12, <1>16, <1>17, <1>18 DEF p

(* fec_rx_process takes a packet in hand, and starts the window with the   *)
(* first.                                                                  *)
LEMMA ReceiveKeepsFec ==
    ASSUME Roomy, SenderInv, NetInv, FecInv, Receive, setup.fec
    PROVE  FecInv' /\ (dropped = {} => head' = head)
<1> PICK p : p = Head(wire)
  OBVIOUS
<1>1. /\ out = << >> /\ pkt = NoPacket /\ started' = TRUE
      /\ NetInv' /\ Grows /\ Arrived' = Arrived + 1
      /\ expected' = IF expected = 0 THEN p.ns ELSE expected
  BY FecPacket
<1>2. /\ setup' = setup /\ sent' = sent /\ sequence' = sequence /\ dropped' = dropped /\ out' = out
      /\ book' = book /\ heard' = heard /\ Data' = Data
  BY FecPacket DEF senderVars, emitVars, Data
<1>3. /\ pkt' \in PacketType /\ pkt'.seq = Arrived /\ pkt'.parity = p.parity /\ Match(pkt', p)
      /\ Running => head' = head /\ slot' = slot
      /\ NotStarted => /\ head' \in Nat /\ head' <= Arrived /\ Arrived <= head' + GroupSize
                       /\ head' % (GroupSize + 1) = 0 /\ slot' = Rx!EmptyWindow
  BY FecPacket
<1>4. p \in sent /\ p.seq = Arrived /\ Arrived \in Nat /\ Arrived < sequence /\ p \notin dropped
  <2>1. wire # << >>
    BY DEF Receive
  <2>2. p \in sent /\ p.seq = Arrived /\ Arrived \in Nat /\ Arrived < sequence
    BY <2>1, WireHead, NetTypes
  <2>3. \A q \in dropped : q.seq < Arrived
    BY DEF NetInv
  <2> QED
    BY <2>2, <2>3
<1>5. pkt' # NoPacket
  BY <1>3, NoPacketAssumption DEF PacketType, Cells
<1>6. Kept = {q \in sent : q \notin dropped /\ q.seq < Arrived}
  BY <1>1 DEF Kept
<1>7. Kept' = Kept
  <2>1. Kept' = {q \in sent : q \notin dropped /\ q.seq < Arrived + 1 /\ q.seq # Arrived}
    BY <1>1, <1>2, <1>3, <1>5 DEF Kept
  <2>2. \A q \in sent : q.seq < Arrived + 1 /\ q.seq # Arrived <=> q.seq < Arrived
    BY <1>4, SentIs
  <2> QED
    BY <1>6, <2>1, <2>2
<1>8. PICK h : h = head'
  OBVIOUS
<1>9. PICK w : w = slot'
  OBVIOUS
<1>10. (NotStarted \/ Running) /\ Rebuilt
  BY DEF FecInv
<1>11. /\ h \in Nat /\ h % (GroupSize + 1) = 0 /\ h <= Arrived
       /\ Holding(h, w, Kept) /\ w[GroupSize] = Rx!Empty
       /\ \A q \in Kept : q.seq <= h + GroupSize
       /\ book.have => book.last < h
  <2>1. CASE Running
    BY <1>3, <1>8, <1>9, <2>1 DEF Running
  <2>2. CASE NotStarted
    <3>1. Kept = {} /\ book.have = FALSE /\ w = [i \in 0..GroupSize |-> Rx!Empty]
      BY <1>3, <1>9, <2>2 DEF NotStarted, Rx!EmptyWindow
    <3>2. GroupSize \in 0..GroupSize
      BY Sizes
    <3> QED
      BY <1>3, <1>8, <2>2, <3>1, <3>2, EmptyIs DEF Holding
  <2> QED
    BY <1>10, <2>1, <2>2
<1>12. \E d \in Data : expected' = d.ns
  <2>1. CASE expected = 0
    <3>1. \E d \in Data : d.ns = p.ns
      <4>1. CASE p.parity
        BY <1>4, <4>1 DEF SenderInv, ParityInv
      <4>2. CASE ~ p.parity
        BY <1>4, <4>2 DEF Data
      <4> QED
        BY <4>1, <4>2
    <3> QED
      BY <1>1, <2>1, <3>1
  <2>2. CASE expected # 0
    BY <1>1, <1>10, <2>2 DEF NotStarted, Running
  <2> QED
    BY <2>1, <2>2
<1>13. Running'
  <2>1. Holding(head, slot, Kept)'
    BY <1>2, <1>7, <1>8, <1>9, <1>11, HoldingKept
  <2>2. \A i \in 1..Len(out') : FALSE
    BY <1>1, <1>2
  <2>3. pkt'.seq >= head' /\ pkt'.seq < Arrived' /\ head' <= Arrived'
    BY <1>1, <1>3, <1>4, <1>8, <1>11
  <2>4. \A q \in Kept : q.seq < pkt'.seq
    BY <1>3, <1>6
  <2>5. Match(pkt, p)'
    BY <1>2, <1>3, HoldingKept, SetupKept DEF Match, First
  <2> QED
    BY <1>1, <1>2, <1>3, <1>4, <1>7, <1>8, <1>9, <1>11, <1>12, <2>1, <2>2, <2>3, <2>4, <2>5 DEF Running
<1>14. Rebuilt'
  <2> SUFFICES ASSUME SameLength', NEW d \in Data', d.seq < h,
                      \A q, r \in dropped' : GroupOf(q) = GroupOf(d) /\ GroupOf(r) = GroupOf(d) => q = r
               PROVE  (IsHeard(d) \/ Waiting(d))'
    BY <1>8 DEF Rebuilt, GroupOf
  <2>1. CASE Running
    <3>1. h = head /\ SameLength /\ d \in Data
      BY <1>2, <1>3, <1>8, <2>1 DEF SameLength
    <3>2. IsHeard(d) \/ Waiting(d)
      BY <1>2, <1>10, <3>1 DEF Rebuilt
    <3>3. IsHeard(d) => IsHeard(d)'
      BY <1>2, SetupKept DEF IsHeard
    <3>4. Waiting(d) => Waiting(d)'
      BY <1>2, SetupKept DEF Waiting, Match, First
    <3> QED
      BY <3>2, <3>3, <3>4
  <2>2. CASE NotStarted
    <3>1. Kept = {} /\ d \in Data
      BY <1>2, <2>2 DEF NotStarted
    <3>2. \E q, r \in dropped : q # r /\ GroupOf(q) = GroupOf(d) /\ GroupOf(r) = GroupOf(d)
      BY <1>1, <1>11, <3>1, GroupLost
    <3> QED
      BY <1>2, <3>2
  <2> QED
    BY <1>10, <2>1, <2>2
<1>15. ASSUME dropped = {}
       PROVE  head' = head
  <2>1. CASE Running
    BY <1>3, <2>1
  <2>2. CASE NotStarted
    <3>1. Kept = {} /\ head = 0
      BY <2>2 DEF NotStarted
    <3>2. \A q \in sent : ~ (q.seq < Arrived)
      BY <1>6, <1>15, <3>1
    <3>3. ~ (0 < Arrived)
      <4>1. \A s \in Nat : s < sequence => \E q \in sent : q.seq = s
        BY DEF SenderInv, SentOnce
      <4>2. 0 \in Nat /\ 0 < sequence
        BY <1>4, NetTypes
      <4>3. \E q \in sent : q.seq = 0
        BY <4>1, <4>2
      <4> QED
        BY <3>2, <4>3
    <3>4. h = 0
      BY <1>4, <1>11, <3>3
    <3> QED
      BY <1>8, <3>1, <3>4
  <2> QED
    BY <1>10, <2>1, <2>2
<1> QED
  BY <1>2, <1>13, <1>14, <1>15 DEF FecInv

(* Taking a packet is silent. *)
LEMMA ReceiveKeepsFecOut ==
    ASSUME Roomy, SenderInv, NetInv, HeardInv, OutInv, HeardSent, LossFree, PlainInv, FecInv,
           Receive, setup.fec
    PROVE  HeardInv' /\ OutInv' /\ HeardSent' /\ LossFree' /\ PlainInv' /\ FecInv'
<1>1. /\ UNCHANGED <<setup, senderVars, emitVars, dropped, out>> /\ Grows
  BY FecPacket
<1>2. FecInv' /\ (dropped = {} => head' = head)
  BY ReceiveKeepsFec
<1>3. HeardInv' /\ OutInv' /\ HeardSent'
  BY <1>1, IdleKeepsOut
<1>4. /\ setup' = setup /\ Data' = Data /\ sequence' = sequence /\ dropped' = dropped
      /\ timestamp' = timestamp /\ offset' = offset /\ failures' = failures
  BY <1>1 DEF senderVars, Data
<1>5. dropped' = {} => FirstFree' = FirstFree
  BY <1>2, <1>4 DEF FirstFree
<1>6. LossFree'
  BY <1>1, <1>4, <1>5, StillKeepsLossFree
<1>7. PlainInv'
  BY <1>4 DEF PlainInv
<1> QED
  BY <1>2, <1>3, <1>6, <1>7

-----------------------------------------------------------------------------
(* A window is finished. *)

(* One turn of the loop of fec_rx_process emits the window and moves the   *)
(* head on.                                                                *)
LEMMA FlushEmits ==
    ASSUME Roomy, LostIsNoPayload, SenderInv, NetInv, setup.fec, Running, out = << >>,
           NEW w, Holding(head, w, {p \in sent : p \notin dropped}), head + GroupSize < Arrived,
           Rx!FlushWindow(w)
    PROVE  /\ WindowEmitted(head, out')
           /\ slot' = Rx!EmptyWindow /\ head' = head + GroupSize + 1
<1> PICK h : h = head
  OBVIOUS
<1> PICK K \in SUBSET sent : K = {p \in sent : p \notin dropped}
  OBVIOUS
<1>1. /\ h \in Nat /\ h <= Arrived /\ h % (GroupSize + 1) = 0 /\ \E d \in Data : expected = d.ns
  BY DEF Running
<1>2. PICK es : es = Rx!Emissions(h, Rx!Recover(w))
  OBVIOUS
<1>3. WindowEmitted(h, es)
  BY <1>1, <1>2, Flushed
<1>4. es \in Seq(EmissionType) /\ Len(es) \in 0..GroupSize + 1
  BY <1>3 DEF WindowEmitted
<1>5. out' = es
  <2>1. Len(es) <= SeqSpace
    BY <1>4, Sizes DEF Roomy
  <2>2. << >> \o es = es /\ Len(<< >>) = 0 /\ Len(es) \in Nat
    BY <1>4, ConcatEmptySeq, EmptySeq, LenProperties
  <2>3. Rx!Log(es) = es
    BY <2>1, <2>2 DEF Rx!Log
  <2> QED
    BY <1>2, <2>3 DEF Rx!FlushWindow
<1>6. h + (GroupSize + 1) = h + GroupSize + 1 /\ GroupSize + 1 \in 0..4 * (GroupSize + 1)
  BY <1>1, Sizes
<1>7. Rx!PlusSeq(h, GroupSize + 1) = h + GroupSize + 1
  BY <1>1, <1>6, RoomLeft
<1> QED
  BY <1>3, <1>5, <1>7 DEF Rx!FlushWindow, Rx!WindowSize

(* What it emits is the next to be heard. *)
LEMMA FlushKeepsOut ==
    ASSUME Roomy, LostIsNoPayload, SenderInv, NetInv, HeardInv, OutInv, HeardSent, LossFree,
           setup.fec, Running, out = << >>, head + GroupSize < Arrived,
           WindowEmitted(head, out'), head' = head + GroupSize + 1,
           UNCHANGED <<setup, senderVars, wire, dropped, emitVars>>
    PROVE  HeardInv' /\ OutInv' /\ HeardSent' /\ LossFree'
<1>1. /\ setup' = setup /\ sequence' = sequence /\ timestamp' = timestamp /\ offset' = offset
      /\ wire' = wire /\ sent' = sent /\ dropped' = dropped /\ Data' = Data
      /\ book' = book /\ lastFrame' = lastFrame /\ heard' = heard /\ failures' = failures
  BY DEF senderVars, emitVars, Data
<1>2. (Exact' <=> Exact) /\ SameLength' = SameLength /\ Arrived' = Arrived
  BY <1>1 DEF Exact, SameLength, Arrived
<1> PICK h : h = head
  OBVIOUS
<1> PICK es : es = out'
  OBVIOUS
<1>3. /\ h \in Nat /\ (book.have => book.last < h) /\ book \in BookType
      /\ h % (GroupSize + 1) = 0 /\ Arrived \in Nat
  BY NetTypes DEF Running, OutInv
<1>4. /\ es \in Seq(EmissionType) /\ Len(es) \in 0..GroupSize + 1
      /\ \A n \in 1..Len(es) : h <= es[n].seq /\ es[n].seq <= h + GroupSize
      /\ \A m, n \in 1..Len(es) : m < n => es[m].seq < es[n].seq
      /\ Exact => \A n \in 1..Len(es) : es[n].pl # Lost => \E d \in Data : Match(es[n], d)
  BY DEF WindowEmitted
<1>5. HeardInv'
  BY <1>1 DEF HeardInv, FromLast
<1>6. HeardSent'
  BY <1>1, <1>2, SetupKept DEF HeardSent, Frames
<1>7. OutInv'
  <2>1. ASSUME NEW n \in 1..Len(es)
        PROVE  es[n].seq < Arrived /\ (book.have => book.last < es[n].seq)
    <3>1. es[n] \in EmissionType
      BY <1>4, ElementOfSeq
    <3>2. es[n].seq \in Nat /\ h <= es[n].seq /\ es[n].seq <= h + GroupSize /\ book.last \in Nat
      BY <1>3, <1>4, <3>1 DEF EmissionType, BookType
    <3> QED
      BY <1>3, <3>2, Sizes
  <2>2. Exact' => \A n \in 1..Len(es) : es[n].pl # Lost => \E d \in Data : Match(out[n], d)'
    <3> SUFFICES ASSUME Exact, NEW n \in 1..Len(es), es[n].pl # Lost
                 PROVE  \E d \in Data : Match(out[n], d)'
      BY <1>2
    <3>1. PICK d \in Data : Match(es[n], d)
      BY <1>4
    <3>2. Match(out[n], d)'
      BY <1>1, <3>1, SetupKept DEF Match, First
    <3> QED
      BY <3>2
  <2> QED
    BY <1>1, <1>2, <1>4, <2>1, <2>2 DEF OutInv
<1>8. LossFree'
  <2> SUFFICES ASSUME dropped = {}, failures = 0 PROVE LossFree'
    BY <1>1 DEF LossFree
  <2>1. /\ Len(es) = GroupSize /\ GroupSize \in Nat \ {0}
        /\ \A n \in 1..GroupSize : es[n].pl # Lost /\ es[n].seq = h + n - 1
    BY Sizes DEF WindowEmitted
  <2>2. Unheard = h
    BY DEF Unheard, FirstFree
  <2>3. FirstFree' = h + GroupSize + 1
    BY <1>1 DEF FirstFree
  <2>4. Unheard' = h
    <3>1. out' # << >> /\ 1 \in 1..GroupSize /\ h + 1 - 1 = h
      <4>1. Len(es) # 0 /\ 1 \in 1..GroupSize /\ h + 1 - 1 = h
        BY <1>3, <2>1
      <4> QED
        BY <4>1, EmptySeq
    <3> QED
      BY <2>1, <3>1 DEF Unheard
  <2>5. ASSUME NEW n \in 1..GroupSize
        PROVE  NextData(h + n - 1) = IF n = GroupSize THEN h + GroupSize + 1 ELSE h + (n + 1) - 1
    <3>1. n \in 0..GroupSize /\ (h + n - 1) + 1 = h + n /\ (h + n - 1) + 2 = h + n + 1
          /\ h + (n + 1) - 1 = h + n
      BY <1>3, <2>1
    <3>2. (h + n) % (GroupSize + 1) = n
      BY <1>3, <3>1, SlotOffset
    <3> QED
      BY <3>1, <3>2 DEF NextData
  <2>6. ASSUME NEW n \in 1..GroupSize
        PROVE  NextData(out[n].seq)' = IF n = GroupSize THEN FirstFree' ELSE es[n + 1].seq
    <3>1. es[n].seq = h + n - 1
      BY <2>1
    <3>2. NextData(out[n].seq)' = NextData(h + n - 1)
      BY <1>1, <3>1 DEF NextData
    <3>3. n # GroupSize => n + 1 \in 1..GroupSize
      BY <2>1
    <3>4. n # GroupSize => es[n + 1].seq = h + (n + 1) - 1
      BY <2>1, <3>3
    <3> QED
      BY <2>3, <2>5, <3>2, <3>4
  <2>7. \A i \in 1..Len(heard) : FrameBytes(RealBefore(i))' = FrameBytes(RealBefore(i))
    BY <1>1 DEF FrameBytes, RealBefore, width
  <2>8. RealBefore(Len(heard) + 1)' = RealBefore(Len(heard) + 1)
    BY <1>1 DEF RealBefore
  <2> QED
    BY <1>1, <2>1, <2>2, <2>4, <2>6, <2>7, <2>8 DEF LossFree
<1> QED
  BY <1>5, <1>6, <1>7, <1>8

(* The window is over: what it held is emitted, and the next one is empty. *)
LEMMA FlushKeepsFec ==
    ASSUME SenderInv, NetInv, OutInv, FecInv, setup.fec, Running, out = << >>, head + GroupSize < Arrived,
           WindowEmitted(head, out'), head' = head + GroupSize + 1, slot' = Rx!EmptyWindow,
           UNCHANGED <<setup, senderVars, wire, dropped, emitVars, started, expected>>,
           \A p \in Kept' : p.seq <= head + GroupSize,
           \/ pkt' = NoPacket
           \/ pkt' = pkt /\ pkt # NoPacket /\ pkt.seq > head + GroupSize
    PROVE  FecInv'
<1>1. /\ setup' = setup /\ sequence' = sequence /\ started' = started /\ expected' = expected
      /\ wire' = wire /\ sent' = sent /\ dropped' = dropped /\ Data' = Data
      /\ book' = book /\ heard' = heard
  BY DEF senderVars, emitVars, Data
<1>2. SameLength' = SameLength /\ Arrived' = Arrived
  BY <1>1 DEF SameLength, Arrived
<1> PICK h : h = head
  OBVIOUS
<1> PICK es : es = out'
  OBVIOUS
<1> PICK K : K = Kept'
  OBVIOUS
<1> DEFINE g == h + GroupSize + 1
<1>3. /\ h \in Nat /\ h % (GroupSize + 1) = 0 /\ Arrived \in Nat /\ GroupSize \in Nat /\ g \in Nat
      /\ h <= g /\ g <= Arrived /\ g % (GroupSize + 1) = 0
  <2>1. h \in Nat /\ h % (GroupSize + 1) = 0 /\ Arrived \in Nat /\ GroupSize \in Nat
    BY NetTypes, Sizes DEF Running
  <2> DEFINE w == GroupSize + 1
  <2>2. w \in Nat \ {0} /\ g = h + w /\ g \in Nat /\ h <= g /\ g <= Arrived
    BY <2>1, Sizes
  <2>3. g % w = 0
    <3>1. h % w = 0
      BY <2>1
    <3> HIDE DEF w
    <3>2. h \div w \in Nat /\ h = w * (h \div w) + 0
      BY <2>1, <2>2, <3>1, RemainderBounds
    <3> DEFINE a == h \div w
    <3>3. a \in Nat /\ h = w * a
      BY <2>2, <3>2
    <3> HIDE DEF a
    <3>4. g = w * (a + 1) + 0 /\ a + 1 \in Nat
      BY <2>2, <3>3
    <3> QED
      BY <2>2, <3>4, RemainderUnique
  <2> QED
    BY <2>1, <2>2, <2>3
<1>4. book.have => book.last < g
  <2>1. book.have => book.last < h /\ book.last \in Nat
    BY DEF Running, OutInv, BookType
  <2> QED
    BY <1>3, <2>1
<1>5. /\ es \in Seq(EmissionType)
      /\ \A n \in 1..Len(es) : h <= es[n].seq /\ es[n].seq <= h + GroupSize
      /\ SameLength => \A d \in Data :
           /\ h <= d.seq /\ d.seq <= h + GroupSize
           /\ \A p, q \in dropped : GroupOf(p) = GroupOf(d) /\ GroupOf(q) = GroupOf(d) => p = q
           => \E n \in 1..Len(es) : es[n].pl # Lost /\ Match(es[n], d)
  BY DEF WindowEmitted
<1>6. \A n \in 1..Len(es) : es[n].seq < g
  <2> TAKE n \in 1..Len(es)
  <2>1. es[n] \in EmissionType
    BY <1>5, ElementOfSeq
  <2>2. es[n].seq \in Nat /\ es[n].seq <= h + GroupSize
    BY <1>5, <2>1 DEF EmissionType
  <2>3. PICK s \in Nat : s = es[n].seq /\ s <= h + GroupSize
    BY <2>2
  <2>4. s < g
    BY <1>3, <2>3
  <2> QED
    BY <2>3, <2>4
<1>7. \A p \in K : p \in sent /\ p.seq \in Nat /\ p.seq < g
  <2> TAKE p \in K
  <2>1. p \in sent /\ p.seq <= h + GroupSize
    BY <1>1 DEF Kept
  <2>2. p.seq \in Nat
    BY <2>1, SentIs
  <2> QED
    BY <1>3, <2>1, <2>2
<1> HIDE DEF g
<1>8. Holding(g, Rx!EmptyWindow, K) /\ Rx!EmptyWindow[GroupSize] = Rx!Empty
  <2>1. \A i \in 0..GroupSize : Rx!EmptyWindow[i] = Rx!Empty
    BY DEF Rx!EmptyWindow
  <2>2. Rx!EmptyWindow \in [0..GroupSize -> SlotType]
    BY EmptyIs DEF Rx!EmptyWindow
  <2>3. \A i \in 0..GroupSize, p \in K : p.seq # g + i
    BY <1>3, <1>7
  <2>4. GroupSize \in 0..GroupSize
    BY <1>3
  <2> QED
    BY <2>1, <2>2, <2>3, <2>4 DEF Holding
<1>9. Running'
  <2>1. Holding(head, slot, Kept)'
    BY <1>1, <1>8, HoldingKept DEF g
  <2>2. \A p \in K : p.seq <= g + GroupSize
    BY <1>3, <1>7
  <2>3. started = TRUE /\ \E d \in Data : expected = d.ns
    BY DEF Running
  <2>4. ASSUME pkt' # NoPacket
        PROVE  /\ pkt' \in PacketType /\ pkt'.seq >= g /\ pkt'.seq < Arrived
               /\ \A p \in K : p.seq < pkt'.seq
               /\ \E p \in sent : p \notin dropped /\ p.parity = pkt'.parity /\ Match(pkt, p)'
    <3>1. pkt' = pkt /\ pkt # NoPacket /\ pkt.seq > h + GroupSize
      BY <2>4
    <3>2. /\ pkt \in PacketType /\ pkt.seq < Arrived /\ pkt.seq \in Nat
          /\ \E p \in sent : p \notin dropped /\ p.parity = pkt.parity /\ Match(pkt, p)
      BY <3>1 DEF Running, PacketType
    <3>3. pkt.seq >= g /\ \A p \in K : p.seq < pkt.seq
      BY <1>3, <1>7, <3>1, <3>2 DEF g
    <3>4. \A p : Match(pkt, p)' <=> Match(pkt, p)
      BY <1>1, <3>1, HoldingKept
    <3> QED
      BY <3>1, <3>2, <3>3, <3>4
  <2> QED
    BY <1>1, <1>2, <1>3, <1>4, <1>6, <1>8, <2>1, <2>2, <2>3, <2>4 DEF Running, g
<1>10. Rebuilt'
  <2> SUFFICES ASSUME SameLength, NEW d \in Data, d.seq < g,
                      \A q, r \in dropped : GroupOf(q) = GroupOf(d) /\ GroupOf(r) = GroupOf(d) => q = r
               PROVE  (IsHeard(d) \/ Waiting(d))'
    BY <1>1, <1>2 DEF Rebuilt, GroupOf, g
  <2>1. CASE d.seq < h
    <3>1. IsHeard(d) \/ Waiting(d)
      BY <2>1 DEF FecInv, Rebuilt
    <3>2. ~ Waiting(d)
      BY EmptySeq DEF Waiting
    <3>3. IsHeard(d) => IsHeard(d)'
      BY <1>1, SetupKept DEF IsHeard
    <3> QED
      BY <3>1, <3>2, <3>3
  <2>2. CASE ~ (d.seq < h)
    <3>1. h <= d.seq /\ d.seq <= h + GroupSize
      BY <1>3, <2>2, DataIs DEF g
    <3>2. PICK n \in 1..Len(es) : es[n].pl # Lost /\ Match(es[n], d)
      BY <1>5, <3>1
    <3>3. Match(out[n], d)'
      BY <1>1, <3>2, SetupKept DEF Match, First
    <3>4. Waiting(d)'
      BY <3>2, <3>3 DEF Waiting
    <3> QED
      BY <3>4
  <2> QED
    BY <2>1, <2>2
<1> QED
  BY <1>9, <1>10 DEF FecInv

-----------------------------------------------------------------------------
(* The loop of fec_rx_process. *)

(* The packet being worked on is in the window or beyond it, and its slot  *)
(* is free.                                                                *)
LEMMA AtWork ==
    ASSUME Roomy, SenderInv, NetInv, PlainInv, FecInv, pkt # NoPacket
    PROVE  /\ setup.fec /\ Running
           /\ pkt \in PacketType /\ pkt.seq \in Nat /\ head \in Nat /\ head <= pkt.seq
           /\ pkt.seq < Arrived /\ Arrived \in Nat /\ head <= Arrived /\ GroupSize \in Nat
           /\ head % (GroupSize + 1) = 0
           /\ Rx!Fits(pkt.seq) <=> pkt.seq <= head + GroupSize
           /\ Rx!Fits(pkt.seq) => /\ Rx!Offset \in 0..GroupSize /\ pkt.seq = head + Rx!Offset
                                  /\ slot[Rx!Offset] = Rx!Empty
<1>1. setup.fec /\ Running
  BY DEF PlainInv, FecInv, NotStarted
<1>2. /\ pkt \in PacketType /\ pkt.seq \in Nat /\ head \in Nat /\ head <= pkt.seq
      /\ pkt.seq < Arrived /\ Arrived \in Nat /\ head <= Arrived /\ GroupSize \in Nat
      /\ head % (GroupSize + 1) = 0
  <2>1. /\ pkt \in PacketType /\ head \in Nat /\ pkt.seq >= head /\ pkt.seq < Arrived
        /\ head <= Arrived /\ head % (GroupSize + 1) = 0
    BY <1>1 DEF Running
  <2> QED
    BY <2>1, NetTypes, Sizes DEF PacketType
<1>3. Rx!Fits(pkt.seq) <=> pkt.seq <= head + GroupSize
  <2>1. GroupSize + 1 \in 0..4 * (GroupSize + 1)
    BY Sizes
  <2>2. Rx!PlusSeq(head, GroupSize + 1) = head + (GroupSize + 1)
    BY <1>2, <2>1, RoomLeft
  <2> QED
    BY <1>2, <2>2 DEF Rx!Fits, Rx!WindowSize
<1>4. ASSUME Rx!Fits(pkt.seq)
      PROVE  /\ Rx!Offset \in 0..GroupSize /\ pkt.seq = head + Rx!Offset
             /\ slot[Rx!Offset] = Rx!Empty
  <2>1. PICK i \in 0..GroupSize : pkt.seq = head + i /\ i = pkt.seq - head /\ i \in 0..4 * (GroupSize + 1)
    <3>1. pkt.seq - head \in 0..GroupSize /\ pkt.seq = head + (pkt.seq - head)
          /\ pkt.seq - head \in 0..4 * (GroupSize + 1)
      BY <1>2, <1>3, <1>4
    <3> QED
      BY <3>1
  <2>2. i \in Nat /\ i < SeqSpace
    <3>1. head + i < SeqSpace
      BY <1>2, <2>1, RoomLeft
    <3> QED
      BY <1>2, <2>1, <3>1, Sizes
  <2>3. Rx!Offset = i
    BY <2>1, <2>2, SmallRemainder, Sizes DEF Rx!Offset
  <2>4. slot[i] = Rx!Empty \/ \E p \in Kept : p.seq = head + i
    BY <1>1 DEF Running, Holding
  <2>5. \A p \in Kept : p.seq # pkt.seq
    BY DEF Kept
  <2> QED
    BY <2>1, <2>3, <2>4, <2>5
<1> QED
  BY <1>1, <1>2, <1>3, <1>4

(* The packet joins what was received before. *)
LEMMA FilledHolds ==
    ASSUME Roomy, SenderInv, NetInv, PlainInv, FecInv, pkt # NoPacket,
           NEW i \in 0..GroupSize, pkt.seq = head + i, NEW K,
           K = {p \in sent : p \notin dropped /\ p.seq < Arrived},
           NEW f, f = [slot EXCEPT ![i] = [kind |-> IF pkt.parity THEN "parity" ELSE "data",
                                           ns |-> pkt.ns, pl |-> pkt.pl]]
    PROVE  Holding(head, f, K) /\ \A p \in K : p.seq <= head + GroupSize
<1> DEFINE s == [kind |-> IF pkt.parity THEN "parity" ELSE "data", ns |-> pkt.ns, pl |-> pkt.pl]
<1>1. /\ setup.fec /\ Running /\ pkt \in PacketType /\ pkt.seq \in Nat /\ head \in Nat
      /\ pkt.seq < Arrived /\ Arrived \in Nat /\ GroupSize \in Nat
  BY AtWork
<1>2. /\ Holding(head, slot, Kept) /\ \A p \in Kept : p.seq <= head + GroupSize
      /\ \E p \in sent : p \notin dropped /\ p.parity = pkt.parity /\ Match(pkt, p)
  BY <1>1 DEF Running
<1>3. PICK p \in sent : p \notin dropped /\ p.parity = pkt.parity /\ Match(pkt, p)
  BY <1>2
<1>4. s \in SlotType /\ s.kind # "empty" /\ Holds(s, p)
  BY <1>1, <1>3 DEF SlotType, PacketType, Holds, Match
<1> HIDE DEF s
<1>5. p.seq = pkt.seq /\ p \in K
  BY <1>1, <1>3 DEF Match
<1>6. ASSUME NEW q \in K
      PROVE  q = p \/ q \in Kept
  <2>1. q.seq = pkt.seq => q = p
    BY <1>3, <1>5, SentIs
  <2> QED
    BY <2>1 DEF Kept
<1>7. \A q \in Kept : q \in K
  BY DEF Kept
<1>8. /\ slot \in [0..GroupSize -> SlotType]
      /\ \A j \in 0..GroupSize : slot[j] = Rx!Empty \/ \E q \in Kept : q.seq = head + j /\ Holds(slot[j], q)
      /\ \A j \in 0..GroupSize, q \in Kept : q.seq = head + j => slot[j].kind # "empty"
  BY <1>2 DEF Holding
<1>9. f \in [0..GroupSize -> SlotType] /\ f[i] = s /\ \A j \in 0..GroupSize : j # i => f[j] = slot[j]
  BY <1>4, <1>8 DEF s
<1>10. ASSUME NEW j \in 0..GroupSize
       PROVE  /\ f[j] = Rx!Empty \/ \E q \in K : q.seq = head + j /\ Holds(f[j], q)
              /\ \A q \in K : q.seq = head + j => f[j].kind # "empty"
  <2>1. CASE j = i
    BY <1>4, <1>5, <1>9, <2>1
  <2>2. CASE j # i
    <3>1. f[j] = slot[j] /\ p.seq # head + j
      BY <1>1, <1>5, <1>9, <2>2
    <3> QED
      BY <1>6, <1>7, <1>8, <3>1
  <2> QED
    BY <2>1, <2>2
<1>11. Holding(head, f, K)
  BY <1>9, <1>10 DEF Holding
<1>12. \A q \in K : q.seq <= head + GroupSize
  <2>1. p.seq <= head + GroupSize
    BY <1>1, <1>5
  <2> QED
    BY <1>2, <1>6, <2>1
<1> QED
  BY <1>11, <1>12

(* A step of the loop. *)
LEMMA FecStepKeeps ==
    ASSUME Roomy, LostIsNoPayload, SenderInv, NetInv, HeardInv, OutInv, HeardSent, LossFree,
           PlainInv, FecInv, FecStep
    PROVE  HeardInv' /\ OutInv' /\ HeardSent' /\ LossFree' /\ PlainInv' /\ FecInv'
<1>1. /\ out = << >> /\ pkt # NoPacket /\ UNCHANGED <<setup, senderVars, wire, dropped, emitVars, started, expected>>
      /\ UNCHANGED <<setup, senderVars, wire, dropped, packetBuf>>
      /\ Rx!AdvanceWindow \/ Rx!IgnoreCopy \/ Rx!StorePacket
  BY DEF FecStep, Rx!FecStep, Rx!AdvanceWindow, Rx!IgnoreCopy, Rx!StorePacket
<1>2. /\ setup.fec /\ Running /\ pkt \in PacketType /\ pkt.seq \in Nat /\ head \in Nat /\ head <= pkt.seq
      /\ pkt.seq < Arrived /\ Arrived \in Nat /\ head <= Arrived /\ GroupSize \in Nat
      /\ Rx!Fits(pkt.seq) <=> pkt.seq <= head + GroupSize
      /\ Rx!Fits(pkt.seq) => /\ Rx!Offset \in 0..GroupSize /\ pkt.seq = head + Rx!Offset
                             /\ slot[Rx!Offset] = Rx!Empty
  BY <1>1, AtWork
<1>3. /\ setup' = setup /\ sequence' = sequence /\ timestamp' = timestamp /\ offset' = offset
      /\ wire' = wire /\ sent' = sent /\ dropped' = dropped /\ Data' = Data /\ Arrived' = Arrived
      /\ book' = book /\ heard' = heard /\ started' = started /\ expected' = expected
      /\ failures' = failures
  BY <1>1 DEF senderVars, emitVars, Data, Arrived
<1>4. PlainInv'
  BY <1>2, <1>3 DEF PlainInv
<1>5. ASSUME NEW w, Rx!FlushWindow(w), Holding(head, w, {p \in sent : p \notin dropped}),
             head + GroupSize < Arrived, \A p \in Kept' : p.seq <= head + GroupSize,
             \/ pkt' = NoPacket
             \/ pkt' = pkt /\ pkt # NoPacket /\ pkt.seq > head + GroupSize
      PROVE  HeardInv' /\ OutInv' /\ HeardSent' /\ LossFree' /\ FecInv'
  <2>1. /\ WindowEmitted(head, out')
        /\ slot' = Rx!EmptyWindow /\ head' = head + GroupSize + 1
    BY <1>1, <1>2, <1>5, FlushEmits
  <2>2. HeardInv' /\ OutInv' /\ HeardSent' /\ LossFree'
    BY <1>1, <1>2, <1>5, <2>1, FlushKeepsOut
  <2>3. FecInv'
    BY <1>1, <1>2, <1>5, <2>1, FlushKeepsFec
  <2> QED
    BY <2>2, <2>3
<1>6. CASE Rx!AdvanceWindow
  <2>1. /\ ~ Rx!Fits(pkt.seq) /\ Rx!FlushWindow(slot) /\ pkt' = pkt
    BY <1>6 DEF Rx!AdvanceWindow
  <2>2. pkt.seq > head + GroupSize /\ head + GroupSize < Arrived
    BY <1>2, <2>1
  <2>3. Kept' = Kept
    BY <1>3, <2>1 DEF Kept
  <2>4. Holding(head, slot, Kept) /\ \A p \in Kept : p.seq <= head + GroupSize
    BY <1>2 DEF Running
  <2> DEFINE K == {p \in sent : p \notin dropped}
  <2>5. ASSUME NEW i \in 0..GroupSize, NEW p \in K, p.seq = head + i
        PROVE  p \in Kept
    BY <1>2, <2>2, <2>5 DEF Kept
  <2>6. \A p \in Kept : p \in K
    BY DEF Kept
  <2> HIDE DEF K
  <2>7. Holding(head, slot, K)
    BY <2>4, <2>5, <2>6 DEF Holding
  <2> QED
    BY <1>1, <1>4, <1>5, <2>1, <2>2, <2>3, <2>4, <2>7 DEF K
<1>7. CASE Rx!IgnoreCopy
  <2>1. Rx!Fits(pkt.seq) /\ slot[Rx!Offset].kind # "empty"
    BY <1>7 DEF Rx!IgnoreCopy
  <2> QED
    BY <1>2, <2>1, EmptyIs
<1>8. CASE Rx!StorePacket
  <2> PICK i : i = Rx!Offset
    OBVIOUS
  <2>1. PICK f : f = [slot EXCEPT ![i] = [kind |-> IF pkt.parity THEN "parity" ELSE "data",
                                          ns |-> pkt.ns, pl |-> pkt.pl]]
    OBVIOUS
  <2>2. /\ Rx!Fits(pkt.seq) /\ pkt' = NoPacket
        /\ IF i = GroupSize THEN Rx!FlushWindow(f) ELSE slot' = f /\ head' = head /\ out' = out
    BY <1>8, <2>1 DEF Rx!StorePacket
  <2>3. i \in 0..GroupSize /\ pkt.seq = head + i
    BY <1>2, <2>2
  <2>4. PICK K : K = {p \in sent : p \notin dropped /\ p.seq < Arrived}
    OBVIOUS
  <2>5. Holding(head, f, K) /\ \A p \in K : p.seq <= head + GroupSize
    BY <1>1, <2>1, <2>3, <2>4, FilledHolds
  <2>6. Kept' = K
    BY <1>3, <2>2, <2>4 DEF Kept
  <2>7. CASE i = GroupSize
    <3> DEFINE L == {p \in sent : p \notin dropped}
    <3>1. Rx!FlushWindow(f) /\ head + GroupSize < Arrived
      BY <1>2, <2>2, <2>3, <2>7
    <3>2. ASSUME NEW j \in 0..GroupSize, NEW p \in L, p.seq = head + j
          PROVE  p \in K
      BY <1>2, <2>4, <3>1, <3>2
    <3>3. \A p \in K : p \in L
      BY <2>4
    <3> HIDE DEF L
    <3>4. Holding(head, f, L)
      BY <2>5, <3>2, <3>3 DEF Holding
    <3> QED
      BY <1>4, <1>5, <2>2, <2>5, <2>6, <3>1, <3>4 DEF L
  <2>8. CASE i # GroupSize
    <3>1. slot' = f /\ head' = head /\ out' = out
      BY <2>2, <2>8
    <3>2. HeardInv' /\ OutInv' /\ HeardSent' /\ LossFree'
      <4>1. Grows
        BY <1>1, StrayKeepsNet
      <4>2. HeardInv' /\ OutInv' /\ HeardSent'
        BY <1>1, <3>1, <4>1, IdleKeepsOut
      <4>3. FirstFree' = FirstFree
        BY <1>3, <3>1 DEF FirstFree
      <4>4. LossFree'
        BY <1>1, <1>3, <3>1, <4>3, StillKeepsLossFree
      <4> QED
        BY <4>2, <4>4
    <3>3. Running'
      <4>1. Holding(head, slot, Kept)'
        BY <1>3, <2>5, <2>6, <3>1, HoldingKept
      <4>2. f[GroupSize] = Rx!Empty
        <5>1. GroupSize \in 0..GroupSize /\ slot \in [0..GroupSize -> SlotType] /\ slot[GroupSize] = Rx!Empty
          BY <1>2, Sizes DEF Running, Holding
        <5> QED
          BY <2>1, <2>8, <5>1
      <4> QED
        BY <1>2, <1>3, <2>2, <2>5, <2>6, <3>1, <4>1, <4>2 DEF Running
    <3>4. Rebuilt'
      <4>1. \A p : (IsHeard(p) => IsHeard(p)') /\ (Waiting(p) => Waiting(p)')
        BY <1>3, <3>1, SetupKept DEF IsHeard, Waiting, Match, First
      <4>2. SameLength' = SameLength
        BY <1>3 DEF SameLength
      <4>3. Rebuilt
        BY <1>2 DEF FecInv
      <4> QED
        BY <1>3, <3>1, <4>1, <4>2, <4>3 DEF Rebuilt, GroupOf
    <3> QED
      BY <1>4, <3>2, <3>3, <3>4 DEF FecInv
  <2> QED
    BY <2>7, <2>8
<1> QED
  BY <1>1, <1>6, <1>7, <1>8

(* A packet that waited is heard, with all its frames. *)
LEMMA EmitKeepsFec ==
    ASSUME Roomy, SenderInv, NetInv, HeardInv, OutInv, FecInv, Emit
    PROVE  FecInv'
<1>1. /\ out # << >> /\ out' = Tail(out)
      /\ UNCHANGED <<setup, senderVars, wire, started, head, slot, expected, pkt, dropped>>
  BY DEF Emit
<1>2. /\ setup' = setup /\ sent' = sent /\ Data' = Data /\ dropped' = dropped
      /\ Arrived' = Arrived /\ Kept' = Kept /\ SameLength' = SameLength
      /\ started' = started /\ head' = head /\ slot' = slot /\ expected' = expected /\ pkt' = pkt
  BY <1>1 DEF senderVars, Data, Arrived, Kept, SameLength
<1> SUFFICES ASSUME setup.fec PROVE (Running /\ Rebuilt)'
  BY <1>2 DEF FecInv
<1>3. Running /\ Rebuilt
  BY <1>1 DEF FecInv, NotStarted
<1>4. /\ out[1] \in EmissionType /\ Len(out) \in Nat \ {0} /\ Len(out') = Len(out) - 1
      /\ \A i \in 1..Len(out) - 1 : out'[i] = out[i + 1]
  BY <1>1, TailIs DEF OutInv
<1> PICK e : e = out[1]
  OBVIOUS
<1>5. Running'
  <2>1. \A i \in 1..Len(out') : out'[i].seq < head
    <3>1. \A i \in 1..Len(out') : out'[i] = out[i + 1] /\ i + 1 \in 1..Len(out)
      BY <1>4
    <3> QED
      BY <1>3, <3>1 DEF Running
  <2>2. book'.last < head
    <3>1. 1 \in 1..Len(out)
      BY <1>4
    <3> QED
      BY <1>3, <3>1, BookAfter DEF Running
  <2>3. Holding(head, slot, Kept)'
    BY <1>2, <1>3, HoldingKept DEF Running
  <2>4. \A p : Match(pkt, p)' <=> Match(pkt, p)
    BY <1>2, HoldingKept
  <2> QED
    BY <1>2, <1>3, <2>1, <2>2, <2>3, <2>4 DEF Running
<1>6. PICK g \in Nat, k \in Nat : \E fr \in [1..k -> SUBSET Cells] :
              /\ Written(g, k, fr)
              /\ e.pl # Lost => k = UnpackedLength(e.ns) /\ fr = PcmUnpack(e.pl, k)
  BY EmitWrites
<1>7. PICK fr : /\ Written(g, k, fr)
                /\ e.pl # Lost => k = UnpackedLength(e.ns) /\ fr = PcmUnpack(e.pl, k)
  BY <1>6
<1>8. PICK n \in Nat : n = Len(heard)
  BY LenProperties DEF HeardInv
<1>9. /\ Len(heard') = n + g + k
      /\ \A i \in 1..n : heard'[i] = heard[i]
      /\ \A j \in 1..k : heard'[n + g + j].real /\ heard'[n + g + j].data = fr[j]
  BY <1>7, <1>8 DEF Written
<1>10. \A f : FrameBytes(f)' = FrameBytes(f)
  BY <1>2, SetupKept
<1>11. ASSUME NEW p \in Data, IsHeard(p)
       PROVE  IsHeard(p)'
  <2>1. \A i \in 1..n : i \in 1..n + g + k
    OBVIOUS
  <2> QED
    BY <1>8, <1>9, <1>10, <1>11, <2>1 DEF IsHeard
<1>12. ASSUME NEW p \in Data, e.pl # Lost, Match(e, p)
       PROVE  IsHeard(p)'
  <2>1. /\ k = p.ns /\ fr = [j \in 1..k |-> FrameBytes(FirstFrame(p) + j - 1)]
        /\ FirstFrame(p) \in Nat /\ p.ns \in Nat
    <3>1. UnpackedLength(e.ns) = p.ns /\ PcmUnpack(e.pl, p.ns) = [j \in 1..p.ns |-> FrameBytes(FirstFrame(p) + j - 1)]
      BY <1>4, <1>12, MatchUnpacks
    <3> QED
      BY <1>7, <1>12, <3>1, DataIs
  <2>2. ASSUME NEW f \in FirstFrame(p)..FirstFrame(p) + p.ns - 1
        PROVE  \E i \in 1..n + g + k : heard'[i].real /\ heard'[i].data = FrameBytes(f)
    <3> DEFINE a == FirstFrame(p)
    <3>1. a \in Nat /\ f \in Int /\ a <= f /\ f <= a + k - 1
      BY <2>1, <2>2
    <3>2. fr = [j \in 1..k |-> FrameBytes(a + j - 1)]
      BY <2>1
    <3> HIDE DEF a
    <3>3. PICK j \in 1..k : a + j - 1 = f
      <4>1. f - a + 1 \in 1..k /\ a + (f - a + 1) - 1 = f
        BY <3>1
      <4> QED
        BY <4>1
    <3>4. n + g + j \in 1..n + g + k
      BY <3>3
    <3> QED
      BY <1>9, <3>2, <3>3, <3>4
  <2> QED
    BY <1>9, <1>10, <2>2 DEF IsHeard
<1>13. ASSUME NEW p \in Data, Waiting(p)
       PROVE  IsHeard(p)' \/ Waiting(p)'
  <2>1. PICK i \in 1..Len(out) : out[i].pl # Lost /\ Match(out[i], p)
    BY <1>13 DEF Waiting
  <2>2. CASE i = 1
    BY <1>12, <2>1, <2>2
  <2>3. CASE i # 1
    <3>1. PICK j \in 1..Len(out') : out'[j] = out[i]
      <4>1. i - 1 \in 1..Len(out') /\ (i - 1) + 1 = i
        BY <1>4, <2>3
      <4> QED
        BY <1>4, <4>1
    <3>2. Match(out[j], p)'
      BY <1>2, <2>1, <3>1, SetupKept DEF Match, First
    <3> QED
      BY <2>1, <3>1, <3>2 DEF Waiting
  <2> QED
    BY <2>2, <2>3
<1>14. Rebuilt'
  BY <1>2, <1>3, <1>11, <1>13 DEF Rebuilt, GroupOf
<1> QED
  BY <1>5, <1>14

-----------------------------------------------------------------------------
(* The invariant of the receiver. *)

ReceiverInv == HeardInv /\ OutInv /\ HeardSent /\ LossFree /\ PlainInv /\ FecInv

(* Nothing received, nothing heard. *)
LEMMA ReceiverInit == Init => ReceiverInv
<1> SUFFICES ASSUME Init PROVE ReceiverInv
  OBVIOUS
<1>1. /\ sequence = 0 /\ timestamp = 0 /\ offset = 0 /\ wire = << >> /\ Rx!FecInit
      /\ book = Seq32!Fresh /\ lastFrame = {} /\ heard = << >> /\ sent = {} /\ dropped = {}
  BY DEF Init
<1>2. /\ started = FALSE /\ head = 0 /\ slot = Rx!EmptyWindow /\ expected = 0
      /\ pkt = NoPacket /\ out = << >>
  BY <1>1 DEF Rx!FecInit
<1>3. /\ Len(heard) = 0 /\ Len(out) = 0 /\ Len(wire) = 0 /\ Data = {} /\ Kept = {}
      /\ book \in BookType /\ book.have = FALSE
  BY <1>1, <1>2 DEF Data, Kept, BookType, Seq32!Fresh
<1>4. HeardInv
  BY <1>1, <1>3 DEF HeardInv, FromLast
<1>5. OutInv /\ HeardSent
  BY <1>1, <1>2, <1>3 DEF OutInv, HeardSent
<1>6. LossFree
  <2>1. RealBefore(Len(heard) + 1) = 0
    <3>1. {j \in 1..0 : heard[j].real} = {}
      OBVIOUS
    <3> QED
      BY <1>3, <3>1, FS_EmptySet DEF RealBefore
  <2>2. Arrived = 0
    <3>1. Arrived = 0 - 0
      BY <1>1, <1>3 DEF Arrived
    <3> QED
      BY <3>1
  <2>3. Unheard = 0
    BY <1>2, <2>2 DEF Unheard, FirstFree
  <2> QED
    BY <1>1, <1>3, <2>1, <2>3 DEF LossFree
<1>7. PlainInv
  <2>1. Aligned(0)
    BY <1>3 DEF Aligned
  <2> QED
    BY <1>2, <1>3, <2>1 DEF PlainInv
<1>8. FecInv
  BY <1>2, <1>3 DEF FecInv, NotStarted, Rebuilt
<1> QED
  BY <1>4, <1>5, <1>6, <1>7, <1>8 DEF ReceiverInv

(* Steps of the sender and the network. *)
LEMMA IdleKeepsReceiver ==
    ASSUME SenderInv, NetInv, ReceiverInv, SenderInv', Grows, UNCHANGED <<fecVars, emitVars>>,
           \A p \in sent' : Arrived <= p.seq /\ p.seq < Arrived' => p \in dropped',
           \A p \in dropped' : p \in dropped \/ p.seq >= Arrived,
           LossFree', failures' = 0 => failures = 0
    PROVE  ReceiverInv'
<1>1. out' = out /\ pkt' = pkt /\ UNCHANGED emitVars
  BY DEF fecVars
<1>2. \A p \in sent' : p.seq \in Nat
  BY DEF SenderInv, SentType, PacketType
<1>3. Kept' = Kept
  BY <1>1, <1>2, KeptSame
<1>4. HeardInv' /\ OutInv' /\ HeardSent'
  BY <1>1, IdleKeepsOut DEF ReceiverInv
<1>5. PlainInv'
  BY IdleKeepsPlain DEF ReceiverInv
<1>6. FecInv'
  BY <1>2, <1>3, IdleKeepsFec DEF ReceiverInv
<1> QED
  BY <1>4, <1>5, <1>6 DEF ReceiverInv

(* Every step of sender, network and receiver. *)
LEMMA NextKeepsReceiver ==
    ASSUME Roomy, LostIsNoPayload, SenderInv, NetInv, ReceiverInv, [Next]_vars
    PROVE  ReceiverInv'
<1>1. SenderInv' /\ NetInv' /\ Grows
  BY NextKeepsNet
<1>2. Arrived \in Nat /\ sequence \in Nat
  BY NetTypes
<1>3. CASE CallbackBlock
  <2>1. /\ UNCHANGED <<fecVars, emitVars>> /\ setup' = setup /\ sent' = sent /\ sequence' = sequence
        /\ timestamp' = timestamp + block /\ offset' = 0 /\ offset = block
        /\ out' = out /\ head' = head /\ failures' = failures
    BY <1>3 DEF CallbackBlock, fecVars
  <2>2. Arrived' = Arrived /\ dropped' = dropped /\ Data' = Data
    BY <1>3, <2>1, SendKeepsNet DEF Data
  <2>3. timestamp' + offset' = timestamp + offset
    BY <2>1, Widths DEF SenderInv, Counters
  <2>4. FirstFree' = FirstFree
    BY <2>1, <2>2 DEF FirstFree
  <2>5. LossFree'
    BY <2>1, <2>2, <2>3, <2>4, StillKeepsLossFree DEF ReceiverInv
  <2>6. \A p \in sent' : ~ (Arrived <= p.seq /\ p.seq < Arrived')
    BY <1>2, <2>1, <2>2, SentIs
  <2> QED
    BY <1>1, <2>1, <2>2, <2>5, <2>6, IdleKeepsReceiver
<1>4. CASE SendPiece
  <2>1. UNCHANGED <<fecVars, emitVars>> /\ failures' = failures
    BY <1>4 DEF SendPiece
  <2>2. Arrived' = Arrived /\ dropped' = dropped
    BY <1>4, SendKeepsNet
  <2>3. LossFree'
    BY <1>4, PieceKeepsLossFree DEF ReceiverInv
  <2>4. \A p \in sent' : ~ (Arrived <= p.seq /\ p.seq < Arrived')
    <3>1. \A p \in sent' : p.seq \in Nat
      BY <1>1 DEF SenderInv, SentType, PacketType
    <3> QED
      BY <1>2, <2>2, <3>1
  <2> QED
    BY <1>1, <2>1, <2>2, <2>3, <2>4, IdleKeepsReceiver
<1>5. CASE Lose
  <2>1. /\ UNCHANGED <<fecVars, emitVars>> /\ wire # << >> /\ wire' = Tail(wire)
        /\ UNCHANGED <<setup, senderVars>> /\ dropped' = dropped \cup {Head(wire)}
        /\ packetBuf' = packetBuf /\ sent' = sent /\ failures' = failures
    BY <1>5 DEF Lose, senderVars
  <2>2. Head(wire) \in sent /\ Head(wire).seq = Arrived
    BY <2>1, WireHead
  <2>3. Arrived' = Arrived + 1
    BY <2>1, TakeKeepsNet
  <2>4. LossFree'
    BY <2>1 DEF LossFree
  <2>5. ASSUME NEW p \in sent', Arrived <= p.seq, p.seq < Arrived'
        PROVE  p \in dropped'
    <3>1. p \in sent /\ p.seq \in Nat
      BY <2>1, <2>5, SentIs
    <3>2. p.seq = Head(wire).seq
      BY <1>2, <2>2, <2>3, <2>5, <3>1
    <3>3. p = Head(wire)
      BY <2>2, <3>1, <3>2, SentIs
    <3> QED
      BY <2>1, <3>3
  <2>6. \A p \in dropped' : p \in dropped \/ p.seq >= Arrived
    BY <1>2, <2>1, <2>2
  <2> QED
    BY <1>1, <2>1, <2>4, <2>5, <2>6, IdleKeepsReceiver
<1>6. CASE ReceiveStray \/ UNCHANGED vars
  <2>1. /\ UNCHANGED <<fecVars, emitVars>> /\ UNCHANGED <<setup, senderVars, wire, dropped>>
        /\ packetBuf' = packetBuf \/ ReceiveStray
    BY <1>6 DEF ReceiveStray, vars, senderVars, fecVars, emitVars
  <2>2. /\ setup' = setup /\ sent' = sent /\ sequence' = sequence /\ dropped' = dropped
        /\ timestamp' = timestamp /\ offset' = offset /\ out' = out /\ head' = head /\ Data' = Data
        /\ failures' = failures
    BY <2>1 DEF senderVars, fecVars, Data
  <2>3. Arrived' = Arrived
    BY <2>1, StrayKeepsNet
  <2>4. FirstFree' = FirstFree
    BY <2>2, <2>3 DEF FirstFree
  <2>5. LossFree'
    BY <2>1, <2>2, <2>4, StillKeepsLossFree DEF ReceiverInv
  <2>6. \A p \in sent' : ~ (Arrived <= p.seq /\ p.seq < Arrived')
    BY <1>2, <2>2, <2>3, SentIs
  <2> QED
    BY <1>1, <2>1, <2>2, <2>5, <2>6, IdleKeepsReceiver
<1>7. CASE Receive
  <2>1. CASE setup.fec
    BY <1>7, <2>1, ReceiveKeepsFecOut DEF ReceiverInv
  <2>2. CASE ~ setup.fec
    <3>1. setup'.fec = setup.fec
      BY <1>7 DEF Receive
    <3>2. FecInv'
      BY <2>2, <3>1 DEF FecInv
    <3> QED
      BY <1>7, <2>2, <3>2, ReceiveKeepsPlain DEF ReceiverInv
  <2> QED
    BY <2>1, <2>2
<1>8. CASE FecStep
  BY <1>8, FecStepKeeps DEF ReceiverInv
<1>9. CASE Emit
  <2>1. HeardInv' /\ OutInv' /\ HeardSent'
    BY <1>9, EmitKeepsOut DEF ReceiverInv
  <2>2. LossFree'
    BY <1>9, EmitKeepsLossFree DEF ReceiverInv
  <2>3. PlainInv'
    BY <1>9, EmitKeepsPlain DEF ReceiverInv
  <2>4. FecInv'
    BY <1>9, EmitKeepsFec DEF ReceiverInv
  <2> QED
    BY <2>1, <2>2, <2>3, <2>4 DEF ReceiverInv
<1>10. CASE SendFails
  <2>1. UNCHANGED <<fecVars, emitVars>> /\ sent' = sent /\ sequence' = sequence
    BY <1>10 DEF SendFails
  <2>2. Arrived' = Arrived /\ dropped' = dropped
    BY <1>10, SendKeepsNet
  <2>3. LossFree' /\ failures' # 0
    BY <1>10, FailKeepsLossFree
  <2>4. \A p \in sent' : ~ (Arrived <= p.seq /\ p.seq < Arrived')
    BY <1>2, <2>1, <2>2, SentIs
  <2> QED
    BY <1>1, <2>1, <2>2, <2>3, <2>4, IdleKeepsReceiver
<1> QED
  BY <1>3, <1>4, <1>5, <1>6, <1>7, <1>8, <1>9, <1>10 DEF Next

(* The whole invariant. *)
LEMMA WireAlways ==
    ASSUME Roomy, LostIsNoPayload
    PROVE  Spec => [](SenderInv /\ NetInv /\ ReceiverInv)
<1>1. Init => SenderInv /\ NetInv /\ ReceiverInv
  BY InitNet, ReceiverInit
<1>2. SenderInv /\ NetInv /\ ReceiverInv /\ [Next]_vars => (SenderInv /\ NetInv /\ ReceiverInv)'
  BY NextKeepsNet, NextKeepsReceiver
<1> QED
  BY <1>1, <1>2, PTL DEF Spec

-----------------------------------------------------------------------------
(* What is heard. *)

(* A set of one element at most has no two. *)
LEMMA NoTwo ==
    ASSUME NEW S, IsFiniteSet(S), Cardinality(S) <= 1, NEW x \in S, NEW y \in S
    PROVE  x = y
<1> SUFFICES ASSUME x # y PROVE FALSE
  OBVIOUS
<1>1. {x} \cup {y} \in SUBSET S /\ Cardinality({x} \cup {y}) = 2
  BY PairSize
<1>2. 2 <= Cardinality(S) /\ Cardinality(S) \in Nat
  BY <1>1, FS_Subset, FS_CardinalityType
<1> QED
  BY <1>2

(* Packets of one length, as the lemmas say it. *)
LEMMA UniformIs ==
    ASSUME SenderInv, Uniform
    PROVE  SameLength
<1> DEFINE S == {p.ns : p \in Data}
<1>1. IsFiniteSet(S)
  <2>1. MaxPerPacket \in Int /\ 1 \in Int
    BY Widths DEF SenderInv, Counters
  <2>2. IsFiniteSet(1..MaxPerPacket)
    BY <2>1, FS_Interval
  <2>3. S \in SUBSET (1..MaxPerPacket)
    BY DataIs
  <2> QED
    BY <2>2, <2>3, FS_Subset
<1>2. Cardinality(S) <= 1
  BY DEF Uniform
<1>3. \A p, q \in Data : p.ns \in S /\ q.ns \in S
  OBVIOUS
<1> HIDE DEF S
<1>4. \A p, q \in Data : p.ns = q.ns
  BY <1>1, <1>2, <1>3, NoTwo
<1> QED
  BY <1>4 DEF SameLength

(* Every frame written to the ring as received is a frame that was sent,   *)
(* with all its bytes and no others, whatever the packet buffer held       *)
(* before; so is every frame rebuilt from parity, when all packets have    *)
(* one length.                                                             *)
THEOREM WireHeardWasSent ==
    ASSUME Roomy, LostIsNoPayload
    PROVE  Spec => []HeardWasSent
<1>1. SenderInv /\ NetInv /\ ReceiverInv => HeardWasSent
  <2> SUFFICES ASSUME SenderInv, HeardInv, HeardSent, setup.fec /\ dropped # {} => Uniform,
                      NEW h \in ToSet(heard), h.real
               PROVE  \E f \in Frames : h.data = FrameBytes(f)
    BY DEF ReceiverInv, HeardWasSent
  <2>1. Exact
    BY UniformIs DEF Exact
  <2>2. PICK i \in 1..Len(heard) : h = heard[i]
    BY DEF ToSet, HeardInv
  <2> QED
    BY <2>1, <2>2 DEF HeardSent
<1> QED
  BY <1>1, WireAlways, PTL

(* Without FEC, with packets of one length and no hard error at the        *)
(* sender, frames are heard as many frames apart as they were captured,    *)
(* however many packets between them were lost.                            *)
THEOREM WireTimelineKept ==
    ASSUME Roomy, LostIsNoPayload
    PROVE  Spec => []TimelineKept
<1>1. SenderInv /\ NetInv /\ ReceiverInv => TimelineKept
  <2> SUFFICES ASSUME SenderInv, HeardInv, PlainInv, ~ setup.fec, Uniform, failures = 0,
                      NEW i \in DOMAIN heard, NEW j \in DOMAIN heard, heard[i].real, heard[j].real,
                      NEW f \in Frames, NEW g \in Frames,
                      heard[i].data = FrameBytes(f), heard[j].data = FrameBytes(g)
               PROVE  j - i = g - f
    BY DEF ReceiverInv, TimelineKept
  <2>1. SameLength /\ i \in 1..Len(heard) /\ j \in 1..Len(heard) /\ setup \in Setups
    BY UniformIs DEF HeardInv, SenderInv, Counters
  <2>2. PICK b \in Nat : Aligned(b)
    BY <2>1 DEF PlainInv
  <2>3. FrameBytes(f) = FrameBytes(b + i - 1) /\ FrameBytes(g) = FrameBytes(b + j - 1)
    BY <2>1, <2>2 DEF Aligned
  <2>4. f = b + i - 1 /\ g = b + j - 1
    BY <2>1, <2>3, FrameInjective
  <2> QED
    BY <2>1, <2>4
<1> QED
  BY <1>1, WireAlways, PTL

(* What is concealed continues from the last real frame before it. *)
THEOREM WireConcealedFromLast ==
    ASSUME Roomy, LostIsNoPayload
    PROVE  Spec => []ConcealedFromLast
<1>1. SenderInv /\ NetInv /\ ReceiverInv => ConcealedFromLast
  <2> DEFINE before(i) == {j \in 1..i - 1 : heard[j].real}
  <2> SUFFICES ASSUME HeardInv, NEW i \in DOMAIN heard, ~ heard[i].real
               PROVE  heard[i].data = IF before(i) = {} THEN {} ELSE heard[Max(before(i))].data
    BY Zenon DEF ReceiverInv, ConcealedFromLast
  <2> i \in 1..Len(heard)
    BY DEF HeardInv
  <2>1. FromLast(i, heard[i].data)
    BY DEF HeardInv
  <2>2. CASE heard[i].data = {} /\ \A j \in 1..i - 1 : ~ heard[j].real
    BY <2>2
  <2>3. CASE \E k \in 1..i - 1 : /\ heard[k].real /\ heard[i].data = heard[k].data
                                 /\ \A j \in k + 1..i - 1 : ~ heard[j].real
    <3>1. PICK k \in 1..i - 1 : /\ heard[k].real /\ heard[i].data = heard[k].data
                                /\ \A j \in k + 1..i - 1 : ~ heard[j].real
      BY <2>3
    <3>2. k \in before(i) /\ \A j \in before(i) : j \in Int /\ k >= j
      <4>1. ASSUME NEW j \in 1..i - 1, heard[j].real
            PROVE  k >= j
        <5>1. j \notin k + 1..i - 1
          BY <3>1, <4>1
        <5> QED
          BY <5>1
      <4> QED
        BY <3>1, <4>1
    <3> HIDE DEF before
    <3>3. \A j \in before(i) : (\A y \in before(i) : j >= y) => j = k
      BY <3>2
    <3>4. Max(before(i)) = k
      BY <3>2, <3>3 DEF Max
    <3> QED
      BY <3>1, <3>2, <3>4
  <2> QED
    BY <2>1, <2>2, <2>3 DEF FromLast
<1> QED
  BY <1>1, WireAlways, PTL

(* When nothing waits and no group is open, the window is past everything  *)
(* that was sent.                                                          *)
LEMMA WindowDone ==
    ASSUME SenderInv, NetInv, FecInv, setup.fec, dropped = {}, Quiet, inGroup = 0
    PROVE  head = sequence
<1>1. /\ wire = << >> /\ out = << >> /\ pkt = NoPacket /\ (NotStarted \/ Running)
      /\ sequence \in Nat /\ sequence % (GroupSize + 1) = 0
      /\ \A s \in Nat : s < sequence => \E p \in sent : p.seq = s
  BY DEF Quiet, FecInv, SenderInv, Counters, SentOnce
<1>2. Arrived = sequence
  <2>1. Len(wire) = 0
    BY <1>1
  <2> QED
    BY <1>1, <2>1 DEF Arrived
<1>3. Kept = sent
  <2>1. \A p \in sent : p.seq < sequence
    BY SentIs
  <2> QED
    BY <1>1, <1>2, <2>1 DEF Kept
<1>4. CASE NotStarted
  <2>1. head = 0 /\ sent = {}
    BY <1>3, <1>4 DEF NotStarted
  <2>2. ~ (0 < sequence)
    BY <1>1, <2>1
  <2> QED
    BY <1>1, <2>1, <2>2
<1>5. CASE Running
  <2> SUFFICES ASSUME head # sequence PROVE FALSE
    OBVIOUS
  <2> DEFINE w == GroupSize + 1
             h == head
             n == sequence
  <2>1. /\ w \in Nat \ {0} /\ h \in Nat /\ n \in Nat /\ h % w = 0 /\ n % w = 0 /\ h < n
        /\ GroupSize \in 0..GroupSize /\ GroupSize = w - 1
    BY <1>1, <1>2, <1>5, Sizes DEF Running
  <2>2. h + w <= n
    <3> HIDE DEF w, h, n
    <3>1. h \div w < n \div w
      BY <2>1, MultiplesApart
    <3>2. /\ h \div w \in Nat /\ n \div w \in Nat
          /\ h = w * (h \div w) + (h % w) /\ n = w * (n \div w) + (n % w)
      BY <2>1, RemainderBounds
    <3> DEFINE a == h \div w
               b == n \div w
    <3>3. a \in Nat /\ b \in Nat /\ a + 1 <= b /\ h = w * a /\ n = w * b
      BY <2>1, <3>1, <3>2
    <3> HIDE DEF a, b
    <3>4. (a + 1) * w <= b * w
      BY <2>1, <3>3, ScaleMono
    <3>5. (a + 1) * w = w * a + w /\ b * w = w * b
      BY <2>1, <3>3
    <3> QED
      BY <3>3, <3>4, <3>5
  <2>3. head + GroupSize \in Nat /\ head + GroupSize < sequence
    BY <2>1, <2>2
  <2>4. PICK p \in sent : p.seq = head + GroupSize
    BY <1>1, <2>3
  <2>5. slot[GroupSize].kind # "empty"
    BY <1>3, <1>5, <2>1, <2>4 DEF Running, Holding
  <2> QED
    BY <1>5, <2>5, EmptyIs DEF Running
<1> QED
  BY <1>1, <1>4, <1>5

(* However a block is cut and however long the blocks are, with FEC or     *)
(* without, the frames of a stream without loss or hard error are heard    *)
(* once each and in order, and all of them when no FEC window is waiting.  *)
THEOREM WireEachFrameOnce ==
    ASSUME Roomy, LostIsNoPayload
    PROVE  Spec => []EachFrameOnce
<1>1. SenderInv /\ NetInv /\ ReceiverInv => EachFrameOnce
  <2> SUFFICES ASSUME SenderInv, NetInv, HeardInv, LossFree, FecInv, dropped = {}, failures = 0
               PROVE  /\ \A i \in DOMAIN heard :
                            IF heard[i].real THEN heard[i].data = FrameBytes(RealBefore(i)) ELSE setup.fec
                      /\ Quiet /\ inGroup = 0 => RealBefore(Len(heard) + 1) = timestamp + block
    BY DEF ReceiverInv, EachFrameOnce
  <2>1. DOMAIN heard = 1..Len(heard)
    BY DEF HeardInv
  <2>2. \A i \in 1..Len(heard) :
            IF heard[i].real THEN heard[i].data = FrameBytes(RealBefore(i)) ELSE setup.fec
    BY DEF LossFree
  <2>3. ASSUME Quiet, inGroup = 0
        PROVE  RealBefore(Len(heard) + 1) = timestamp + block
    <3>1. FirstFree = sequence
      <4>1. CASE setup.fec
        BY <2>3, <4>1, WindowDone DEF FirstFree
      <4>2. CASE ~ setup.fec
        <5>1. Len(wire) = 0 /\ sequence \in Nat
          BY <2>3, NetTypes DEF Quiet
        <5>2. Arrived = sequence
          BY <5>1 DEF Arrived
        <5> QED
          BY <4>2, <5>2 DEF FirstFree
      <4> QED
        BY <4>1, <4>2
    <3>2. Unheard = sequence /\ offset = block
      BY <2>3, <3>1 DEF Unheard, Quiet
    <3> QED
      BY <3>2 DEF LossFree
  <2> QED
    BY <2>1, <2>2, <2>3
<1> QED
  BY <1>1, WireAlways, PTL

(* A group that lost no more than one packet is heard with every frame and *)
(* every byte, when all packets have one length, be the receiver's buffer  *)
(* longer than the sender's or not.                                        *)
THEOREM WireGroupRebuilt ==
    ASSUME Roomy, LostIsNoPayload
    PROVE  Spec => []GroupRebuilt
<1>1. SenderInv /\ NetInv /\ ReceiverInv => GroupRebuilt
  <2> SUFFICES ASSUME SenderInv, NetInv, HeardInv, FecInv, setup.fec, Uniform, Quiet, NEW p \in Data,
                      GroupOf(p) * (GroupSize + 1) < head,
                      Cardinality({q \in dropped : GroupOf(q) = GroupOf(p)}) <= 1,
                      NEW c \in p.pl
               PROVE  \E h \in ToSet(heard) : h.real /\ h.data = FrameBytes(c[2])
    BY DEF ReceiverInv, GroupRebuilt
  <2>1. SameLength /\ Rebuilt /\ (NotStarted \/ Running) /\ out = << >>
    BY UniformIs DEF FecInv, Quiet
  <2>2. p.seq < head
    <3> DEFINE w == GroupSize + 1
               h == head
               s == p.seq
    <3>1. w \in Nat \ {0} /\ s \in Nat /\ h \in Nat /\ h % w = 0
      <4>1. h \in Nat /\ h % w = 0
        BY <2>1, SmallRemainder, Sizes DEF NotStarted, Running
      <4> QED
        BY <4>1, DataIs, Sizes
    <3>2. (s \div w) * w < h
      BY DEF GroupOf
    <3> HIDE DEF w, h, s
    <3> SUFFICES ASSUME h <= s PROVE FALSE
      BY <3>1 DEF h, s
    <3>3. h \div w <= s \div w /\ h \div w \in Nat /\ s \div w \in Nat /\ h = w * (h \div w) + (h % w)
      BY <3>1, MultiplesApart, RemainderBounds
    <3> DEFINE a == h \div w
               b == s \div w
    <3>4. a \in Nat /\ b \in Nat /\ a <= b /\ h = w * a /\ b * w < h
      BY <3>1, <3>2, <3>3
    <3> HIDE DEF a, b
    <3>5. a * w <= b * w /\ a * w = w * a /\ a * w \in Nat /\ b * w \in Nat
      BY <3>1, <3>4, ScaleMono
    <3> QED
      BY <3>4, <3>5
  <2>3. \A q, r \in dropped : GroupOf(q) = GroupOf(p) /\ GroupOf(r) = GroupOf(p) => q = r
    <3> DEFINE S == {q \in dropped : GroupOf(q) = GroupOf(p)}
    <3>1. IsFiniteSet(sent) /\ S \in SUBSET sent
      BY DEF SenderInv, SentType, NetInv
    <3>2. IsFiniteSet(S) /\ Cardinality(S) <= 1
      BY <3>1, FS_Subset
    <3>3. \A q, r \in dropped : GroupOf(q) = GroupOf(p) /\ GroupOf(r) = GroupOf(p) => q \in S /\ r \in S
      OBVIOUS
    <3> HIDE DEF S
    <3> QED
      BY <3>2, <3>3, NoTwo
  <2>4. IsHeard(p)
    <3>1. ~ Waiting(p)
      BY <2>1, EmptySeq DEF Waiting
    <3> QED
      BY <2>1, <2>2, <2>3, <3>1 DEF Rebuilt
  <2>5. c[2] \in FirstFrame(p)..FirstFrame(p) + p.ns - 1
    <3> DEFINE a == FirstFrame(p)
               x == c[2]
    <3>1. a \in Nat /\ x \in Int /\ p.ns \in Nat /\ a <= x /\ x < a + p.ns
      BY DataIs
    <3> HIDE DEF a, x
    <3>2. x \in a..a + p.ns - 1
      BY <3>1
    <3> QED
      BY <3>2 DEF a, x
  <2>6. PICK i \in 1..Len(heard) : heard[i].real /\ heard[i].data = FrameBytes(c[2])
    BY <2>4, <2>5 DEF IsHeard
  <2>7. heard[i] \in ToSet(heard)
    BY DEF ToSet, HeardInv
  <2> QED
    BY <2>6, <2>7
<1> QED
  BY <1>1, WireAlways, PTL
=============================================================================

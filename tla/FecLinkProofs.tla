---------------------------- MODULE FecLinkProofs ----------------------------
(***************************************************************************)
(* What is proved of a sender with FEC, the network and the receiver's     *)
(* window, for every group size and every scenario in which no number      *)
(* wraps.  The receiver takes a packet far behind its head for a           *)
(* restarted sender's; what it emits is right as long as it is right about *)
(* that (TellsRestarts).  On a network that keeps the order of packets it  *)
(* always is (FecTellsRestarts).                                           *)
(***************************************************************************)
EXTENDS FecLink, StreamProofs

(* The numbers of a run, and the four windows the restart test adds to     *)
(* them, are below the wrap.                                               *)
Roomy == \A s \in Scenarios : 2 * s.chunks + 4 * (GroupSize + 1) < SeqSpace

(* Emissions of one incarnation, at most, and a history long enough. *)
Budget == 2 * max.chunks + GroupSize + 1
KeepsHistory ==
    \A s \in Scenarios : (s.eras + 1) * (2 * s.chunks + GroupSize + 1) <= MaxEmitted

-----------------------------------------------------------------------------
(* The sender. *)

(* The sender's invariant holds behind any receiver. *)
LEMMA StreamAlways == ASSUME NoWrap PROVE Spec => []StreamInv
<1>1. Init => StreamInv
  BY StreamInitInv DEF Init
<1>2. StreamInv /\ [Next]_vars => StreamInv'
  <2> SUFFICES ASSUME StreamInv, [Next]_vars
               PROVE  StreamInv'
    OBVIOUS
  <2>1. CASE StreamStep
    BY <2>1, StreamStepKeepsInv
  <2>2. CASE Receive
    BY <2>2, ArriveKeepsInv DEF Receive
  <2>3. CASE UNCHANGED streamVars
    BY <2>3, StreamUnchanged
  <2> QED
    BY <2>1, <2>2, <2>3 DEF Next, vars
<1> QED
  BY <1>1, <1>2, PTL DEF Spec

(* GroupAligned of UdpSender: whatever the kernel refuses, fec_tx_on_data  *)
(* closes a group at the numbers whose remainder is GroupSize - 1.         *)
THEOREM SenderGroupAligned == ASSUME NoWrap PROVE Spec => []GroupAligned
<1>1. StreamInv => GroupAligned
  BY DEF StreamInv, SenderInv, Counters, GroupAligned
<1> QED
  BY <1>1, StreamAlways, PTL

(* ParityCoversGroup of UdpSender: the accumulator of fec.c holds the XOR  *)
(* of the data packets of its group when the parity packet is made.        *)
THEOREM SenderParityCovers == ASSUME NoWrap PROVE Spec => []ParityCoversGroup
<1>1. StreamInv => ParityCoversGroup
  BY DEF StreamInv, SenderInv
<1> QED
  BY <1>1, StreamAlways, PTL

-----------------------------------------------------------------------------
(* The invariant of the receiver.  e is the incarnation its window is of.  *)

SlotOf(p) == [kind |-> IF p.parity THEN "parity" ELSE "data", ns |-> p.ns, pl |-> p.pl]

(* What a window at number h holds was sent by incarnation e with the      *)
(* slot's number.                                                          *)
Sourced(e, h, w) ==
    /\ DOMAIN w = 0..GroupSize
    /\ \A i \in 0..GroupSize :
        w[i] = Rx!Empty \/ \E p \in sent : p.era = e /\ p.seq = h + i /\ w[i] = SlotOf(p)

(* It lacks nothing that arrived in time. *)
Complete(e, h, w) ==
    \A q \in inTime : q.era = e /\ q.seq \in h..h + GroupSize => w[q.seq - h] = SlotOf(q)

(* The head is the first number of a group, and every group before it is   *)
(* over.                                                                   *)
HeadInv(e) ==
    /\ head \in Nat /\ head % (GroupSize + 1) = 0 /\ head <= 2 * max.chunks
    /\ \E q \in inTime : q.era = e /\ (q.seq >= head \/ (q.parity /\ q.seq = head - 1))

(* What arrived in time and is not behind the head is in its slot, or is   *)
(* the packet being processed; a parity packet finishes its window.        *)
WindowInv(e) ==
    /\ Sourced(e, head, slot) /\ slot[GroupSize] = Rx!Empty
    /\ inTime \subseteq sent /\ \A q \in inTime : q.era <= e
    /\ \A q \in inTime : q.era = e /\ q.seq >= head /\ q # pkt =>
            q.seq < head + GroupSize /\ slot[q.seq - head] = SlotOf(q)
    /\ pkt # NoPacket => pkt \in inTime /\ pkt.era = e /\ pkt.seq >= head

EmissionType == [seq : 0..SeqSpace - 1, ns : {1}, pl : (SUBSET (Nat \X Nat)) \cup {Lost}]

(* What was emitted as audio is a data packet from before the head h. *)
EmittedFrom(e, h, o) ==
    \E d \in sent : /\ ~ d.parity /\ d.seq = o.seq /\ d.pl = o.pl
                    /\ d.era < e \/ (d.era = e /\ d.seq < h)

OutInv(e) ==
    /\ out \in Seq(EmissionType)
    /\ Len(out) <= e * Budget + head
    /\ \A i \in 1..Len(out) : out[i].pl # Lost => EmittedFrom(e, head, out[i])
    /\ EmittedInOrder

(* The group that starts at number s. *)
GroupAt(e, s) == {p \in sent : p.era = e /\ p.seq \in s..s + GroupSize}

(* All its packets were sent, and all but one are among those arrived. *)
Repairable(e, s, arrived) ==
    /\ \A n \in s..s + GroupSize : \E p \in GroupAt(e, s) : p.seq = n
    /\ \A p, q \in GroupAt(e, s) \ arrived : p = q
Passed(e, f, s) == f < e \/ (f = e /\ s < head)

RecoveredInv(e) ==
    \A f, s \in Nat :
        Passed(e, f, s) /\ s % (GroupSize + 1) = 0 /\ Repairable(f, s, inTime) =>
            \A d \in GroupAt(f, s) : d.parity \/ Emitted(d)

Running(e) ==
    /\ started = TRUE /\ expected = 1 /\ e \in Nat /\ e <= era
    /\ HeadInv(e) /\ WindowInv(e) /\ OutInv(e)
    /\ KeepsHistory => RecoveredInv(e)

NotStarted ==
    /\ started = FALSE /\ head = 0 /\ slot = Rx!EmptyWindow /\ expected = 0
    /\ pkt = NoPacket /\ out = << >> /\ inTime = {}

FecInv == NotStarted \/ \E e \in 0..era : Running(e)

-----------------------------------------------------------------------------
(* Numbers and groups. *)

(* What the assumptions say of the sizes. *)
LEMMA Sizes ==
    /\ GroupSize \in Nat /\ GroupSize > 0 /\ GroupSize + 1 \in Nat \ {0}
    /\ SeqSpace \in Nat \ {0} /\ MaxEmitted \in Nat
    /\ \A p \in PacketType : p # NoPacket
BY GroupAssumption, SeqAssumption, FecAssumption, NoPacketAssumption DEF PacketType

(* What a packet is, and which numbers are parity packets'. *)
LEMMA SentIs ==
    ASSUME SenderInv, NEW p \in sent
    PROVE  /\ p.seq \in Nat /\ p.era \in Nat /\ p.ns = 1 /\ p.pl \in SUBSET (Nat \X Nat)
           /\ p.seq < 2 * max.chunks /\ p.era <= era /\ p # NoPacket
           /\ p.parity <=> p.seq % (GroupSize + 1) = GroupSize
BY Sizes DEF SenderInv, SentNumbers, PacketType

(* What Roomy says of a scenario: four windows past the end do not wrap. *)
LEMMA RoomLeft ==
    ASSUME Roomy, SenderInv
    PROVE  /\ NoWrap
           /\ max.chunks \in Nat /\ 2 * max.chunks + 4 * (GroupSize + 1) < SeqSpace
           /\ era \in Nat
<1>1. \A s \in Scenarios : s.chunks \in Nat /\ s.eras \in Nat
  BY ScenarioType
<1>2. NoWrap
  BY <1>1, Sizes DEF Roomy, NoWrap
<1> QED
  BY <1>1, <1>2 DEF Roomy, SenderInv, Counters

(* The slots of a window at the head of a group. *)
LEMMA SlotOffset ==
    ASSUME NEW h \in Nat, h % (GroupSize + 1) = 0, NEW i \in 0..GroupSize
    PROVE  (h + i) % (GroupSize + 1) = i /\ (h + i) \div (GroupSize + 1) = h \div (GroupSize + 1)
<1> DEFINE w == GroupSize + 1
<1>1. w \in Nat \ {0} /\ i \in 0..w - 1 /\ h % w = 0
  BY Sizes
<1> HIDE DEF w
<1>2. (h + i) % w = i /\ (h + i) \div w = h \div w
  BY <1>1, OffsetRemainder
<1> QED
  BY <1>2 DEF w

(* Groups compare as their numbers do. *)
LEMMA GroupsApart ==
    ASSUME NEW h \in Nat, h % (GroupSize + 1) = 0, NEW n \in Nat
    PROVE  /\ n < h => n \div (GroupSize + 1) < h \div (GroupSize + 1)
           /\ h <= n => h \div (GroupSize + 1) <= n \div (GroupSize + 1)
           /\ h + GroupSize + 1 <= n => h \div (GroupSize + 1) < n \div (GroupSize + 1)
           /\ n - (n % (GroupSize + 1)) \in Nat /\ n - (n % (GroupSize + 1)) <= n
           /\ n <= n - (n % (GroupSize + 1)) + GroupSize
           /\ (n - (n % (GroupSize + 1))) % (GroupSize + 1) = 0
<1> DEFINE w == GroupSize + 1
<1>1. w \in Nat \ {0} /\ GroupSize \in Nat /\ h % w = 0 /\ w - 1 = GroupSize
      /\ h + GroupSize + 1 = h + w
  BY Sizes
<1> HIDE DEF w
<1>2. /\ n < h => n \div w < h \div w
      /\ h <= n => h \div w <= n \div w
      /\ h + w <= n => h \div w < n \div w
      /\ n - (n % w) \in Nat /\ n - (n % w) <= n
      /\ n <= n - (n % w) + (w - 1)
      /\ (n - (n % w)) % w = 0
  BY <1>1, MultiplesApart
<1> QED
  BY <1>1, <1>2 DEF w

-----------------------------------------------------------------------------
(* What a window emits. *)

(* Cardinality as FecRx and as FecLink know it. *)
LEMMA SameCardinality == \A S : Rx!Cardinality(S) = Cardinality(S)
BY DEF Rx!Cardinality, Cardinality

(* The k emissions of window w are of the slots at, in their order, and no *)
(* slot but a parity packet's is passed over.                              *)
InTurn(h, w, k, at) ==
    /\ Rx!Emissions(h, w) = [n \in 1..k |-> Rx!Emission(h, w, at[n])]
    /\ \A m, n \in 1..k : m < n => at[m] < at[n]
    /\ \A i \in 0..GroupSize : w[i].kind # "parity" => \E n \in 1..k : at[n] = i

(* emit_head_slot is called for every slot in turn. *)
LEMMA EmissionsInTurn ==
    ASSUME NEW h, NEW w, DOMAIN w = 0..GroupSize
    PROVE  \E k \in 0..GroupSize + 1 : \E at \in [1..k -> 0..GroupSize] : InTurn(h, w, k, at)
<1> DEFINE slots == {i \in DOMAIN w : w[i].kind # "parity"}
           Place(i) == Rx!Cardinality({j \in slots : j <= i})
           k == Rx!Cardinality(slots)
           at == [n \in 1..k |-> CHOOSE i \in slots : Place(i) = n]
<1>1. slots \in SUBSET (0..GroupSize)
  OBVIOUS
<1>2. k = Cardinality(slots) /\ \A i : Place(i) = Cardinality({j \in slots : j <= i})
  BY SameCardinality
<1>3. Rx!Emissions(h, w) = [n \in 1..k |-> Rx!Emission(h, w, at[n])]
  <2>1. Rx!Emissions(h, w) =
            [n \in 1..k |-> Rx!Emission(h, w, CHOOSE i \in slots : Place(i) = n)]
    BY DEF Rx!Emissions
  <2> HIDE DEF k, slots, Place
  <2> QED
    BY <2>1
<1>4. at = OrderOf(slots)
  BY DEF OrderOf, PlaceIn, Rx!Cardinality, Cardinality
<1> HIDE DEF slots, k, at
<1>5. /\ k \in 0..GroupSize + 1 /\ at \in [1..k -> 0..GroupSize]
      /\ \A m, n \in 1..k : m < n => at[m] < at[n]
      /\ \A i \in slots : \E n \in 1..k : at[n] = i
  <2>1. GroupSize \in Nat /\ k = Cardinality(slots)
    BY <1>2, Sizes
  <2>2. k \in 0..GroupSize + 1 /\ at \in [1..k -> 0..GroupSize]
    BY <1>1, <1>4, <2>1, Ordered
  <2>3. \A m, n \in 1..k : m < n => at[m] < at[n]
    BY <1>1, <1>4, <2>1, Ordered
  <2>4. \A i \in slots : \E n \in 1..k : at[n] = i
    BY <1>1, <1>4, <2>1, Ordered
  <2> QED
    BY <2>2, <2>3, <2>4
<1>6. \A i \in 0..GroupSize : w[i].kind # "parity" => i \in slots
  BY DEF slots
<1>7. InTurn(h, w, k, at)
  BY <1>3, <1>5, <1>6 DEF InTurn
<1> QED
  BY <1>5, <1>7

-----------------------------------------------------------------------------
(* Recovery. *)

(* A filled slot holds the packet with its number. *)
LEMMA SlotIs ==
    ASSUME SenderInv, NEW e, NEW h \in Nat, h % (GroupSize + 1) = 0, NEW w, Sourced(e, h, w),
           NEW i \in 0..GroupSize, w[i].kind # "empty"
    PROVE  \E p \in sent : /\ p.era = e /\ p.seq = h + i /\ w[i] = SlotOf(p)
                           /\ p.parity <=> i = GroupSize
<1>1. w[i] # Rx!Empty
  BY DEF Rx!Empty
<1>2. PICK p \in sent : p.era = e /\ p.seq = h + i /\ w[i] = SlotOf(p)
  BY <1>1 DEF Sourced
<1>3. (h + i) % (GroupSize + 1) = i
  BY SlotOffset
<1>4. p.parity <=> i = GroupSize
  BY <1>2, <1>3, SentIs
<1> QED
  BY <1>2, <1>4

(* The last slot of a window is the parity packet's, the others are data. *)
LEMMA KindIs ==
    ASSUME SenderInv, NEW e, NEW h \in Nat, h % (GroupSize + 1) = 0, NEW w, Sourced(e, h, w),
           NEW i \in 0..GroupSize, w[i].kind # "empty"
    PROVE  /\ i = GroupSize => w[i].kind = "parity"
           /\ i # GroupSize => w[i].kind = "data"
<1>1. \E p \in sent : /\ p.era = e /\ p.seq = h + i /\ w[i] = SlotOf(p)
                      /\ p.parity <=> i = GroupSize
  BY SlotIs
<1>2. PICK p \in sent : w[i] = SlotOf(p) /\ (p.parity <=> i = GroupSize)
  BY <1>1
<1>3. w[i].kind = IF p.parity THEN "parity" ELSE "data"
  BY <1>2 DEF SlotOf
<1> QED
  BY <1>2, <1>3

(* A group whose parity packet was sent has all its data packets. *)
LEMMA GroupSent ==
    ASSUME SenderInv, NEW h \in Nat, h % (GroupSize + 1) = 0,
           NEW p \in sent, h + GroupSize <= p.seq, NEW j \in 0..GroupSize - 1
    PROVE  \E d \in sent : d.era = p.era /\ d.seq = h + j /\ ~ d.parity
<1>1. p.seq \in Nat /\ j \in Nat /\ h + j \in Nat /\ h + j < p.seq
  BY Sizes, SentIs
<1>2. PICK d \in sent : d.era = p.era /\ d.seq = h + j
  BY <1>1 DEF SenderInv, SentOnce
<1>3. (h + j) % (GroupSize + 1) = j /\ j # GroupSize
  <2>1. j \in 0..GroupSize /\ j # GroupSize
    BY Sizes
  <2> QED
    BY <2>1, SlotOffset
<1> QED
  BY <1>2, <1>3, SentIs

(* try_recover_group: parity and all data packets but one, XORed, are the  *)
(* missing one.                                                            *)
LEMMA RebuiltPayload ==
    ASSUME SenderInv, NEW e, NEW h \in Nat, h % (GroupSize + 1) = 0, NEW w, Sourced(e, h, w),
           w[GroupSize].kind # "empty", NEW m, Rx!Missing(w) = {m}
    PROVE  \E d \in sent : /\ d.era = e /\ d.seq = h + m /\ ~ d.parity
                           /\ d.pl = Rx!XorOf(w, DOMAIN w \ {m})
<1> DEFINE D(j) == CHOOSE d \in sent : d.era = e /\ d.seq = h + j /\ ~ d.parity
           C(j) == <<e, TimeOf(D(j))>>
           data == 0..GroupSize - 1
           S == DOMAIN w \ {m}
           having(c) == {i \in S : c \in w[i].pl}
<1>1. GroupSize \in 0..GroupSize /\ data = 0..GroupSize \ {GroupSize} /\ DOMAIN w = 0..GroupSize
  BY Sizes DEF Sourced
<1>2. PICK p \in sent : p.era = e /\ p.seq = h + GroupSize /\ w[GroupSize] = SlotOf(p) /\ p.parity
  BY <1>1, SlotIs
<1>3. ASSUME NEW j \in data
      PROVE  /\ D(j) \in sent /\ D(j).era = e /\ D(j).seq = h + j /\ ~ D(j).parity
             /\ D(j).pl = {C(j)} /\ TimeOf(D(j)) \in Nat
  <2>1. \E d \in sent : d.era = e /\ d.seq = h + j /\ ~ d.parity
    <3>1. h + GroupSize <= p.seq
      BY <1>2, Sizes
    <3> QED
      BY <1>2, <3>1, GroupSent
  <2>2. D(j) \in sent /\ D(j).era = e /\ D(j).seq = h + j /\ ~ D(j).parity
    BY <2>1
  <2> HIDE DEF D
  <2> QED
    BY <2>2 DEF SenderInv, SentChunks
<1>4. ASSUME NEW j \in data, NEW k \in data, C(j) = C(k)
      PROVE  j = k
  <2>1. TimeOf(D(j)) = TimeOf(D(k))
    BY <1>4
  <2>2. /\ D(j) \in sent /\ D(j).era = e /\ D(j).seq = h + j /\ ~ D(j).parity
        /\ D(k) \in sent /\ D(k).era = e /\ D(k).seq = h + k /\ ~ D(k).parity
        /\ TimeOf(D(j)) \in Nat
    BY <1>3
  <2> HIDE DEF D
  <2>3. ~ (h + j < h + k) /\ ~ (h + k < h + j)
    BY <2>1, <2>2 DEF SenderInv, SentChunks
  <2> QED
    BY <2>3, Sizes
<1>5. ASSUME NEW i \in data, i # m
      PROVE  w[i].pl = {C(i)}
  <2>1. w[i].kind # "empty"
    BY <1>5 DEF Rx!Missing, Rx!DataOffsets
  <2>2. PICK q \in sent : q.era = e /\ q.seq = h + i /\ w[i] = SlotOf(q)
    <3>1. i \in 0..GroupSize
      BY <1>1
    <3>2. w[i] = Rx!Empty \/ \E q \in sent : q.era = e /\ q.seq = h + i /\ w[i] = SlotOf(q)
      BY <3>1 DEF Sourced
    <3>3. Rx!Empty.kind = "empty"
      BY DEF Rx!Empty
    <3> QED
      BY <2>1, <3>2, <3>3
  <2>3. D(i) \in sent /\ D(i).era = e /\ D(i).seq = h + i /\ D(i).pl = {C(i)}
    BY <1>3
  <2>4. q = D(i)
    <3> HIDE DEF D
    <3> QED
      BY <2>2, <2>3 DEF SenderInv, SentOnce
  <2> QED
    BY <2>2, <2>3, <2>4 DEF SlotOf
<1>6. w[GroupSize].pl = {C(j) : j \in data}
  <2>1. h = p.seq - GroupSize /\ h..p.seq - 1 = h..h + GroupSize - 1
    BY <1>2, Sizes
  <2> DEFINE group == {q \in sent : q.era = p.era /\ ~ q.parity /\ q.seq \in p.seq - GroupSize..p.seq - 1}
  <2>2. p.pl = UNION {d.pl : d \in group}
    BY <1>2 DEF SenderInv, ParityCoversGroup
  <2>3. \A j \in data : D(j) \in group
    <3> SUFFICES ASSUME NEW j \in data PROVE D(j) \in group
      OBVIOUS
    <3>1. D(j) \in sent /\ D(j).era = e /\ ~ D(j).parity /\ D(j).seq = h + j
      BY <1>3
    <3>2. h + j \in p.seq - GroupSize..p.seq - 1
      BY <2>1, <1>2, Sizes
    <3> HIDE DEF D
    <3> QED
      BY <1>2, <3>1, <3>2
  <2>4. ASSUME NEW q \in group
        PROVE  \E j \in data : q = D(j)
    <3>1. q.seq - h \in data /\ q.seq = h + (q.seq - h)
      <4>1. q.seq \in Nat /\ q.seq \in p.seq - GroupSize..p.seq - 1
        BY SentIs
      <4> QED
        BY <1>2, <4>1, Sizes
    <3>2. /\ D(q.seq - h) \in sent /\ D(q.seq - h).era = e
          /\ D(q.seq - h).seq = h + (q.seq - h)
      BY <1>3, <3>1
    <3>3. q = D(q.seq - h)
      <4> HIDE DEF D
      <4> QED
        BY <1>2, <3>1, <3>2 DEF SenderInv, SentOnce
    <3> QED
      BY <3>1, <3>3
  <2>5. group = {D(j) : j \in data}
    <3> HIDE DEF D, group, data
    <3> QED
      BY <2>3, <2>4
  <2>6. UNION {d.pl : d \in group} = {C(j) : j \in data}
    <3>1. \A j \in data : D(j).pl = {C(j)}
      BY <1>3
    <3> HIDE DEF D, C, data, group
    <3> QED
      BY <2>5, <3>1
  <2>7. w[GroupSize].pl = p.pl
    BY <1>2 DEF SlotOf
  <2> QED
    BY <2>2, <2>6, <2>7
<1>7. m \in data /\ m # GroupSize
  BY Sizes DEF Rx!Missing, Rx!DataOffsets
<1> HIDE DEF C, D, data
<1>8. /\ GroupSize \in S
      /\ S = (data \ {m}) \cup {GroupSize}
  BY <1>1, <1>7
<1>9. ASSUME NEW k \in data, k # m
      PROVE  Rx!Cardinality(having(C(k))) % 2 # 1
  <2>1. having(C(k)) = {k, GroupSize}
    BY <1>4, <1>5, <1>6, <1>8, <1>9
  <2>2. k # GroupSize
    BY <1>1
  <2>3. Cardinality({k} \cup {GroupSize}) = 2
    BY <2>2, PairSize
  <2>4. Rx!Cardinality(having(C(k))) = 2
    BY <2>1, <2>3, SameCardinality
  <2> HIDE DEF having
  <2> QED
    BY <2>4
<1>10. Rx!Cardinality(having(C(m))) % 2 = 1
  <2>1. having(C(m)) = {GroupSize}
    BY <1>4, <1>5, <1>6, <1>7, <1>8
  <2>2. Cardinality({GroupSize}) = 1
    BY FS_Singleton
  <2>3. Rx!Cardinality(having(C(m))) = 1
    BY <2>1, <2>2, SameCardinality
  <2> HIDE DEF having
  <2> QED
    BY <2>3
<1>11. \A c \in UNION {w[i].pl : i \in S} : \E k \in data : c = C(k)
  BY <1>5, <1>6, <1>8
<1>12. C(m) \in UNION {w[i].pl : i \in S}
  BY <1>6, <1>7, <1>8
<1>13. Rx!XorOf(w, S) = {c \in UNION {w[i].pl : i \in S} : Rx!Cardinality(having(c)) % 2 = 1}
  BY DEF Rx!XorOf
<1>14. Rx!XorOf(w, S) = {C(m)}
  <2> HIDE DEF having, S
  <2> QED
    BY <1>9, <1>10, <1>11, <1>12, <1>13
<1>15. D(m) \in sent /\ D(m).era = e /\ D(m).seq = h + m /\ ~ D(m).parity /\ D(m).pl = {C(m)}
  BY <1>3, <1>7
<1> QED
  BY <1>14, <1>15

(* A recovered window still holds what was sent, keeps what it held, and   *)
(* holds the missing packet if it was the only one.                        *)
LEMMA RecoverKeeps ==
    ASSUME SenderInv, expected = 1, NEW e, NEW h \in Nat, h % (GroupSize + 1) = 0,
           NEW w, Sourced(e, h, w)
    PROVE  /\ Sourced(e, h, Rx!Recover(w))
           /\ \A i \in 0..GroupSize : w[i].kind # "empty" => Rx!Recover(w)[i] = w[i]
           /\ \A m : Rx!Missing(w) = {m} /\ w[GroupSize].kind # "empty" =>
                Rx!Recover(w)[m].kind = "data"
<1> DEFINE r == Rx!Recover(w)
<1>1. DOMAIN w = 0..GroupSize /\ GroupSize \in 0..GroupSize
  BY Sizes DEF Sourced
<1>2. \A i \in 0..GroupSize : i \in Rx!Missing(w) => w[i].kind = "empty"
  BY DEF Rx!Missing
<1>3. CASE ~ Rx!Recoverable(w)
  <2>1. r = w
    BY <1>3 DEF Rx!Recover
  <2>2. \A m : Rx!Missing(w) = {m} => Rx!Cardinality(Rx!Missing(w)) = 1
    BY SameCardinality, FS_Singleton
  <2>3. ASSUME w[GroupSize].kind # "empty"
        PROVE  w[GroupSize].kind = "parity"
    <3> HIDE DEF r
    <3>1. GroupSize \in 0..GroupSize
      BY <1>1
    <3> QED
      BY <2>3, <3>1, KindIs
  <2> QED
    BY <1>3, <2>1, <2>2, <2>3 DEF Rx!Recoverable
<1>4. CASE Rx!Recoverable(w)
  <2>1. w[GroupSize].kind = "parity" /\ Cardinality(Rx!Missing(w)) = 1
    BY <1>4, SameCardinality DEF Rx!Recoverable
  <2>2. IsFiniteSet(Rx!Missing(w))
    <3>1. IsFiniteSet(0..GroupSize) /\ Rx!Missing(w) \in SUBSET (0..GroupSize)
      BY FS_Interval, Sizes DEF Rx!Missing, Rx!DataOffsets
    <3> QED
      BY <3>1, FS_Subset
  <2>3. PICK m : Rx!Missing(w) = {m}
    BY <2>1, <2>2, FS_Singleton
  <2>4. m \in 0..GroupSize /\ w[m].kind = "empty"
    BY <2>3, Sizes DEF Rx!Missing, Rx!DataOffsets
  <2>5. PICK d \in sent : /\ d.era = e /\ d.seq = h + m /\ ~ d.parity
                          /\ d.pl = Rx!XorOf(w, DOMAIN w \ {m})
    BY <2>1, <2>3, RebuiltPayload
  <2>6. r = [i \in DOMAIN w |->
                IF i \in {m}
                THEN [kind |-> "data", ns |-> 1, pl |-> Rx!XorOf(w, DOMAIN w \ {m})]
                ELSE w[i]]
    BY <1>4, <2>3 DEF Rx!Recover, Rx!Sources
  <2>7. r[m] = SlotOf(d)
    <3>1. SlotOf(d) = [kind |-> "data", ns |-> 1, pl |-> d.pl]
      BY <2>5, SentIs DEF SlotOf
    <3> QED
      BY <1>1, <2>4, <2>5, <2>6, <3>1
  <2>8. \A i \in 0..GroupSize : i # m => r[i] = w[i]
    BY <1>1, <2>6
  <2>9. DOMAIN r = 0..GroupSize
    BY <1>1, <2>6
  <2> HIDE DEF r
  <2>10. Sourced(e, h, r)
    BY <2>4, <2>5, <2>7, <2>8, <2>9 DEF Sourced
  <2>11. r[m].kind = "data"
    BY <2>5, <2>7 DEF SlotOf
  <2> QED
    BY <2>3, <2>4, <2>8, <2>10, <2>11 DEF r
<1> QED
  BY <1>3, <1>4

(* What a data packet carries says when it was sampled. *)
LEMMA DataIs ==
    ASSUME SenderInv, NEW d \in sent, ~ d.parity
    PROVE  /\ d.pl = {<<d.era, TimeOf(d)>>} /\ TimeOf(d) \in Nat
           /\ (CHOOSE c \in d.pl : TRUE) = <<d.era, TimeOf(d)>>
           /\ d.pl \in SUBSET (Nat \X Nat)
<1>1. d.pl = {<<d.era, TimeOf(d)>>} /\ TimeOf(d) \in Nat
  BY DEF SenderInv, SentChunks
<1>2. (CHOOSE c \in {<<d.era, TimeOf(d)>>} : TRUE) = <<d.era, TimeOf(d)>>
  OBVIOUS
<1> QED
  BY <1>1, <1>2, SentIs

(* Of two data packets the later one carries the later chunk. *)
LEMMA LaterData ==
    ASSUME SenderInv, NEW c \in sent, NEW d \in sent, ~ c.parity, ~ d.parity,
           c.era < d.era \/ (c.era = d.era /\ c.seq < d.seq)
    PROVE  Later(CHOOSE x \in d.pl : TRUE, CHOOSE x \in c.pl : TRUE)
<1>1. c.era \in Nat /\ d.era \in Nat
  BY SentIs
<1>2. c.era = d.era /\ c.seq < d.seq => TimeOf(c) < TimeOf(d)
  BY DEF SenderInv, SentChunks
<1>3. TimeOf(c) \in Nat /\ TimeOf(d) \in Nat
  BY DataIs
<1>4. Later(<<d.era, TimeOf(d)>>, <<c.era, TimeOf(c)>>)
  BY <1>1, <1>2, <1>3 DEF Later
<1> QED
  BY <1>4, DataIs

(* What a finished window emits: data of its incarnation, in order, and    *)
(* all of a group that can be repaired.                                    *)
LEMMA Flushed ==
    ASSUME SenderInv, Roomy, expected = 1, NEW e \in Nat,
           NEW h \in Nat, h % (GroupSize + 1) = 0, h <= 2 * max.chunks,
           NEW w, Sourced(e, h, w),
           NEW es, es = Rx!Emissions(h, Rx!Recover(w))
    PROVE  /\ es \in Seq(EmissionType) /\ Len(es) \in Nat /\ Len(es) <= GroupSize + 1
           /\ \A n \in 1..Len(es) : es[n].pl # Lost =>
                \E d \in sent : /\ ~ d.parity /\ d.seq = es[n].seq /\ d.pl = es[n].pl
                                /\ d.era = e /\ h <= d.seq /\ d.seq < h + GroupSize + 1
           /\ \A m, n \in 1..Len(es) : m < n => es[m].seq < es[n].seq
           /\ Complete(e, h, w) /\ Repairable(e, h, inTime) =>
                \A d \in GroupAt(e, h) : d.parity \/ \E n \in 1..Len(es) : es[n].pl = d.pl
<1> DEFINE r == Rx!Recover(w)
<1>1. /\ Sourced(e, h, r)
      /\ \A i \in 0..GroupSize : w[i].kind # "empty" => r[i] = w[i]
      /\ \A m : Rx!Missing(w) = {m} /\ w[GroupSize].kind # "empty" => r[m].kind = "data"
  BY RecoverKeeps
<1>2. es = Rx!Emissions(h, r)
  OBVIOUS
<1> HIDE DEF r
<1>3. DOMAIN r = 0..GroupSize
  BY <1>1 DEF Sourced
<1>4. PICK k \in 0..GroupSize + 1 : \E at \in [1..k -> 0..GroupSize] : InTurn(h, r, k, at)
  BY <1>3, EmissionsInTurn
<1>5. PICK at \in [1..k -> 0..GroupSize] :
              /\ Rx!Emissions(h, r) = [n \in 1..k |-> Rx!Emission(h, r, at[n])]
              /\ \A m, n \in 1..k : m < n => at[m] < at[n]
              /\ \A i \in 0..GroupSize :
                    r[i].kind # "parity" => \E n \in 1..k : at[n] = i
  BY <1>4 DEF InTurn
<1>6. ASSUME NEW i \in 0..GroupSize
      PROVE  Rx!PlusSeq(h, i) = h + i /\ h + i \in 0..SeqSpace - 1
  <2>1. h + i \in Nat /\ h + i < SeqSpace
    <3>1. max.chunks \in Nat /\ 2 * max.chunks + 4 * (GroupSize + 1) < SeqSpace
      BY RoomLeft
    <3> QED
      BY <3>1, Sizes
  <2>2. (h + i) % SeqSpace = h + i
    BY <2>1, NoWrapMod
  <2> QED
    BY <2>1, <2>2, Sizes DEF Rx!PlusSeq
<1> DEFINE KindOf(j) == IF j = GroupSize THEN "parity" ELSE "data"
<1>a. ASSUME NEW j \in 0..GroupSize, w[j].kind # "empty"
      PROVE  w[j].kind = KindOf(j)
  <2>1. /\ j = GroupSize => w[j].kind = "parity"
        /\ j # GroupSize => w[j].kind = "data"
    BY <1>a, KindIs
  <2> QED
    BY <2>1
<1>b. ASSUME NEW j \in 0..GroupSize, r[j].kind # "empty"
      PROVE  \E d \in sent : /\ d.era = e /\ d.seq = h + j /\ r[j] = SlotOf(d)
                             /\ d.parity <=> j = GroupSize
  BY <1>1, <1>b, SlotIs
<1>7. ASSUME NEW i \in 0..GroupSize
      PROVE  /\ Rx!Emission(h, r, i) \in EmissionType
             /\ Rx!Emission(h, r, i).seq = h + i
             /\ Rx!Emission(h, r, i).pl # Lost =>
                    \E d \in sent : /\ ~ d.parity /\ d.seq = h + i /\ d.era = e
                                    /\ d.pl = Rx!Emission(h, r, i).pl
             /\ \A d \in sent : d.era = e /\ d.seq = h + i /\ ~ d.parity /\ r[i].kind = "data" =>
                    Rx!Emission(h, r, i).pl = d.pl
  <2>1. CASE r[i].kind = "data"
    <3>1. PICK d \in sent : /\ d.era = e /\ d.seq = h + i /\ r[i] = SlotOf(d)
                            /\ d.parity <=> i = GroupSize
      BY <1>b, <2>1
    <3>2. ~ d.parity
      BY <2>1, <3>1 DEF SlotOf
    <3>3. Rx!Emission(h, r, i) = [seq |-> h + i, ns |-> 1, pl |-> d.pl]
      BY <1>6, <2>1, <3>1, SentIs DEF Rx!Emission, SlotOf
    <3>4. Rx!Emission(h, r, i) \in EmissionType
      <4>1. d.pl \in SUBSET (Nat \X Nat)
        BY SentIs
      <4> QED
        BY <1>6, <3>3, <4>1 DEF EmissionType
    <3>5. \A c \in sent : c.era = e /\ c.seq = h + i => c = d
      BY <3>1 DEF SenderInv, SentOnce
    <3> QED
      BY <3>1, <3>2, <3>3, <3>4, <3>5
  <2>2. CASE r[i].kind # "data"
    <3>1. Rx!Emission(h, r, i) = [seq |-> h + i, ns |-> 1, pl |-> Lost]
      BY <1>6, <2>2 DEF Rx!Emission
    <3>2. Rx!Emission(h, r, i) \in EmissionType
      BY <1>6, <3>1 DEF EmissionType
    <3> QED
      BY <2>2, <3>1, <3>2
  <2> QED
    BY <2>1, <2>2
<1>8. k \in Nat /\ k <= GroupSize + 1
  BY Sizes
<1>9. /\ es \in Seq(EmissionType) /\ Len(es) = k
      /\ \A n \in 1..k : es[n] = Rx!Emission(h, r, at[n]) /\ at[n] \in 0..GroupSize
  <2>1. \A n \in 1..k : es[n] = Rx!Emission(h, r, at[n]) /\ at[n] \in 0..GroupSize
    BY <1>2, <1>5
  <2>2. es \in [1..k -> EmissionType]
    BY <1>2, <1>5, <1>7, <2>1
  <2> QED
    BY <1>8, <2>1, <2>2, SeqDef, LenProperties
<1>10. ASSUME NEW n \in 1..k, es[n].pl # Lost
       PROVE  \E d \in sent : /\ ~ d.parity /\ d.seq = es[n].seq /\ d.pl = es[n].pl
                              /\ d.era = e /\ h <= d.seq /\ d.seq < h + GroupSize + 1
  <2>1. PICK i \in 0..GroupSize : es[n] = Rx!Emission(h, r, i)
    BY <1>9
  <2>2. h <= h + i /\ h + i < h + GroupSize + 1
    BY Sizes
  <2> QED
    BY <1>7, <1>10, <2>1, <2>2
<1>11. ASSUME NEW m \in 1..k, NEW n \in 1..k, m < n
       PROVE  es[m].seq < es[n].seq
  <2>1. at[m] < at[n] /\ at[m] \in 0..GroupSize /\ at[n] \in 0..GroupSize
    BY <1>5, <1>9, <1>11
  <2>2. es[m].seq = h + at[m] /\ es[n].seq = h + at[n]
    BY <1>7, <1>9, <2>1
  <2> QED
    BY <2>1, <2>2, Sizes
<1>12. ASSUME Complete(e, h, w), Repairable(e, h, inTime), NEW d \in GroupAt(e, h), ~ d.parity
       PROVE  \E n \in 1..k : es[n].pl = d.pl
  <2> DEFINE i == d.seq - h
  <2>1. d \in sent /\ d.era = e /\ d.seq \in h..h + GroupSize
    BY DEF GroupAt
  <2>2. d.seq \in Nat
    BY <2>1, SentIs
  <2>3. i \in 0..GroupSize /\ d.seq = h + i
    BY <2>1, <2>2, Sizes
  <2> HIDE DEF i
  <2>4. i # GroupSize
    BY <1>12, <2>1, <2>3, SlotOffset, SentIs
  <2>5. SUFFICES r[i].kind = "data"
    <3>1. PICK n \in 1..k : at[n] = i
      BY <1>5, <2>3, <2>5
    <3>2. Rx!Emission(h, r, i).pl = d.pl
      BY <1>7, <1>12, <2>1, <2>3, <2>5
    <3>3. es[n] = Rx!Emission(h, r, i)
      BY <1>9, <3>1
    <3> QED
      BY <3>2, <3>3
  <2>6. CASE w[i].kind # "empty"
    BY <1>1, <1>a, <2>3, <2>4, <2>6
  <2>7. CASE w[i].kind = "empty"
    <3>1. ASSUME NEW q \in inTime, q.era = e, q.seq \in h..h + GroupSize
          PROVE  w[q.seq - h].kind # "empty"
      <4>1. w[q.seq - h] = SlotOf(q)
        BY <1>12, <3>1 DEF Complete
      <4>2. SlotOf(q).kind # "empty"
        BY DEF SlotOf
      <4> QED
        BY <4>1, <4>2
    <3>2. d \notin inTime
      BY <2>1, <2>3, <2>7, <3>1 DEF i
    <3>3. ASSUME NEW j \in 0..GroupSize, j # i
          PROVE  w[j].kind # "empty"
      <4>1. h + j \in h..h + GroupSize
        BY Sizes
      <4>2. PICK q \in GroupAt(e, h) : q.seq = h + j
        BY <1>12, <4>1 DEF Repairable
      <4>3. q # d
        BY <2>3, <3>3, <4>2, Sizes
      <4>4. q \in inTime
        BY <1>12, <3>2, <4>3 DEF Repairable
      <4>5. q.seq - h = j
        BY <4>2, Sizes
      <4> QED
        BY <3>1, <4>2, <4>4, <4>5 DEF GroupAt
    <3>4. Rx!Missing(w) = {i}
      <4>1. \A j \in 0..GroupSize - 1 : w[j].kind = "empty" <=> j = i
        BY <2>7, <3>3, Sizes
      <4>2. i \in 0..GroupSize - 1
        BY <2>3, <2>4, Sizes
      <4> QED
        BY <4>1, <4>2 DEF Rx!Missing, Rx!DataOffsets
    <3>5. w[GroupSize].kind # "empty"
      BY <2>4, <3>3, Sizes
    <3> QED
      BY <1>1, <3>4, <3>5
  <2> QED
    BY <2>6, <2>7
<1> QED
  BY <1>8, <1>9, <1>10, <1>11, <1>12

-----------------------------------------------------------------------------
(* A window is finished. *)

(* An incarnation's room in the history ends where the next one's begins. *)
LEMMA BudgetGrows ==
    ASSUME NEW e \in Nat, NEW f \in Nat, e < f, NEW b \in Nat
    PROVE  e * b + b <= f * b
<1>1. (e + 1) * b <= f * b
  BY SMT
<1>2. (e + 1) * b = e * b + b
  BY SMT
<1> QED
  BY <1>1, <1>2

(* The room an incarnation has in the history. *)
LEMMA BudgetType ==
    ASSUME SenderInv, NEW e \in Nat
    PROVE  /\ Budget \in Nat /\ e * Budget \in Nat
           /\ Budget = 2 * max.chunks + GroupSize + 1
<1>1. max.chunks \in Nat
  BY ScenarioType DEF SenderInv, Counters
<1>2. Budget \in Nat
  BY <1>1, Sizes DEF Budget
<1>3. \A b \in Nat : e * b \in Nat
  OBVIOUS
<1> QED
  BY <1>2, <1>3 DEF Budget

(* What FlushWindow does to the history of emissions, at the next window   *)
(* of the incarnation or as a later one begins.                            *)
LEMMA OutGrows ==
    ASSUME SenderInv, Roomy, expected = 1, UNCHANGED <<sent, max>>,
           NEW e \in Nat, HeadInv(e), OutInv(e),
           NEW w, Sourced(e, head, w),
           NEW f \in Nat, head' \in Nat,
           e < f \/ (e = f /\ head' = head + GroupSize + 1),
           out' = Rx!Log(Rx!Emissions(head, Rx!Recover(w)))
    PROVE  OutInv(f)'
<1> DEFINE es == Rx!Emissions(head, Rx!Recover(w))
           B == Budget
<1>1. head \in Nat /\ head % (GroupSize + 1) = 0 /\ head <= 2 * max.chunks
  BY DEF HeadInv
<1>2. /\ es \in Seq(EmissionType) /\ Len(es) \in Nat /\ Len(es) <= GroupSize + 1
      /\ \A n \in 1..Len(es) : es[n].pl # Lost =>
            \E d \in sent : /\ ~ d.parity /\ d.seq = es[n].seq /\ d.pl = es[n].pl
                            /\ d.era = e /\ head <= d.seq /\ d.seq < head + GroupSize + 1
      /\ \A m, n \in 1..Len(es) : m < n => es[m].seq < es[n].seq
  <2>1. es = Rx!Emissions(head, Rx!Recover(w))
    OBVIOUS
  <2> HIDE DEF es
  <2> QED
    BY <1>1, <2>1, Flushed
<1> HIDE DEF es
<1>3. out' = IF Len(out) + Len(es) <= MaxEmitted THEN out \o es ELSE out
  BY DEF Rx!Log, es
<1>4. /\ out \in Seq(EmissionType) /\ Len(out) \in Nat
      /\ Len(out) <= e * B + head
      /\ \A i \in 1..Len(out) : out[i].pl # Lost => EmittedFrom(e, head, out[i])
      /\ EmittedInOrder
  BY LenProperties DEF OutInv
<1>5. max.chunks \in Nat /\ B \in Nat /\ e * B \in Nat /\ f * B \in Nat
      /\ B = 2 * max.chunks + GroupSize + 1
  BY BudgetType, RoomLeft
<1>6. e * B + head + GroupSize + 1 <= f * B + head'
  <2>1. CASE e < f
    <3>1. e * B + B <= f * B
      <4> HIDE DEF B
      <4> QED
        BY <1>5, <2>1, BudgetGrows
    <3> HIDE DEF B
    <3> QED
      BY <1>1, <1>5, <3>1, Sizes
  <2>2. CASE e = f /\ head' = head + GroupSize + 1
    <3> HIDE DEF B
    <3> QED
      BY <1>1, <1>5, <2>2, Sizes
  <2> QED
    BY <2>1, <2>2
<1>7. B' = B
  BY DEF Budget
<1> DEFINE was == e * B
           now == f * B
<1>12. was \in Nat /\ now \in Nat /\ was + head + GroupSize + 1 <= now + head' /\ Len(out) <= was + head
  BY <1>4, <1>5, <1>6
<1> HIDE DEF B, was, now
<1>13. GroupSize \in Nat /\ head \in Nat /\ head' \in Nat /\ Len(out) \in Nat /\ Len(es) \in Nat
       /\ Len(es) <= GroupSize + 1
  BY <1>1, <1>2, <1>4, Sizes
<1>14. Len(out) <= now + head' /\ Len(out) + Len(es) <= now + head'
  <2> DEFINE x == Len(out)
             y == head'
             z == Len(es)
  <2>1. /\ x \in Nat /\ y \in Nat /\ z \in Nat /\ z <= GroupSize + 1
        /\ x <= was + head /\ was + head + GroupSize + 1 <= now + y
    BY <1>12, <1>13
  <2> HIDE DEF x, y, z
  <2>2. x <= now + y /\ x + z <= now + y
    BY <1>12, <1>13, <2>1
  <2> QED
    BY <2>2 DEF x, y, z
<1>8. \A o : EmittedFrom(e, head, o) => EmittedFrom(f, head', o)
  <2> SUFFICES ASSUME NEW o, EmittedFrom(e, head, o)
               PROVE  EmittedFrom(f, head', o)
    OBVIOUS
  <2>1. PICK d \in sent : /\ ~ d.parity /\ d.seq = o.seq /\ d.pl = o.pl
                          /\ d.era < e \/ (d.era = e /\ d.seq < head)
    BY DEF EmittedFrom
  <2>2. d.era < f \/ (d.era = f /\ d.seq < head')
    BY <1>1, <2>1, SentIs, Sizes
  <2> QED
    BY <2>1, <2>2 DEF EmittedFrom
<1>9. \A n \in 1..Len(es) : es[n].pl # Lost => EmittedFrom(f, head', es[n])
  <2> SUFFICES ASSUME NEW n \in 1..Len(es), es[n].pl # Lost
               PROVE  EmittedFrom(f, head', es[n])
    OBVIOUS
  <2>1. PICK d \in sent : /\ ~ d.parity /\ d.seq = es[n].seq /\ d.pl = es[n].pl
                          /\ d.era = e /\ head <= d.seq /\ d.seq < head + GroupSize + 1
    BY <1>2
  <2>2. d.era < f \/ (d.era = f /\ d.seq < head')
    BY <1>1, <2>1, SentIs, Sizes
  <2> QED
    BY <2>1, <2>2 DEF EmittedFrom
<1>10. CASE Len(out) + Len(es) > MaxEmitted
  <2>1. out' = out
    BY <1>2, <1>3, <1>4, <1>10, Sizes
  <2>2. Len(out) <= now + head'
    BY <1>14
  <2>3. EmittedInOrder'
    BY <1>4, <2>1 DEF EmittedInOrder, ChunkAt
  <2>4. \A i \in 1..Len(out') : out'[i].pl # Lost => EmittedFrom(f, head', out'[i])
    BY <1>4, <1>8, <2>1
  <2> QED
    BY <1>4, <1>7, <2>1, <2>2, <2>3, <2>4 DEF OutInv, EmittedFrom, now, B
<1>11. CASE Len(out) + Len(es) <= MaxEmitted
  <2>1. out' = out \o es
    BY <1>3, <1>11
  <2>2. /\ out' \in Seq(EmissionType) /\ Len(out') = Len(out) + Len(es)
        /\ \A i \in 1..Len(out) : out'[i] = out[i]
        /\ \A n \in 1..Len(es) : out'[Len(out) + n] = es[n]
    BY <1>2, <1>4, <2>1, ConcatProperties
  <2>3. Len(out') <= now + head'
    <3>1. Len(out') = Len(out) + Len(es)
      BY <2>2
    <3> QED
      BY <1>14, <3>1
  <2>4. ASSUME NEW i \in 1..Len(out')
        PROVE  \/ i \in 1..Len(out) /\ out'[i] = out[i]
               \/ \E n \in 1..Len(es) : i = Len(out) + n /\ out'[i] = es[n]
    <3>1. CASE i <= Len(out)
      BY <1>13, <2>2, <3>1
    <3>2. CASE ~ (i <= Len(out))
      <4> DEFINE n == i - Len(out)
      <4>1. n \in 1..Len(es) /\ i = Len(out) + n
        BY <1>13, <2>2, <3>2
      <4> HIDE DEF n
      <4> QED
        BY <2>2, <4>1
    <3> QED
      BY <3>1, <3>2
  <2>5. \A i \in 1..Len(out') : out'[i].pl # Lost => EmittedFrom(f, head', out'[i])
    <3> SUFFICES ASSUME NEW i \in 1..Len(out'), out'[i].pl # Lost
                 PROVE  EmittedFrom(f, head', out'[i])
      OBVIOUS
    <3>1. CASE i \in 1..Len(out) /\ out'[i] = out[i]
      BY <1>4, <1>8, <3>1
    <3>2. ASSUME NEW n \in 1..Len(es), out'[i] = es[n]
          PROVE  EmittedFrom(f, head', out'[i])
      BY <1>9, <3>2
    <3> QED
      BY <2>4, <3>1, <3>2
  <2>6. ASSUME NEW i \in 1..Len(out'), NEW j \in 1..Len(out'), i < j,
               out'[i].pl # Lost, out'[j].pl # Lost
        PROVE  Later(CHOOSE c \in out'[j].pl : TRUE, CHOOSE c \in out'[i].pl : TRUE)
    <3>1. CASE i \in 1..Len(out) /\ out'[i] = out[i] /\ j \in 1..Len(out) /\ out'[j] = out[j]
      <4>1. DOMAIN out = 1..Len(out)
        BY <1>4, LenProperties
      <4> QED
        BY <1>4, <2>6, <3>1, <4>1 DEF EmittedInOrder, ChunkAt
    <3>2. ASSUME i \in 1..Len(out), out'[i] = out[i], NEW n \in 1..Len(es), out'[j] = es[n]
          PROVE  Later(CHOOSE c \in out'[j].pl : TRUE, CHOOSE c \in out'[i].pl : TRUE)
      <4>1. PICK c \in sent : /\ ~ c.parity /\ c.pl = out'[i].pl
                              /\ c.era < e \/ (c.era = e /\ c.seq < head)
        BY <1>4, <2>6, <3>2 DEF EmittedFrom
      <4>2. PICK d \in sent : ~ d.parity /\ d.pl = out'[j].pl /\ d.era = e /\ head <= d.seq
        BY <1>2, <2>6, <3>2
      <4>3. c.era < d.era \/ (c.era = d.era /\ c.seq < d.seq)
        BY <1>1, <4>1, <4>2, SentIs
      <4> QED
        BY <4>1, <4>2, <4>3, LaterData
    <3>3. ASSUME NEW m \in 1..Len(es), i = Len(out) + m, out'[i] = es[m],
                 NEW n \in 1..Len(es), j = Len(out) + n, out'[j] = es[n]
          PROVE  Later(CHOOSE c \in out'[j].pl : TRUE, CHOOSE c \in out'[i].pl : TRUE)
      <4>1. PICK c \in sent : ~ c.parity /\ c.pl = out'[i].pl /\ c.era = e /\ c.seq = es[m].seq
        BY <1>2, <2>6, <3>3
      <4>2. PICK d \in sent : ~ d.parity /\ d.pl = out'[j].pl /\ d.era = e /\ d.seq = es[n].seq
        BY <1>2, <2>6, <3>3
      <4>3. m < n
        BY <1>13, <2>6, <3>3
      <4>4. c.seq < d.seq
        BY <1>2, <4>1, <4>2, <4>3
      <4> QED
        BY <4>1, <4>2, <4>4, LaterData
    <3>4. ASSUME NEW m \in 1..Len(es), i = Len(out) + m, j \in 1..Len(out)
          PROVE  FALSE
      BY <1>13, <2>6, <3>4
    <3> QED
      BY <2>4, <3>1, <3>2, <3>3, <3>4
  <2>7. EmittedInOrder'
    <3>1. DOMAIN out' = 1..Len(out')
      BY <2>2, LenProperties
    <3> QED
      BY <2>6, <3>1 DEF EmittedInOrder, ChunkAt
  <2> QED
    BY <1>7, <2>2, <2>3, <2>5, <2>7 DEF OutInv, EmittedFrom, now, B
<1> QED
  BY <1>2, <1>4, <1>10, <1>11, Sizes

(* The first numbers of two groups are a group's numbers apart. *)
LEMMA HeadsApart ==
    ASSUME NEW a \in Nat, NEW b \in Nat, a % (GroupSize + 1) = 0, b % (GroupSize + 1) = 0, a < b
    PROVE  a + GroupSize + 1 <= b
<1> SUFFICES ASSUME b < a + GroupSize + 1
             PROVE  FALSE
  BY Sizes
<1> DEFINE i == b - a
<1>1. i \in 0..GroupSize /\ b = a + i /\ i # 0
  BY Sizes
<1> HIDE DEF i
<1>2. b % (GroupSize + 1) = i
  BY <1>1, SlotOffset
<1> QED
  BY <1>1, <1>2

(* Of a group that can be repaired, something arrived: it has at least two *)
(* packets.                                                                *)
LEMMA SomeArrived ==
    ASSUME NEW f \in Nat, NEW s \in Nat, NEW arrived, Repairable(f, s, arrived)
    PROVE  \E q \in GroupAt(f, s) : q \in arrived
<1>1. s \in s..s + GroupSize /\ s + 1 \in s..s + GroupSize /\ s # s + 1
  BY Sizes
<1>2. PICK p \in GroupAt(f, s) : p.seq = s
  BY <1>1 DEF Repairable
<1>3. PICK q \in GroupAt(f, s) : q.seq = s + 1
  BY <1>1 DEF Repairable
<1>4. p # q
  BY <1>1, <1>2, <1>3
<1> QED
  BY <1>4 DEF Repairable

(* The history has room for another window. *)
LEMMA RoomInHistory ==
    ASSUME SenderInv, KeepsHistory, NEW e \in Nat, e <= era, HeadInv(e), OutInv(e),
           NEW n \in Nat, n <= GroupSize + 1
    PROVE  Len(out) + n <= MaxEmitted
<1> DEFINE was == e * Budget
           x == Len(out)
<1>1. /\ max.chunks \in Nat /\ max.eras \in Nat /\ era \in Nat /\ era <= max.eras
      /\ max \in Scenarios
  BY ScenarioType DEF SenderInv, Counters
<1>2. Budget \in Nat /\ was \in Nat /\ Budget = 2 * max.chunks + GroupSize + 1
  BY BudgetType
<1>3. (max.eras + 1) * Budget <= MaxEmitted
  BY <1>1, <1>2 DEF KeepsHistory
<1>4. was + Budget <= (max.eras + 1) * Budget
  <2>1. max.eras + 1 \in Nat /\ e < max.eras + 1
    BY <1>1
  <2> QED
    BY <1>2, <2>1, BudgetGrows
<1>5. (max.eras + 1) * Budget \in Nat
  BY <1>1, <1>2
<1>6. was + Budget <= MaxEmitted
  <2> DEFINE all == (max.eras + 1) * Budget
  <2>1. was + Budget <= all /\ all <= MaxEmitted /\ all \in Nat
    BY <1>3, <1>4, <1>5
  <2> HIDE DEF all, was
  <2> QED
    BY <1>2, <2>1, Sizes
<1>7. x \in Nat /\ x <= was + head /\ head \in Nat /\ head <= 2 * max.chunks
  BY LenProperties DEF OutInv, HeadInv
<1> HIDE DEF was, x
<1>8. x + n <= MaxEmitted
  BY <1>1, <1>2, <1>6, <1>7, Sizes
<1> QED
  BY <1>8 DEF x

(* When a window is finished, what could be repaired was emitted: at the   *)
(* next window of the incarnation, or as packet p of a later incarnation   *)
(* arrives.                                                                *)
LEMMA RecoveredGrows ==
    ASSUME SenderInv, Roomy, KeepsHistory, expected = 1, UNCHANGED <<sent, max>>,
           NEW e \in Nat, e <= era, HeadInv(e), OutInv(e), RecoveredInv(e),
           NEW w, Sourced(e, head, w), Complete(e, head, w),
           out' = Rx!Log(Rx!Emissions(head, Rx!Recover(w))),
           NEW f \in Nat, head' \in Nat, head' % (GroupSize + 1) = 0,
           \/ e = f /\ head' = head + GroupSize + 1 /\ inTime' = inTime
           \/ /\ e < f
              /\ \A q \in inTime : q.era <= e /\ (q.era = e => q.seq < head + GroupSize + 1)
              /\ \E p \in sent : p.era = f /\ head' <= p.seq /\ inTime' = inTime \cup {p}
    PROVE  RecoveredInv(f)'
<1> DEFINE es == Rx!Emissions(head, Rx!Recover(w))
<1>1. head \in Nat /\ head % (GroupSize + 1) = 0 /\ head <= 2 * max.chunks
  BY DEF HeadInv
<1>2. /\ es \in Seq(EmissionType) /\ Len(es) \in Nat /\ Len(es) <= GroupSize + 1
      /\ Repairable(e, head, inTime) =>
            \A d \in GroupAt(e, head) : d.parity \/ \E n \in 1..Len(es) : es[n].pl = d.pl
  <2>1. es = Rx!Emissions(head, Rx!Recover(w))
    OBVIOUS
  <2> HIDE DEF es
  <2> QED
    BY <1>1, <2>1, Flushed
<1> HIDE DEF es
<1>3. out \in Seq(EmissionType)
  BY DEF OutInv
<1>4. out' = out \o es
  <2>1. Len(out) + Len(es) <= MaxEmitted
    BY <1>2, RoomInHistory
  <2> QED
    BY <2>1 DEF Rx!Log, es
<1>5. /\ DOMAIN out' = 1..Len(out) + Len(es) /\ DOMAIN out = 1..Len(out)
      /\ \A i \in 1..Len(out) : out'[i] = out[i]
      /\ \A n \in 1..Len(es) : out'[Len(out) + n] = es[n]
  BY <1>2, <1>3, <1>4, ConcatProperties, LenProperties
<1>6. Len(out) \in Nat
  BY <1>3, LenProperties
<1>7. \A d : Emitted(d) => Emitted(d)'
  <2> SUFFICES ASSUME NEW d, NEW i \in 1..Len(out), out[i].pl = d.pl
               PROVE  \E j \in DOMAIN out' : out'[j].pl = d.pl
    BY <1>5 DEF Emitted
  <2>1. i \in DOMAIN out' /\ out'[i].pl = d.pl
    BY <1>2, <1>5, <1>6
  <2> QED
    BY <2>1
<1>8. ASSUME Repairable(e, head, inTime), NEW d \in GroupAt(e, head), ~ d.parity
      PROVE  Emitted(d)'
  <2>1. PICK n \in 1..Len(es) : es[n].pl = d.pl
    BY <1>2, <1>8
  <2>2. Len(out) + n \in DOMAIN out' /\ out'[Len(out) + n].pl = d.pl
    BY <1>2, <1>5, <1>6, <2>1
  <2> QED
    BY <2>2 DEF Emitted
<1>9. \A g, s : GroupAt(g, s)' = GroupAt(g, s)
  BY DEF GroupAt
<1> SUFFICES ASSUME NEW g \in Nat, NEW s \in Nat, Passed(f, g, s)', s % (GroupSize + 1) = 0,
                    Repairable(g, s, inTime)', NEW d \in GroupAt(g, s), ~ d.parity
             PROVE  Emitted(d)'
  BY <1>9 DEF RecoveredInv
<1>10. Repairable(g, s, inTime')
  BY <1>9 DEF Repairable
<1>11. g < f \/ (g = f /\ s < head')
  BY DEF Passed
<1>12. ASSUME Repairable(g, s, inTime), g < e \/ (g = e /\ s < head)
       PROVE  Emitted(d)'
  BY <1>7, <1>12 DEF RecoveredInv, Passed
<1>13. ASSUME Repairable(g, s, inTime), g = e, s < head + GroupSize + 1
       PROVE  Emitted(d)'
  <2>1. s < head \/ s = head
    BY <1>1, <1>13, HeadsApart, Sizes
  <2> QED
    BY <1>8, <1>12, <1>13, <2>1
<1>14. CASE e = f /\ head' = head + GroupSize + 1 /\ inTime' = inTime
  BY <1>10, <1>11, <1>12, <1>13, <1>14
<1>15. ASSUME e < f, \A q \in inTime : q.era <= e /\ (q.era = e => q.seq < head + GroupSize + 1),
              NEW p \in sent, p.era = f, head' <= p.seq, inTime' = inTime \cup {p}
       PROVE  Emitted(d)'
  <2>1. PICK q \in GroupAt(g, s) : q \in inTime'
    BY <1>10, SomeArrived
  <2>2. q \in sent /\ q.era = g /\ s <= q.seq /\ q.seq <= s + GroupSize /\ q.seq \in Nat
    <3>1. q \in sent /\ q.era = g /\ q.seq \in s..s + GroupSize
      BY DEF GroupAt
    <3> QED
      BY <3>1, SentIs, Sizes
  <2>3. q # p
    <3> SUFFICES ASSUME q = p PROVE FALSE
      OBVIOUS
    <3>1. s < head'
      BY <1>11, <1>15, <2>2
    <3>2. s + GroupSize + 1 <= head'
      BY <3>1, HeadsApart
    <3> QED
      BY <1>15, <2>2, <3>2, Sizes
  <2>4. q \in inTime
    BY <1>15, <2>1, <2>3
  <2>5. g <= e /\ (g = e => q.seq < head + GroupSize + 1)
    BY <1>15, <2>2, <2>4
  <2>6. p \notin GroupAt(g, s)
    BY <1>15, <2>5 DEF GroupAt
  <2>7. Repairable(g, s, inTime)
    BY <1>10, <1>15, <2>6 DEF Repairable
  <2>8. g = e => s < head + GroupSize + 1
    BY <1>1, <2>2, <2>5, Sizes
  <2> QED
    BY <1>12, <1>13, <2>5, <2>7, <2>8
<1> QED
  BY <1>14, <1>15

-----------------------------------------------------------------------------
(* The sender and the network disturb nothing. *)

(* What a step of theirs adds is the present incarnation's next packets. *)
LEMMA SentGrows ==
    ASSUME StreamInv, NoWrap, StreamStep
    PROVE  /\ max' = max /\ sent \subseteq sent'
           /\ era \in Nat /\ era' \in Nat /\ era <= era' /\ sequence \in Nat
           /\ \A p \in sent' : p \in sent \/ (p.era = era /\ sequence <= p.seq)
<1>1. era \in Nat /\ sequence \in Nat
  BY ScenarioType DEF StreamInv, SenderInv, Counters
<1>2. CASE Send
  <2>1. Sending
    BY <1>2, SendIsSending DEF StreamInv
  <2>2. DataPacket.seq = sequence /\ DataPacket.era = era
    BY DataPacketIs DEF StreamInv
  <2>3. ClosesGroup /\ GroupSize > 0 => ParityPacket.seq = sequence + 1 /\ ParityPacket.era = era
    BY <2>1, ParityPacketIs DEF StreamInv, Sending
  <2>4. ASSUME NEW p \in sent'
        PROVE  p \in sent \/ (p.era = era /\ sequence <= p.seq)
    BY <1>1, <2>1, <2>2, <2>3, SendingAdds DEF StreamInv
  <2>5. max' = max /\ era' = era /\ sent \subseteq sent'
    BY <2>1 DEF Sending
  <2> QED
    BY <1>1, <2>4, <2>5
<1>3. CASE ~ Send
  <2>1. max' = max /\ sent' = sent /\ (era' = era \/ era' = era + 1)
    BY <1>3 DEF StreamStep, SendHardError, SendRefused, SendFails, Restart, SenderRestart, Lose,
                netVars, senderVars
  <2> QED
    BY <1>1, <2>1
<1> QED
  BY <1>2, <1>3

(* What has been emitted stays so. *)
LEMMA RecoveredFrame ==
    ASSUME NEW e \in Nat, RecoveredInv(e), UNCHANGED <<out, head>>,
           \A f, s \in Nat :
                Passed(e, f, s) /\ s % (GroupSize + 1) = 0 /\ Repairable(f, s, inTime)' =>
                    Repairable(f, s, inTime) /\ GroupAt(f, s)' = GroupAt(f, s)
    PROVE  RecoveredInv(e)'
<1>1. \A d : Emitted(d)' <=> Emitted(d)
  BY DEF Emitted
<1>2. \A f, s : Passed(e, f, s)' <=> Passed(e, f, s)
  BY DEF Passed
<1> SUFFICES ASSUME NEW f \in Nat, NEW s \in Nat, Passed(e, f, s), s % (GroupSize + 1) = 0,
                    Repairable(f, s, inTime)', NEW d \in GroupAt(f, s)', ~ d.parity
             PROVE  Emitted(d)
  BY <1>1, <1>2 DEF RecoveredInv
<1>3. Repairable(f, s, inTime) /\ d \in GroupAt(f, s)
  OBVIOUS
<1> QED
  BY <1>3 DEF RecoveredInv

(* The numbers of a passed group are before the head. *)
LEMMA PassedBefore ==
    ASSUME NEW e \in Nat, HeadInv(e), NEW f \in Nat, NEW s \in Nat,
           Passed(e, f, s), s % (GroupSize + 1) = 0
    PROVE  f < e \/ (f = e /\ s + GroupSize + 1 <= head)
BY HeadsApart DEF Passed, HeadInv

(* The sender and the network leave the window alone. *)
LEMMA StreamKeepsFec ==
    ASSUME StreamInv, Roomy, FecInv, StreamStep,
           UNCHANGED <<started, head, slot, expected, pkt, out, inTime>>
    PROVE  FecInv'
<1>1. CASE NotStarted
  BY <1>1 DEF FecInv, NotStarted, Rx!EmptyWindow, Rx!Empty
<1>2. ASSUME NEW e \in 0..era, Running(e)
      PROVE  FecInv'
  <2>1. /\ max' = max /\ sent \subseteq sent'
        /\ era \in Nat /\ era' \in Nat /\ era <= era' /\ sequence \in Nat
        /\ \A p \in sent' : p \in sent \/ (p.era = era /\ sequence <= p.seq)
    BY SentGrows, RoomLeft DEF StreamInv
  <2>2. e \in Nat /\ e <= era /\ e \in 0..era' /\ HeadInv(e) /\ WindowInv(e) /\ OutInv(e)
    BY <1>2, <2>1 DEF Running
  <2>3. HeadInv(e)'
    BY <2>1, <2>2 DEF HeadInv
  <2>4. Sourced(e, head, slot)'
    BY <2>1, <2>2 DEF WindowInv, Sourced, Rx!Empty, SlotOf
  <2>5. WindowInv(e)'
    BY <2>1, <2>2, <2>4 DEF WindowInv, SlotOf
  <2>6. OutInv(e)'
    <3>1. Budget' = Budget
      BY <2>1 DEF Budget
    <3>2. EmittedInOrder'
      BY <2>2 DEF OutInv, EmittedInOrder, ChunkAt
    <3>3. \A o : EmittedFrom(e, head, o) => EmittedFrom(e, head, o)'
      BY <2>1 DEF EmittedFrom
    <3> QED
      BY <2>2, <3>1, <3>2, <3>3 DEF OutInv
  <2>7. ASSUME KeepsHistory
        PROVE  RecoveredInv(e)'
    <3>1. RecoveredInv(e)
      BY <1>2, <2>7 DEF Running
    <3>2. e = era => head <= sequence
      <4>1. PICK q \in inTime : q.era = e /\ (q.seq >= head \/ (q.parity /\ q.seq = head - 1))
        BY <2>2 DEF HeadInv
      <4>2. q \in sent
        BY <2>2 DEF WindowInv
      <4>3. q.seq \in Nat /\ (q.era = era => q.seq < sequence)
        BY <4>2, SentIs DEF StreamInv, SenderInv, SentNumbers
      <4> QED
        BY <2>1, <2>2, <4>1, <4>3 DEF HeadInv
    <3>3. ASSUME NEW f \in Nat, NEW s \in Nat, Passed(e, f, s), s % (GroupSize + 1) = 0
          PROVE  GroupAt(f, s)' = GroupAt(f, s)
      <4>1. f < e \/ (f = e /\ s + GroupSize + 1 <= head)
        BY <2>2, <3>3, PassedBefore
      <4>2. ASSUME NEW p \in sent', p.era = f, p.seq \in s..s + GroupSize
            PROVE  p \in sent
        <5> SUFFICES ASSUME p \notin sent PROVE FALSE
          OBVIOUS
        <5>1. p.era = era /\ sequence <= p.seq /\ p.seq <= s + GroupSize
          BY <2>1, <4>2
        <5>2. p.seq \in Int
          BY <4>2
        <5>3. head \in Nat
          BY <2>2 DEF HeadInv
        <5> QED
          BY <2>1, <2>2, <3>2, <4>1, <4>2, <5>1, <5>2, <5>3, Sizes
      <4> QED
        BY <2>1, <4>2 DEF GroupAt
    <3>4. \A f, s \in Nat :
            Passed(e, f, s) /\ s % (GroupSize + 1) = 0 /\ Repairable(f, s, inTime)' =>
                Repairable(f, s, inTime) /\ GroupAt(f, s)' = GroupAt(f, s)
      <4>1. inTime' = inTime
        OBVIOUS
      <4> QED
        BY <3>3, <4>1 DEF Repairable
    <3> QED
      BY <2>2, <3>1, <3>4, RecoveredFrame
  <2>8. Running(e)'
    BY <1>2, <2>1, <2>2, <2>3, <2>5, <2>6, <2>7 DEF Running, KeepsHistory
  <2> QED
    BY <2>2, <2>8 DEF FecInv
<1> QED
  BY <1>1, <1>2 DEF FecInv

-----------------------------------------------------------------------------
(* The receive loop finishes windows and stores its packet. *)

(* The window after a window starts at a group. *)
LEMMA NextHead ==
    ASSUME NEW h \in Nat, h % (GroupSize + 1) = 0
    PROVE  (h + GroupSize + 1) % (GroupSize + 1) = 0
<1> DEFINE w == GroupSize + 1
           q == h \div w
<1>1. w \in Nat \ {0} /\ 0 \in 0..w - 1
  BY Sizes
<1>2. q \in Nat /\ h = w * q + (h % w)
  BY <1>1, RemainderBounds
<1>3. h = w * q /\ q \in Nat
  BY <1>1, <1>2
<1>4. (w * (q + 1) + 0) % w = 0
  <2> HIDE DEF w, q
  <2>1. q + 1 \in Nat
    BY <1>3
  <2> QED
    BY <1>1, <2>1, RemainderUnique
<1>5. w * (q + 1) + 0 = h + w
  <2> HIDE DEF w, q
  <2>1. w * (q + 1) = w * q + w
    BY <1>1, <1>3
  <2>2. w * q \in Nat
    BY <1>1, <1>3
  <2> QED
    BY <1>1, <1>3, <2>1, <2>2
<1>6. h + w = h + GroupSize + 1
  BY Sizes
<1> QED
  BY <1>4, <1>5, <1>6

(* No number the receiver computes wraps. *)
LEMMA NoWindowWraps ==
    ASSUME SenderInv, Roomy, NEW e, HeadInv(e)
    PROVE  /\ Rx!PlusSeq(head, Rx!WindowSize) = head + GroupSize + 1
           /\ \A s : Rx!Fits(s) <=> s < head + GroupSize + 1
           /\ pkt \in sent /\ head <= pkt.seq => Rx!Offset = pkt.seq - head
<1>1. /\ head \in Nat /\ head <= 2 * max.chunks
      /\ max.chunks \in Nat /\ 2 * max.chunks + 4 * (GroupSize + 1) < SeqSpace
  BY RoomLeft DEF HeadInv
<1>2. head + (GroupSize + 1) \in Nat /\ head + (GroupSize + 1) < SeqSpace
  BY <1>1, Sizes
<1>3. (head + (GroupSize + 1)) % SeqSpace = head + (GroupSize + 1)
  BY <1>2, NoWrapMod
<1>4. head + (GroupSize + 1) = head + GroupSize + 1
  BY <1>1, Sizes
<1>5. Rx!PlusSeq(head, Rx!WindowSize) = head + GroupSize + 1
  BY <1>3, <1>4 DEF Rx!PlusSeq, Rx!WindowSize
<1>6. ASSUME pkt \in sent, head <= pkt.seq
      PROVE  Rx!Offset = pkt.seq - head
  <2>1. pkt.seq \in Nat /\ pkt.seq < 2 * max.chunks
    BY <1>6, SentIs
  <2>2. pkt.seq - head \in Nat /\ pkt.seq - head < SeqSpace
    BY <1>1, <1>6, <2>1, Sizes
  <2> QED
    BY <2>2, NoWrapMod DEF Rx!Offset
<1> QED
  BY <1>5, <1>6 DEF Rx!Fits

(* An empty window may be any incarnation's. *)
LEMMA EmptySourced ==
    ASSUME NEW e, NEW h
    PROVE  /\ Sourced(e, h, Rx!EmptyWindow) /\ Rx!EmptyWindow[GroupSize] = Rx!Empty
           /\ Rx!EmptyWindow' = Rx!EmptyWindow /\ Rx!Empty' = Rx!Empty
<1>1. DOMAIN Rx!EmptyWindow = 0..GroupSize /\ \A i \in 0..GroupSize : Rx!EmptyWindow[i] = Rx!Empty
  BY DEF Rx!EmptyWindow
<1>2. GroupSize \in 0..GroupSize
  BY Sizes
<1>3. Rx!EmptyWindow' = Rx!EmptyWindow /\ Rx!Empty' = Rx!Empty
  BY DEF Rx!EmptyWindow, Rx!Empty
<1> QED
  BY <1>1, <1>2, <1>3 DEF Sourced

(* A window finished by the packet being processed, or before it. *)
LEMMA FlushKeepsRunning ==
    ASSUME SenderInv, Roomy, NEW e \in Nat, Running(e),
           UNCHANGED <<max, era, sent, inTime, started, expected>>,
           NEW w, Sourced(e, head, w), Complete(e, head, w),
           out' = Rx!Log(Rx!Emissions(head, Rx!Recover(w))),
           slot' = Rx!EmptyWindow, head' = Rx!PlusSeq(head, Rx!WindowSize),
           pkt # NoPacket,
           \/ pkt' = pkt /\ head + GroupSize + 1 <= pkt.seq
           \/ pkt' = NoPacket /\ pkt.parity /\ pkt.seq = head + GroupSize
    PROVE  Running(e)'
<1>1. /\ HeadInv(e) /\ WindowInv(e) /\ OutInv(e) /\ e <= era /\ expected = 1
      /\ KeepsHistory => RecoveredInv(e)
  BY DEF Running
<1>2. head \in Nat /\ head % (GroupSize + 1) = 0
  BY <1>1 DEF HeadInv
<1>3. head' = head + GroupSize + 1 /\ head' \in Nat /\ head' % (GroupSize + 1) = 0
  BY <1>1, <1>2, NoWindowWraps, NextHead, Sizes
<1>4. /\ pkt \in inTime /\ pkt \in sent /\ pkt.era = e /\ pkt.seq \in Nat
      /\ pkt.seq < 2 * max.chunks
  BY <1>1, SentIs DEF WindowInv
<1>5. max.chunks \in Nat
  BY RoomLeft
<1>6. HeadInv(e)'
  <2>1. pkt.seq >= head' \/ (pkt.parity /\ pkt.seq = head' - 1)
    BY <1>2, <1>3, <1>4, Sizes
  <2>2. head' <= 2 * max.chunks
    BY <1>2, <1>3, <1>4, <1>5, Sizes
  <2> QED
    BY <1>3, <1>4, <2>1, <2>2 DEF HeadInv
<1>7. WindowInv(e)'
  <2>1. Sourced(e, head, slot)' /\ (slot[GroupSize] = Rx!Empty)'
    <3>1. Sourced(e, head', Rx!EmptyWindow) /\ Rx!EmptyWindow[GroupSize] = Rx!Empty
      BY EmptySourced
    <3> QED
      BY <3>1, EmptySourced DEF Sourced, SlotOf
  <2>2. ASSUME NEW q \in inTime, q.era = e, q.seq >= head'
        PROVE  q = pkt'
    <3>1. q \in sent /\ q.seq \in Nat
      BY <1>1, SentIs DEF WindowInv
    <3>2. CASE q # pkt
      <4>1. q.seq >= head
        BY <1>2, <1>3, <2>2, <3>1, Sizes
      <4>2. q.seq < head + GroupSize
        BY <1>1, <2>2, <3>2, <4>1 DEF WindowInv
      <4> QED
        BY <1>2, <1>3, <2>2, <3>1, <4>2, Sizes
    <3>3. CASE q = pkt
      BY <1>2, <1>3, <2>2, <3>1, <3>3, Sizes
    <3> QED
      BY <3>2, <3>3
  <2>3. pkt' # NoPacket => pkt' \in inTime /\ pkt'.era = e /\ pkt'.seq >= head'
    BY <1>2, <1>3, <1>4, Sizes
  <2> QED
    BY <1>1, <2>1, <2>2, <2>3 DEF WindowInv
<1>8. OutInv(e)'
  BY <1>1, <1>3, OutGrows
<1>9. KeepsHistory => RecoveredInv(e)'
  BY <1>1, <1>3, RecoveredGrows
<1> QED
  BY <1>1, <1>6, <1>7, <1>8, <1>9 DEF Running, KeepsHistory

(* Nothing is emitted and the head stays. *)
LEMMA QuietKeepsRunning ==
    ASSUME NEW e \in Nat, Running(e), WindowInv(e)',
           UNCHANGED <<max, era, sent, inTime, started, expected, head, out>>
    PROVE  Running(e)'
<1>1. HeadInv(e)'
  BY DEF Running, HeadInv
<1>2. OutInv(e)'
  <2>1. OutInv(e)
    BY DEF Running
  <2>2. Budget' = Budget
    BY DEF Budget
  <2>3. EmittedInOrder'
    BY <2>1 DEF OutInv, EmittedInOrder, ChunkAt
  <2>4. \A o : EmittedFrom(e, head, o) => EmittedFrom(e, head, o)'
    BY DEF EmittedFrom
  <2> QED
    BY <2>1, <2>2, <2>3, <2>4 DEF OutInv
<1>3. ASSUME KeepsHistory
      PROVE  RecoveredInv(e)'
  <2>1. \A f, s \in Nat : Repairable(f, s, inTime)' =>
            Repairable(f, s, inTime) /\ GroupAt(f, s)' = GroupAt(f, s)
    BY DEF Repairable, GroupAt
  <2> QED
    BY <1>3, <2>1, RecoveredFrame DEF Running
<1> QED
  BY <1>1, <1>2, <1>3 DEF Running, KeepsHistory

(* The rest of fec_rx_process, after the restart test. *)
LEMMA FecStepKeepsFec ==
    ASSUME SenderInv, Roomy, FecInv, Rx!FecStep, UNCHANGED <<streamVars, inTime>>
    PROVE  FecInv'
<1>1. UNCHANGED <<max, era, sent, inTime>>
  BY DEF streamVars, senderVars, netVars
<1>2. pkt # NoPacket /\ UNCHANGED <<started, expected>>
  BY DEF Rx!FecStep, Rx!AdvanceWindow, Rx!IgnoreCopy, Rx!StorePacket
<1>3. PICK e \in 0..era : Running(e)
  BY <1>2 DEF FecInv, NotStarted
<1>4. /\ e \in Nat /\ HeadInv(e) /\ WindowInv(e) /\ Sourced(e, head, slot)
      /\ head \in Nat /\ head % (GroupSize + 1) = 0
  BY <1>3 DEF Running, HeadInv, WindowInv
<1>5. /\ pkt \in inTime /\ pkt \in sent /\ pkt.era = e /\ pkt.seq >= head /\ pkt.seq \in Nat
  BY <1>2, <1>4, SentIs DEF WindowInv
<1>6. /\ Rx!Offset = pkt.seq - head
      /\ Rx!Fits(pkt.seq) <=> pkt.seq < head + GroupSize + 1
  BY <1>4, <1>5, NoWindowWraps
<1> SUFFICES Running(e)'
  BY <1>1 DEF FecInv
<1>7. CASE Rx!AdvanceWindow
  <2>1. /\ head + GroupSize + 1 <= pkt.seq /\ pkt' = pkt /\ slot' = Rx!EmptyWindow
        /\ out' = Rx!Log(Rx!Emissions(head, Rx!Recover(slot)))
        /\ head' = Rx!PlusSeq(head, Rx!WindowSize)
    BY <1>4, <1>5, <1>6, <1>7, Sizes DEF Rx!AdvanceWindow, Rx!FlushWindow
  <2>2. Complete(e, head, slot)
    <3> SUFFICES ASSUME NEW q \in inTime, q.era = e, q.seq \in head..head + GroupSize
                 PROVE  slot[q.seq - head] = SlotOf(q)
      BY DEF Complete
    <3>1. q # pkt /\ q.seq >= head
      BY <1>4, <2>1, Sizes
    <3> QED
      BY <1>4, <3>1 DEF WindowInv
  <2> QED
    BY <1>1, <1>2, <1>3, <1>4, <2>1, <2>2, FlushKeepsRunning
<1>8. ASSUME Rx!Fits(pkt.seq)
      PROVE  Rx!Offset \in 0..GroupSize /\ pkt.seq = head + Rx!Offset
  BY <1>4, <1>5, <1>6, <1>8, Sizes
<1>9. CASE Rx!IgnoreCopy
  <2>1. /\ Rx!Fits(pkt.seq) /\ slot[Rx!Offset].kind # "empty" /\ pkt' = NoPacket
        /\ UNCHANGED <<head, slot, out>>
    BY <1>9 DEF Rx!IgnoreCopy
  <2>2. Rx!Offset \in 0..GroupSize /\ pkt.seq = head + Rx!Offset
    BY <1>8, <2>1
  <2>3. slot[Rx!Offset] # Rx!Empty
    BY <2>1 DEF Rx!Empty
  <2>4. PICK p \in sent : p.era = e /\ p.seq = head + Rx!Offset /\ slot[Rx!Offset] = SlotOf(p)
    BY <1>4, <2>2, <2>3 DEF Sourced
  <2>5. p = pkt
    BY <1>5, <2>2, <2>4 DEF SenderInv, SentOnce
  <2>6. Rx!Offset # GroupSize
    BY <1>4, <2>3 DEF WindowInv
  <2>7. pkt.seq < head + GroupSize /\ slot[pkt.seq - head] = SlotOf(pkt)
    BY <1>4, <1>6, <2>2, <2>4, <2>5, <2>6, Sizes
  <2>8. Rx!Empty' = Rx!Empty /\ Sourced(e, head, slot)'
    BY <1>1, <1>4, <2>1 DEF Sourced, Rx!Empty, SlotOf
  <2>9. WindowInv(e)'
    BY <1>1, <1>4, <2>1, <2>7, <2>8 DEF WindowInv, SlotOf
  <2> QED
    BY <1>1, <1>2, <1>3, <1>4, <2>1, <2>9, QuietKeepsRunning
<1>10. CASE Rx!StorePacket
  <2> DEFINE filled == [slot EXCEPT ![Rx!Offset] = SlotOf(pkt)]
  <2>1. /\ Rx!Fits(pkt.seq) /\ slot[Rx!Offset].kind = "empty" /\ pkt' = NoPacket
        /\ IF Rx!Offset = GroupSize THEN Rx!FlushWindow(filled)
                                    ELSE slot' = filled /\ UNCHANGED <<head, out>>
    BY <1>10 DEF Rx!StorePacket, SlotOf
  <2>2. Rx!Offset \in 0..GroupSize /\ pkt.seq = head + Rx!Offset
    BY <1>8, <2>1
  <2>3. DOMAIN slot = 0..GroupSize /\ DOMAIN filled = 0..GroupSize
    BY <1>4 DEF Sourced
  <2>4. /\ filled[Rx!Offset] = SlotOf(pkt)
        /\ \A i \in 0..GroupSize : i # Rx!Offset => filled[i] = slot[i]
    BY <2>2, <2>3
  <2>5. Sourced(e, head, filled)
    BY <1>4, <1>5, <2>2, <2>3, <2>4 DEF Sourced
  <2>6. ASSUME NEW q \in inTime, q.era = e, q.seq >= head
        PROVE  \/ q = pkt
               \/ q # pkt /\ q.seq < head + GroupSize /\ filled[q.seq - head] = SlotOf(q)
    <3> SUFFICES ASSUME q # pkt
                 PROVE  q.seq < head + GroupSize /\ filled[q.seq - head] = SlotOf(q)
      OBVIOUS
    <3>1. q.seq < head + GroupSize /\ slot[q.seq - head] = SlotOf(q) /\ q \in sent
      BY <1>4, <2>6 DEF WindowInv
    <3>2. q.seq \in Nat /\ q.seq # pkt.seq
      BY <1>5, <2>6, <3>1, SentIs DEF SenderInv, SentOnce
    <3>3. q.seq - head \in 0..GroupSize /\ q.seq - head # Rx!Offset
      BY <1>4, <1>5, <1>6, <2>6, <3>1, <3>2, Sizes
    <3> QED
      BY <2>4, <3>1, <3>3
  <2> HIDE DEF filled
  <2>7. CASE Rx!Offset = GroupSize
    <3>1. pkt.seq = head + GroupSize /\ GroupSize \in 0..GroupSize
      BY <2>2, <2>7, Sizes
    <3>2. pkt.parity
      BY <1>4, <1>5, <3>1, SlotOffset, SentIs
    <3>3. Complete(e, head, filled)
      <4> SUFFICES ASSUME NEW q \in inTime, q.era = e, q.seq \in head..head + GroupSize
                   PROVE  filled[q.seq - head] = SlotOf(q)
        BY DEF Complete
      <4>1. q.seq >= head
        BY <1>4
      <4> QED
        BY <1>6, <2>4, <2>6, <4>1
    <3>4. /\ out' = Rx!Log(Rx!Emissions(head, Rx!Recover(filled)))
          /\ slot' = Rx!EmptyWindow /\ head' = Rx!PlusSeq(head, Rx!WindowSize)
      BY <2>1, <2>7 DEF Rx!FlushWindow
    <3> QED
      BY <1>1, <1>2, <1>3, <1>4, <2>1, <2>5, <3>1, <3>2, <3>3, <3>4, FlushKeepsRunning
  <2>8. CASE Rx!Offset # GroupSize
    <3>1. slot' = filled /\ UNCHANGED <<head, out>>
      BY <2>1, <2>8
    <3>2. Sourced(e, head, slot)' /\ Rx!Empty' = Rx!Empty
      BY <1>1, <2>5, <3>1 DEF Sourced, Rx!Empty, SlotOf
    <3>3. slot'[GroupSize] = Rx!Empty
      BY <1>4, <2>4, <2>8, <3>1, Sizes DEF WindowInv
    <3>4. pkt.seq < head + GroupSize
      BY <1>4, <2>2, <2>8, Sizes
    <3>5. \A q \in inTime : q.era = e /\ q.seq >= head =>
            q.seq < head + GroupSize /\ filled[q.seq - head] = SlotOf(q)
      BY <1>6, <2>4, <2>6, <3>4
    <3>6. WindowInv(e)'
      BY <1>1, <1>4, <2>1, <3>1, <3>2, <3>3, <3>5 DEF WindowInv, SlotOf
    <3> QED
      BY <1>1, <1>2, <1>3, <1>4, <2>1, <3>1, <3>6, QuietKeepsRunning
  <2> QED
    BY <2>7, <2>8
<1> QED
  BY <1>7, <1>9, <1>10 DEF Rx!FecStep

-----------------------------------------------------------------------------
(* A packet arrives. *)

(* A packet behind the head is of a group that is over. *)
LEMMA BehindIsOver ==
    ASSUME SenderInv, NEW e, HeadInv(e), WindowInv(e),
           NEW p \in sent, p.era = e, p.seq < head
    PROVE  IsOver(GroupOf(p))
<1>1. PICK q \in inTime : q.era = e /\ (q.seq >= head \/ (q.parity /\ q.seq = head - 1))
  BY DEF HeadInv
<1>2. /\ q \in sent /\ q.seq \in Nat /\ p.seq \in Nat
      /\ q.parity => q.seq % (GroupSize + 1) = GroupSize
  BY <1>1, SentIs DEF WindowInv
<1>3. head \in Nat /\ head % (GroupSize + 1) = 0
  BY DEF HeadInv
<1>4. GroupOf(p) = <<e, p.seq \div (GroupSize + 1)>> /\ GroupOf(q) = <<e, q.seq \div (GroupSize + 1)>>
  BY <1>1 DEF GroupOf
<1> DEFINE a == p.seq \div (GroupSize + 1)
           b == q.seq \div (GroupSize + 1)
           c == head \div (GroupSize + 1)
<1>5. a \in Int /\ b \in Int /\ c \in Int
  <2>1. \A n \in Nat : n \div (GroupSize + 1) \in Int
    <3>1. GroupSize + 1 \in Nat \ {0}
      BY Sizes
    <3> QED
      BY <3>1, RemainderBounds
  <2> QED
    BY <1>2, <1>3, <2>1
<1>6. CASE q.seq >= head
  <2>1. a < c /\ c <= b
    BY <1>2, <1>3, <1>6, GroupsApart
  <2>2. b > a
    <3> HIDE DEF a, b, c
    <3> QED
      BY <1>5, <2>1
  <2> QED
    BY <1>1, <1>4, <2>2 DEF IsOver, Later
<1>7. CASE q.parity /\ q.seq = head - 1
  <2> DEFINE h == q.seq - (q.seq % (GroupSize + 1))
             d == h \div (GroupSize + 1)
  <2>1. h \in Nat /\ h % (GroupSize + 1) = 0 /\ h = q.seq - GroupSize
    BY <1>2, <1>3, <1>7, GroupsApart
  <2> HIDE DEF h
  <2>2. q.seq = h + GroupSize /\ GroupSize \in 0..GroupSize
    BY <1>2, <2>1, Sizes
  <2>3. b = d
    BY <2>1, <2>2, SlotOffset
  <2>4. CASE p.seq < h
    <3>1. a < d
      BY <1>2, <2>1, <2>4, GroupsApart
    <3>2. b > a
      <4> HIDE DEF a, b, d
      <4> QED
        BY <1>5, <2>3, <3>1
    <3> QED
      BY <1>1, <1>4, <3>2 DEF IsOver, Later
  <2>5. CASE h <= p.seq
    <3>1. p.seq - h \in 0..GroupSize /\ p.seq = h + (p.seq - h)
      BY <1>2, <1>3, <1>7, <2>1, <2>2, <2>5, Sizes
    <3>2. a = d
      BY <2>1, <3>1, SlotOffset
    <3> QED
      BY <1>1, <1>4, <1>7, <2>3, <3>2 DEF IsOver
  <2> QED
    BY <1>2, <2>1, <2>4, <2>5
<1> QED
  BY <1>1, <1>6, <1>7

(* A packet at or after the head is of a group that is not. *)
LEMMA AheadNotOver ==
    ASSUME SenderInv, HeadInv(era), WindowInv(era), pkt = NoPacket,
           NEW p \in sent, p.era = era, p.seq >= head
    PROVE  ~ IsOver(GroupOf(p))
<1> SUFFICES ASSUME NEW q \in inTime,
                    Later(GroupOf(q), GroupOf(p)) \/ (q.parity /\ GroupOf(q) = GroupOf(p))
             PROVE  FALSE
  BY DEF IsOver
<1> DEFINE a == p.seq \div (GroupSize + 1)
           b == q.seq \div (GroupSize + 1)
           c == head \div (GroupSize + 1)
<1>1. /\ q \in sent /\ q.seq \in Nat /\ p.seq \in Nat /\ q # NoPacket /\ q.era \in Nat
      /\ q.era <= era /\ era \in Nat
      /\ q.parity => q.seq % (GroupSize + 1) = GroupSize
  BY SentIs DEF WindowInv
<1>2. head \in Nat /\ head % (GroupSize + 1) = 0
  BY DEF HeadInv
<1>3. a \in Int /\ b \in Int /\ c \in Int
  <2>1. \A n \in Nat : n \div (GroupSize + 1) \in Int
    <3>1. GroupSize + 1 \in Nat \ {0}
      BY Sizes
    <3> QED
      BY <3>1, RemainderBounds
  <2> QED
    BY <1>1, <1>2, <2>1
<1>4. GroupOf(p) = <<era, a>> /\ GroupOf(q) = <<q.era, b>>
  BY DEF GroupOf
<1>5. c <= a
  BY <1>1, <1>2, GroupsApart
<1>6. q.era = era /\ (b > a \/ (q.parity /\ b = a))
  BY <1>1, <1>4 DEF Later
<1>7. q.seq >= head
  <2> SUFFICES ASSUME q.seq < head PROVE FALSE
    BY <1>1, <1>2
  <2>1. b < c
    BY <1>1, <1>2, GroupsApart
  <2> HIDE DEF a, b, c
  <2> QED
    BY <1>3, <1>5, <1>6, <2>1
<1>8. q.seq < head + GroupSize
  BY <1>1, <1>6, <1>7 DEF WindowInv
<1> DEFINE j == q.seq - head
<1>9. j \in 0..GroupSize /\ j # GroupSize /\ q.seq = head + j
  BY <1>1, <1>2, <1>7, <1>8, Sizes
<1> HIDE DEF j
<1>10. q.seq % (GroupSize + 1) = j /\ b = c
  BY <1>2, <1>9, SlotOffset
<1>11. ~ q.parity
  BY <1>1, <1>9, <1>10
<1> HIDE DEF a, b, c
<1> QED
  BY <1>3, <1>5, <1>6, <1>10, <1>11

(* The group of a packet, and the number the restart test computes. *)
LEMMA NoPacketWraps ==
    ASSUME SenderInv, Roomy, NEW p \in sent
    PROVE  /\ Rx!GroupFirst(p.seq) \in Nat /\ Rx!GroupFirst(p.seq) % (GroupSize + 1) = 0
           /\ Rx!GroupFirst(p.seq) <= p.seq /\ Rx!GroupFirst(p.seq) <= 2 * max.chunks
           /\ Rx!PlusSeq(p.seq, 4 * Rx!WindowSize) = p.seq + 4 * (GroupSize + 1)
<1>1. /\ p.seq \in Nat /\ p.seq < 2 * max.chunks
      /\ max.chunks \in Nat /\ 2 * max.chunks + 4 * (GroupSize + 1) < SeqSpace
  BY RoomLeft, SentIs
<1>2. p.seq + 4 * (GroupSize + 1) \in Nat /\ p.seq + 4 * (GroupSize + 1) < SeqSpace
  BY <1>1, Sizes
<1>3. Rx!PlusSeq(p.seq, 4 * Rx!WindowSize) = p.seq + 4 * (GroupSize + 1)
  BY <1>2, NoWrapMod DEF Rx!PlusSeq, Rx!WindowSize
<1>4. Rx!GroupFirst(p.seq) = p.seq - (p.seq % (GroupSize + 1))
  BY DEF Rx!GroupFirst, Rx!WindowSize
<1>5. /\ Rx!GroupFirst(p.seq) \in Nat /\ Rx!GroupFirst(p.seq) <= p.seq
      /\ Rx!GroupFirst(p.seq) % (GroupSize + 1) = 0
  <2>1. 0 \in Nat /\ 0 % (GroupSize + 1) = 0
    BY Sizes
  <2> QED
    BY <1>1, <1>4, <2>1, GroupsApart
<1> QED
  BY <1>1, <1>3, <1>5

(* The first packet. *)
LEMMA FirstKeepsFec ==
    ASSUME SenderInv, Roomy, NotStarted, UNCHANGED <<max, era, sent>>,
           NEW p \in sent, p.era = era, Rx!Process(p),
           inTime' = IF IsOver(GroupOf(p)) THEN inTime ELSE inTime \cup {p}
    PROVE  Running(era)'
<1> DEFINE g == Rx!GroupFirst(p.seq)
<1>1. /\ g \in Nat /\ g % (GroupSize + 1) = 0 /\ g <= p.seq /\ g <= 2 * max.chunks
      /\ Rx!PlusSeq(p.seq, 4 * Rx!WindowSize) = p.seq + 4 * (GroupSize + 1)
  BY NoPacketWraps
<1>2. p.seq \in Nat /\ p.ns = 1 /\ p # NoPacket /\ era \in Nat /\ max.chunks \in Nat
  BY SentIs, RoomLeft
<1>3. started = FALSE /\ expected = 0 /\ inTime = {} /\ out = << >>
  BY DEF NotStarted
<1>4. Rx!HeadFor(p) = g /\ Rx!CurrentWindow = Rx!EmptyWindow
  BY <1>3 DEF Rx!HeadFor, Rx!CurrentWindow
<1>5. inTime' = {p}
  BY <1>3 DEF IsOver
<1> HIDE DEF g
<1>6. ~ Rx!FarBehind(p) /\ ~ Rx!Behind(p)
  BY <1>1, <1>2, <1>4, Sizes DEF Rx!FarBehind, Rx!Behind
<1>7. /\ head' = g /\ slot' = Rx!EmptyWindow /\ started' = TRUE /\ pkt' = p
      /\ expected' = 1 /\ out' = << >>
  BY <1>2, <1>3, <1>4, <1>6
     DEF Rx!Process, Rx!ProcessRestart, Rx!ProcessLate, Rx!ProcessNext, Rx!Expect
<1>8. HeadInv(era)'
  BY <1>1, <1>2, <1>5, <1>7 DEF HeadInv
<1>9. WindowInv(era)'
  <2>1. Sourced(era, g, Rx!EmptyWindow) /\ Rx!EmptyWindow[GroupSize] = Rx!Empty
    BY EmptySourced
  <2>2. Sourced(era, head, slot)' /\ (slot[GroupSize] = Rx!Empty)'
    BY <1>7, <2>1, EmptySourced DEF Sourced, SlotOf
  <2> QED
    BY <1>1, <1>2, <1>5, <1>7, <2>2 DEF WindowInv
<1>10. OutInv(era)'
  <2>1. era * Budget \in Nat /\ Budget' = Budget
    BY <1>2, BudgetType DEF Budget
  <2>2. out' \in Seq(EmissionType) /\ Len(out') = 0 /\ DOMAIN out' = {}
    BY <1>7, EmptySeq
  <2>3. 0 <= era * Budget + g
    <3> DEFINE b == era * Budget
    <3>1. b \in Nat
      BY <2>1
    <3> HIDE DEF b
    <3>2. 0 <= b + g
      BY <1>1, <3>1
    <3> QED
      BY <3>2 DEF b
  <2>4. EmittedInOrder'
    BY <2>2 DEF EmittedInOrder
  <2>5. \A i \in 1..Len(out') : FALSE
    BY <2>2
  <2> QED
    BY <1>7, <2>1, <2>2, <2>3, <2>4, <2>5 DEF OutInv
<1>11. RecoveredInv(era)'
  <2> SUFFICES ASSUME NEW f \in Nat, NEW s \in Nat, Passed(era, f, s)', s % (GroupSize + 1) = 0,
                      Repairable(f, s, inTime)'
               PROVE  FALSE
    BY DEF RecoveredInv
  <2>1. Repairable(f, s, {p})
    BY <1>5 DEF Repairable, GroupAt
  <2>2. p \in GroupAt(f, s)
    BY <2>1, SomeArrived
  <2>3. p.era = f /\ p.seq \in s..s + GroupSize
    BY <2>2 DEF GroupAt
  <2>4. s < g
    BY <1>2, <1>7, <2>3 DEF Passed
  <2>5. s + GroupSize + 1 <= g
    BY <1>1, <2>4, HeadsApart
  <2> QED
    BY <1>1, <1>2, <2>3, <2>5, Sizes
<1> QED
  BY <1>2, <1>7, <1>8, <1>9, <1>10, <1>11 DEF Running

(* The first packet of a restarted sender finishes the window of the       *)
(* incarnation before it.                                                  *)
LEMMA RestartKeepsFec ==
    ASSUME SenderInv, Roomy, NEW e \in Nat, e < era, Running(e), pkt = NoPacket,
           UNCHANGED <<max, era, sent>>,
           NEW p \in sent, p.era = era, Rx!ProcessRestart(p), inTime' = inTime \cup {p}
    PROVE  Running(era)'
<1> DEFINE g == Rx!GroupFirst(p.seq)
<1>1. g \in Nat /\ g % (GroupSize + 1) = 0 /\ g <= p.seq /\ g <= 2 * max.chunks
  BY NoPacketWraps
<1>2. p.seq \in Nat /\ p # NoPacket /\ era \in Nat
  BY SentIs, RoomLeft
<1>3. /\ started = TRUE /\ expected = 1 /\ e <= era
      /\ HeadInv(e) /\ WindowInv(e) /\ OutInv(e) /\ (KeepsHistory => RecoveredInv(e))
  BY DEF Running
<1>4. /\ out' = Rx!Log(Rx!Emissions(head, Rx!Recover(slot)))
      /\ head' = g /\ slot' = Rx!EmptyWindow /\ started' = TRUE /\ pkt' = p /\ expected' = 1
  BY <1>3 DEF Rx!ProcessRestart, Rx!HeadFor, Rx!CurrentWindow, Rx!Expect
<1> HIDE DEF g
<1>5. /\ Sourced(e, head, slot) /\ inTime \subseteq sent
      /\ \A q \in inTime : q.era <= e /\ q.era \in Nat /\ q.seq \in Nat
      /\ \A q \in inTime : q.era = e /\ q.seq >= head =>
            q.seq < head + GroupSize /\ slot[q.seq - head] = SlotOf(q)
  BY <1>3, SentIs DEF WindowInv
<1>6. head \in Nat
  BY <1>3 DEF HeadInv
<1>7. Complete(e, head, slot)
  BY <1>5, <1>6, Sizes DEF Complete
<1>8. HeadInv(era)'
  BY <1>1, <1>2, <1>4 DEF HeadInv
<1>9. WindowInv(era)'
  <2>1. Sourced(era, g, Rx!EmptyWindow) /\ Rx!EmptyWindow[GroupSize] = Rx!Empty
    BY EmptySourced
  <2>2. Sourced(era, head, slot)' /\ (slot[GroupSize] = Rx!Empty)'
    BY <1>4, <2>1, EmptySourced DEF Sourced, SlotOf
  <2>3. \A q \in inTime : q.era < era
    BY <1>2, <1>5
  <2> QED
    BY <1>1, <1>2, <1>4, <1>5, <2>2, <2>3 DEF WindowInv
<1>10. OutInv(era)'
  BY <1>1, <1>2, <1>3, <1>4, <1>5, OutGrows
<1>11. ASSUME KeepsHistory
       PROVE  RecoveredInv(era)'
  <2>1. \A q \in inTime : q.era <= e /\ (q.era = e => q.seq < head + GroupSize + 1)
    BY <1>5, <1>6, Sizes
  <2>2. \E x \in sent : x.era = era /\ head' <= x.seq /\ inTime' = inTime \cup {x}
    BY <1>1, <1>4
  <2>3. head' \in Nat /\ head' % (GroupSize + 1) = 0
    BY <1>1, <1>4
  <2> QED
    BY <1>2, <1>3, <1>4, <1>5, <1>7, <1>11, <2>1, <2>2, <2>3, RecoveredGrows
<1> QED
  BY <1>2, <1>4, <1>8, <1>9, <1>10, <1>11 DEF Running, KeepsHistory

(* A packet of the window's incarnation, at the head or after it. *)
LEMMA NextKeepsFec ==
    ASSUME SenderInv, Roomy, era \in Nat, Running(era), pkt = NoPacket,
           UNCHANGED <<max, era, sent, head, slot, out>>, started' = TRUE, expected' = 1,
           NEW p \in sent, p.era = era, p.seq >= head, pkt' = p, inTime' = inTime \cup {p}
    PROVE  Running(era)'
<1>1. HeadInv(era) /\ WindowInv(era) /\ OutInv(era) /\ (KeepsHistory => RecoveredInv(era))
  BY DEF Running
<1>2. p.seq \in Nat /\ p # NoPacket /\ head \in Nat
  BY <1>1, SentIs DEF HeadInv
<1>3. HeadInv(era)'
  BY <1>1 DEF HeadInv
<1>4. WindowInv(era)'
  <2>1. Sourced(era, head, slot)' /\ Rx!Empty' = Rx!Empty
    BY <1>1 DEF WindowInv, Sourced, Rx!Empty, SlotOf
  <2>2. \A q \in inTime : q # NoPacket
    BY <1>1, SentIs DEF WindowInv
  <2> QED
    BY <1>1, <2>1, <2>2 DEF WindowInv, SlotOf
<1>5. OutInv(era)'
  <2>1. Budget' = Budget
    BY DEF Budget
  <2>2. EmittedInOrder'
    BY <1>1 DEF OutInv, EmittedInOrder, ChunkAt
  <2>3. \A o : EmittedFrom(era, head, o) => EmittedFrom(era, head, o)'
    BY DEF EmittedFrom
  <2> QED
    BY <1>1, <2>1, <2>2, <2>3 DEF OutInv
<1>6. ASSUME KeepsHistory
      PROVE  RecoveredInv(era)'
  <2>1. ASSUME NEW f \in Nat, NEW s \in Nat, Passed(era, f, s), s % (GroupSize + 1) = 0,
               Repairable(f, s, inTime)'
        PROVE  Repairable(f, s, inTime) /\ GroupAt(f, s)' = GroupAt(f, s)
    <3>1. GroupAt(f, s)' = GroupAt(f, s)
      BY DEF GroupAt
    <3>2. f < era \/ (f = era /\ s + GroupSize + 1 <= head)
      BY <1>1, <2>1, PassedBefore
    <3>3. p \notin GroupAt(f, s)
      <4> SUFFICES ASSUME p.era = f, p.seq \in s..s + GroupSize PROVE FALSE
        BY DEF GroupAt
      <4> QED
        BY <1>2, <3>2, Sizes
    <3>4. GroupAt(f, s) \ inTime' = GroupAt(f, s) \ inTime
      BY <3>3
    <3> QED
      BY <2>1, <3>1, <3>4 DEF Repairable
  <2>2. UNCHANGED <<out, head>>
    OBVIOUS
  <2>3. \A f, s \in Nat :
            Passed(era, f, s) /\ s % (GroupSize + 1) = 0 /\ Repairable(f, s, inTime)' =>
                Repairable(f, s, inTime) /\ GroupAt(f, s)' = GroupAt(f, s)
    BY <2>1
  <2>4. RecoveredInv(era)
    BY <1>1, <1>6
  <2> HIDE DEF RecoveredInv
  <2>5. ASSUME NEW e \in Nat, e = era
        PROVE  RecoveredInv(e)'
    BY <2>2, <2>3, <2>4, <2>5, RecoveredFrame
  <2> QED
    BY <2>5
<1> QED
  BY <1>3, <1>4, <1>5, <1>6 DEF Running, KeepsHistory

(* fec_rx_process is called with a packet of the present incarnation.      *)
LEMMA ReceiveKeepsFec ==
    ASSUME StreamInv, Roomy, FecInv, TellsRestarts, Receive
    PROVE  FecInv'
<1>1. PICK i \in Arriving :
            /\ Arrive(i) /\ Rx!Process(net[i])
            /\ inTime' = IF IsOver(GroupOf(net[i])) THEN inTime ELSE inTime \cup {net[i]}
  BY DEF Receive
<1> DEFINE p == net[i]
<1>2. p \in sent /\ p.era = era /\ UNCHANGED <<max, era, sent>> /\ SenderInv
  BY <1>1, ArriveKeepsInv DEF senderVars, StreamInv
<1>3. era \in Nat /\ p.seq \in Nat /\ p.ns = 1 /\ p # NoPacket /\ pkt = NoPacket
  BY <1>1, <1>2, RoomLeft, SentIs DEF Rx!Process
<1>4. Rx!Process(p) /\ (inTime' = IF IsOver(GroupOf(p)) THEN inTime ELSE inTime \cup {p})
  BY <1>1
<1>5. started => (Rx!FarBehind(p) <=> ~ \E q \in inTime : q.era = era)
  BY <1>1, <1>3 DEF TellsRestarts
<1> HIDE DEF p
<1>6. CASE NotStarted
  <2>1. Running(era)'
    BY <1>2, <1>4, <1>6, FirstKeepsFec
  <2> QED
    BY <1>2, <1>3, <2>1 DEF FecInv
<1>7. ASSUME NEW e \in 0..era, Running(e)
      PROVE  FecInv'
  <2>1. e \in Nat /\ e <= era /\ started = TRUE /\ expected = 1 /\ HeadInv(e) /\ WindowInv(e)
    BY <1>3, <1>7 DEF Running
  <2>2. Rx!HeadFor(p) = head /\ Rx!CurrentWindow = slot
    BY <2>1 DEF Rx!HeadFor, Rx!CurrentWindow
  <2>3. Rx!Behind(p) <=> p.seq < head
    BY <2>2 DEF Rx!Behind
  <2>4. \A q \in inTime : q.era <= e /\ q.era \in Nat
    BY <1>2, <2>1, SentIs DEF WindowInv
  <2>5. CASE Rx!FarBehind(p)
    <3>1. \A q \in inTime : q.era # era
      BY <1>5, <2>1, <2>5
    <3>2. e < era
      <4>1. \E q \in inTime : q.era = e
        BY <2>1 DEF HeadInv
      <4> QED
        BY <1>3, <2>1, <3>1, <4>1
    <3>3. ~ IsOver(GroupOf(p))
      <4> SUFFICES ASSUME NEW q \in inTime,
                          Later(GroupOf(q), GroupOf(p)) \/ GroupOf(q) = GroupOf(p)
                   PROVE  FALSE
        BY DEF IsOver
      <4>1. q.era >= era
        BY <1>2, <1>3, <2>4 DEF Later, GroupOf
      <4> QED
        BY <1>3, <2>1, <2>4, <3>2, <4>1
    <3>4. Rx!ProcessRestart(p)
      BY <1>4, <2>5 DEF Rx!Process, Rx!ProcessLate, Rx!ProcessNext
    <3>5. Running(era)'
      BY <1>2, <1>3, <1>4, <1>7, <2>1, <3>2, <3>3, <3>4, RestartKeepsFec
    <3> QED
      BY <1>2, <1>3, <3>5 DEF FecInv
  <2>6. CASE ~ Rx!FarBehind(p)
    <3>1. e = era
      <4>1. \E q \in inTime : q.era = era
        BY <1>5, <2>1, <2>6
      <4> QED
        BY <1>3, <2>1, <2>4, <4>1
    <3>2. Running(era) /\ HeadInv(era) /\ WindowInv(era)
      BY <1>7, <2>1, <3>1
    <3>3. CASE Rx!Behind(p)
      <4>1. IsOver(GroupOf(p))
        BY <1>2, <2>3, <3>2, <3>3, BehindIsOver
      <4>2. UNCHANGED <<started, head, slot, pkt, out>> /\ expected' = expected
        <5>1. Rx!ProcessLate(p)
          BY <1>4, <2>6, <3>3 DEF Rx!Process, Rx!ProcessRestart, Rx!ProcessNext
        <5> QED
          BY <2>1, <5>1 DEF Rx!ProcessLate, Rx!Expect
      <4>3. inTime' = inTime
        BY <1>4, <4>1
      <4>4. WindowInv(e)'
        <5>1. Sourced(e, head, slot)' /\ Rx!Empty' = Rx!Empty
          BY <1>2, <2>1, <4>2 DEF WindowInv, Sourced, Rx!Empty, SlotOf
        <5> QED
          BY <1>2, <2>1, <4>2, <4>3, <5>1 DEF WindowInv, SlotOf
      <4>5. Running(e)'
        BY <1>2, <1>7, <2>1, <4>2, <4>3, <4>4, QuietKeepsRunning
      <4> QED
        BY <1>2, <1>3, <2>1, <4>5 DEF FecInv
    <3>4. CASE ~ Rx!Behind(p)
      <4>1. p.seq >= head
        <5>1. head \in Nat
          BY <2>1 DEF HeadInv
        <5> QED
          BY <1>3, <2>3, <3>4, <5>1
      <4>2. ~ IsOver(GroupOf(p))
        BY <1>2, <1>3, <3>2, <4>1, AheadNotOver
      <4>3. UNCHANGED <<head, slot, out>> /\ started' = TRUE /\ pkt' = p /\ expected' = 1
        <5>1. Rx!ProcessNext(p)
          BY <1>4, <2>6, <3>4 DEF Rx!Process, Rx!ProcessRestart, Rx!ProcessLate
        <5> QED
          BY <2>1, <2>2, <5>1 DEF Rx!ProcessNext, Rx!Expect
      <4>4. Running(era)'
        BY <1>2, <1>3, <1>4, <3>2, <4>1, <4>2, <4>3, NextKeepsFec
      <4> QED
        BY <1>2, <1>3, <4>4 DEF FecInv
    <3> QED
      BY <3>3, <3>4
  <2> QED
    BY <2>5, <2>6
<1> QED
  BY <1>6, <1>7 DEF FecInv

(* A step that changes nothing. *)
LEMMA StutterKeepsFec ==
    ASSUME FecInv, UNCHANGED vars
    PROVE  FecInv'
<1>1. UNCHANGED <<max, era, sent, inTime, started, expected, head, out, pkt, slot>>
  BY DEF vars, streamVars, senderVars, netVars
<1>2. CASE NotStarted
  BY <1>1, <1>2 DEF FecInv, NotStarted, Rx!EmptyWindow, Rx!Empty
<1>3. ASSUME NEW e \in 0..era, Running(e)
      PROVE  FecInv'
  <2>1. e \in Nat /\ WindowInv(e)
    BY <1>3 DEF Running
  <2>2. Sourced(e, head, slot)' /\ Rx!Empty' = Rx!Empty
    BY <1>1, <2>1 DEF WindowInv, Sourced, Rx!Empty, SlotOf
  <2>3. WindowInv(e)'
    BY <1>1, <2>1, <2>2 DEF WindowInv, SlotOf
  <2>4. Running(e)'
    BY <1>1, <1>3, <2>1, <2>3, QuietKeepsRunning
  <2> QED
    BY <1>1, <2>4 DEF FecInv
<1> QED
  BY <1>2, <1>3 DEF FecInv

(* The window is that of an incarnation whose packets have arrived, its    *)
(* head the first number of a group all earlier groups of which are over;  *)
(* what arrived in time is in its slot; what was emitted came from before  *)
(* the head, in order.                                                     *)
THEOREM FecInvariant ==
    ASSUME Roomy
    PROVE  Spec /\ []TellsRestarts => [](StreamInv /\ FecInv)
<1>1. Init => FecInv
  BY DEF Init, Rx!FecInit, FecInv, NotStarted
<1>2. StreamInv /\ FecInv /\ TellsRestarts /\ [Next]_vars => FecInv'
  <2> SUFFICES ASSUME StreamInv, FecInv, TellsRestarts, [Next]_vars
               PROVE  FecInv'
    OBVIOUS
  <2>1. SenderInv
    BY DEF StreamInv
  <2>2. CASE StreamStep /\ UNCHANGED <<started, head, slot, expected, pkt, out, inTime>>
    BY <2>2, StreamKeepsFec
  <2>3. CASE Receive
    BY <2>3, ReceiveKeepsFec
  <2>4. CASE Rx!FecStep /\ UNCHANGED <<streamVars, inTime>>
    BY <2>1, <2>4, FecStepKeepsFec
  <2>5. CASE UNCHANGED vars
    BY <2>5, StutterKeepsFec
  <2> QED
    BY <2>2, <2>3, <2>4, <2>5 DEF Next
<1>3. NoWrap
  <2>1. \A s \in Scenarios : s.chunks \in Nat
    BY ScenarioType
  <2> QED
    BY <2>1, Sizes DEF Roomy, NoWrap
<1>4. Spec => []StreamInv
  BY <1>3, StreamAlways
<1> QED
  BY <1>1, <1>2, <1>4, PTL DEF Spec

-----------------------------------------------------------------------------
(* What follows for every state of a run. *)

(* TypeOK of FecLink: no number of the sender or the receiver reaches the  *)
(* wrap, and the window keeps its shape.                                   *)
THEOREM FecTypeCorrect ==
    ASSUME Roomy
    PROVE  Spec /\ []TellsRestarts => []TypeOK
<1>1. StreamInv /\ FecInv => TypeOK
  <2> SUFFICES ASSUME StreamInv, FecInv
               PROVE  TypeOK
    OBVIOUS
  <2>1. /\ sequence \in Nat /\ timestamp \in 0..max.chunks /\ sequence <= 2 * timestamp
        /\ inGroup \in Nat /\ inGroup < GroupSize /\ SenderInv
    BY Sizes DEF StreamInv, SenderInv, Counters
  <2>2. max.chunks \in Nat /\ 2 * max.chunks + 4 * (GroupSize + 1) < SeqSpace
    BY <2>1, RoomLeft
  <2>3. sequence \in 0..SeqSpace - 1 /\ inGroup \in 0..GroupSize - 1
    BY <2>1, <2>2, Sizes
  <2>4. CASE NotStarted
    <3>1. head \in 0..SeqSpace - 1
      BY <2>4, Sizes DEF NotStarted
    <3>2. DOMAIN slot = 0..GroupSize /\ \A i \in 0..GroupSize : slot[i].kind = "empty"
      BY <2>4 DEF NotStarted, Rx!EmptyWindow, Rx!Empty
    <3>3. pkt = NoPacket /\ DOMAIN out = {}
      BY <2>4 DEF NotStarted
    <3> QED
      BY <2>1, <2>3, <3>1, <3>2, <3>3 DEF TypeOK
  <2>5. ASSUME NEW e \in 0..era, Running(e)
        PROVE  TypeOK
    <3>1. HeadInv(e) /\ WindowInv(e) /\ OutInv(e)
      BY <2>5 DEF Running
    <3>2. head \in 0..SeqSpace - 1
      <4>1. head \in Nat /\ head <= 2 * max.chunks
        BY <3>1 DEF HeadInv
      <4> QED
        BY <2>2, <4>1, Sizes
    <3>3. DOMAIN slot = 0..GroupSize
      BY <3>1 DEF WindowInv, Sourced
    <3>4. ASSUME NEW i \in 0..GroupSize
          PROVE  slot[i].kind \in {"empty", "data", "parity"}
      <4>1. slot[i] = Rx!Empty \/ \E p \in sent : slot[i] = SlotOf(p)
        BY <3>1 DEF WindowInv, Sourced
      <4>2. CASE slot[i] = Rx!Empty
        BY <4>2 DEF Rx!Empty
      <4>3. ASSUME NEW p \in sent, slot[i] = SlotOf(p)
            PROVE  slot[i].kind \in {"data", "parity"}
        BY <4>3 DEF SlotOf
      <4> QED
        BY <4>1, <4>2, <4>3
    <3>5. pkt \in sent \cup {NoPacket}
      BY <3>1 DEF WindowInv
    <3>6. \A i \in DOMAIN out : out[i].seq \in 0..SeqSpace - 1
      <4>1. out \in Seq(EmissionType)
        BY <3>1 DEF OutInv
      <4>2. \A i \in DOMAIN out : out[i] \in EmissionType
        BY <4>1, ElementOfSeq, LenProperties
      <4> QED
        BY <4>2 DEF EmissionType
    <3> QED
      BY <2>1, <2>3, <3>2, <3>3, <3>4, <3>5, <3>6 DEF TypeOK
  <2> QED
    BY <2>4, <2>5 DEF FecInv
<1> QED
  BY <1>1, FecInvariant, PTL

(* EmittedWasSent of FecLink: emit_head_slot is given, for data received   *)
(* or rebuilt by try_recover_group, what the sender put in that number.    *)
THEOREM FecEmittedWasSent ==
    ASSUME Roomy
    PROVE  Spec /\ []TellsRestarts => []EmittedWasSent
<1>1. FecInv => EmittedWasSent
  <2> SUFFICES ASSUME FecInv, NEW i \in DOMAIN out, out[i].pl # Lost
               PROVE  \E d \in sent : ~ d.parity /\ d.seq = out[i].seq /\ d.pl = out[i].pl
    BY DEF EmittedWasSent
  <2>1. PICK e \in 0..era : Running(e)
    BY DEF FecInv, NotStarted
  <2>2. OutInv(e)
    BY <2>1 DEF Running
  <2>3. i \in 1..Len(out)
    BY <2>2, LenProperties DEF OutInv
  <2> QED
    BY <2>2, <2>3 DEF OutInv, EmittedFrom
<1> QED
  BY <1>1, FecInvariant, PTL

(* EmittedInOrder of FecLink: under loss, copies, overtaking and restarts  *)
(* the receiver plays chunks in the order they were sampled, none twice.   *)
THEOREM FecEmittedInOrder ==
    ASSUME Roomy
    PROVE  Spec /\ []TellsRestarts => []EmittedInOrder
<1>1. FecInv => EmittedInOrder
  <2>1. NotStarted => EmittedInOrder
    BY DEF NotStarted, EmittedInOrder
  <2>2. \A e : Running(e) => EmittedInOrder
    BY DEF Running, OutInv
  <2> QED
    BY <2>1, <2>2 DEF FecInv
<1> QED
  BY <1>1, FecInvariant, PTL

(* SentGroup names a group by its number, GroupAt by its first packet's. *)
LEMMA GroupIs ==
    ASSUME SenderInv, NEW p \in sent
    PROVE  \E s \in Nat : /\ s % (GroupSize + 1) = 0
                          /\ s = (p.seq \div (GroupSize + 1)) * (GroupSize + 1)
                          /\ SentGroup(GroupOf(p)) = GroupAt(p.era, s)
<1> DEFINE w == GroupSize + 1
           k == p.seq \div w
           s == p.seq - (p.seq % w)
<1>1. p.seq \in Nat /\ w \in Nat \ {0} /\ w = GroupSize + 1 /\ GroupSize \in Nat
  BY SentIs, Sizes
<1>2. k \in Nat /\ p.seq = w * k + (p.seq % w) /\ p.seq % w \in 0..w - 1
  BY <1>1, RemainderBounds
<1>3. s \in Nat /\ s % w = 0
  <2>1. 0 \in Nat /\ 0 % (GroupSize + 1) = 0
    BY Sizes
  <2> QED
    BY <1>1, <2>1, GroupsApart
<1>4. s = k * w
  <2> DEFINE r == p.seq % w
  <2>1. r \in Int /\ p.seq = w * k + r /\ w * k \in Int /\ w * k = k * w /\ s = p.seq - r
    BY <1>1, <1>2
  <2> HIDE DEF w, k, s, r
  <2> QED
    BY <1>1, <2>1
<1>5. s \div w = k
  <2>1. (w * k + 0) \div w = k
    <3>1. 0 \in 0..w - 1 /\ k \in Nat
      BY <1>1, <1>2
    <3> HIDE DEF w, k
    <3> QED
      BY <1>1, <3>1, RemainderUnique
  <2>2. w * k + 0 = s
    <3> HIDE DEF w, k, s
    <3> QED
      BY <1>1, <1>2, <1>4
  <2> QED
    BY <2>1, <2>2
<1> HIDE DEF s
<1>6. ASSUME NEW q \in sent
      PROVE  q.seq \div w = k <=> q.seq \in s..s + GroupSize
  <2>1. q.seq \in Nat
    BY SentIs
  <2>2. CASE q.seq < s
    <3>1. q.seq \div w < s \div w
      BY <1>3, <2>1, <2>2, GroupsApart
    <3>2. q.seq \div w < k
      BY <1>5, <3>1
    <3>3. q.seq \div w # k
      <4> DEFINE a == q.seq \div w
      <4>1. a < k /\ a \in Nat
        BY <1>1, <2>1, <3>2, RemainderBounds
      <4> HIDE DEF a, k
      <4>2. a # k
        BY <1>2, <4>1
      <4> QED
        BY <4>2 DEF a
    <3> QED
      BY <1>3, <2>1, <2>2, <3>3
  <2>3. CASE s + GroupSize + 1 <= q.seq
    <3>1. s \div w < q.seq \div w
      BY <1>3, <2>1, <2>3, GroupsApart
    <3>2. q.seq \div w # k
      <4> DEFINE a == q.seq \div w
      <4>1. k < a /\ a \in Nat
        BY <1>1, <1>5, <2>1, <3>1, RemainderBounds
      <4> HIDE DEF a, k
      <4>2. a # k
        BY <1>2, <4>1
      <4> QED
        BY <4>2 DEF a
    <3> QED
      BY <1>1, <1>3, <2>1, <2>3, <3>2
  <2>4. CASE s <= q.seq /\ q.seq < s + GroupSize + 1
    <3>1. q.seq - s \in 0..GroupSize /\ q.seq = s + (q.seq - s)
      BY <1>1, <1>3, <2>1, <2>4
    <3>2. q.seq \div w = s \div w
      BY <1>3, <3>1, SlotOffset
    <3> QED
      BY <1>1, <1>3, <1>5, <2>1, <2>4, <3>2
  <2> QED
    BY <1>1, <1>3, <2>1, <2>2, <2>3, <2>4
<1>7. SentGroup(GroupOf(p)) = {q \in sent : q.era = p.era /\ q.seq \div w = k}
  BY DEF SentGroup, GroupOf
<1>8. SentGroup(GroupOf(p)) = GroupAt(p.era, s)
  <2> HIDE DEF w, k
  <2> QED
    BY <1>6, <1>7 DEF GroupAt
<1> QED
  BY <1>3, <1>4, <1>8

(* OneLossRecovered counts packets; RecoveredInv names them. *)
LEMMA CountedRepairable ==
    ASSUME SenderInv, NEW f \in Nat, NEW s \in Nat, NEW arrived,
           Cardinality(GroupAt(f, s)) = GroupSize + 1,
           Cardinality(GroupAt(f, s) \ arrived) <= 1
    PROVE  Repairable(f, s, arrived)
<1> DEFINE G == GroupAt(f, s)
           numbers == s..s + GroupSize
           number == [p \in G |-> p.seq]
<1>1. IsFiniteSet(numbers) /\ Cardinality(numbers) = GroupSize + 1
  <2> DEFINE t == s + GroupSize
  <2>1. s \in Int /\ t \in Int /\ ~ (s > t) /\ t - s + 1 = GroupSize + 1
    BY Sizes
  <2> HIDE DEF t
  <2>2. IsFiniteSet(s..t) /\ Cardinality(s..t) = IF s > t THEN 0 ELSE t - s + 1
    BY <2>1, FS_Interval
  <2>3. IsFiniteSet(s..t) /\ Cardinality(s..t) = GroupSize + 1
    BY <2>1, <2>2
  <2> QED
    BY <2>3 DEF t
<1>2. number \in Injection(G, numbers)
  <2>1. number \in [G -> numbers]
    BY DEF GroupAt
  <2>2. \A p, q \in G : number[p] = number[q] => p = q
    BY DEF GroupAt, SenderInv, SentOnce
  <2> QED
    BY <2>1, <2>2 DEF Injection, IsInjective
<1>3. IsFiniteSet(G) /\ number \in Surjection(G, numbers)
  BY <1>1, <1>2, FS_Injection
<1>4. \A n \in numbers : \E p \in G : p.seq = n
  BY <1>3 DEF Surjection
<1>5. ASSUME NEW p \in G \ arrived, NEW q \in G \ arrived, p # q
      PROVE  FALSE
  <2>1. IsFiniteSet(G \ arrived)
    BY <1>3, FS_Difference
  <2>2. Cardinality({p} \cup {q}) = 2 /\ {p} \cup {q} \in SUBSET (G \ arrived)
    BY <1>5, PairSize
  <2>3. Cardinality({p} \cup {q}) <= Cardinality(G \ arrived)
    BY <2>1, <2>2, FS_Subset
  <2>4. Cardinality(G \ arrived) \in Nat
    BY <2>1, FS_CardinalityType
  <2> QED
    BY <2>2, <2>3, <2>4
<1> QED
  BY <1>4, <1>5 DEF Repairable

(* OneLossRecovered of FecLink: a group that lost no more than one packet  *)
(* to the network, or to overtaking, is emitted whole by the time its      *)
(* window is passed: try_recover_group rebuilds the missing one.           *)
THEOREM FecOneLossRecovered ==
    ASSUME Roomy, KeepsHistory
    PROVE  Spec /\ []TellsRestarts => []OneLossRecovered
<1>1. StreamInv /\ FecInv => OneLossRecovered
  <2> SUFFICES ASSUME StreamInv, FecInv, NEW p \in sent, WindowPassed(GroupOf(p)),
                      Cardinality(SentGroup(GroupOf(p))) = GroupSize + 1,
                      Cardinality(SentGroup(GroupOf(p)) \ inTime) <= 1,
                      NEW d \in SentGroup(GroupOf(p)), ~ d.parity
               PROVE  Emitted(d)
    BY DEF OneLossRecovered
  <2>1. SenderInv /\ p.era \in Nat /\ era \in Nat
    BY RoomLeft, SentIs DEF StreamInv
  <2>2. PICK s \in Nat : /\ s % (GroupSize + 1) = 0
                         /\ s = (p.seq \div (GroupSize + 1)) * (GroupSize + 1)
                         /\ SentGroup(GroupOf(p)) = GroupAt(p.era, s)
    BY <2>1, GroupIs
  <2>3. Repairable(p.era, s, inTime) /\ d \in GroupAt(p.era, s)
    BY <2>1, <2>2, CountedRepairable
  <2>4. PICK q \in GroupAt(p.era, s) : q \in inTime
    BY <2>1, <2>3, SomeArrived
  <2>5. q.era = p.era
    BY DEF GroupAt
  <2>6. PICK e \in 0..era : Running(e)
    BY <2>4 DEF FecInv, NotStarted
  <2>7. /\ RecoveredInv(e) /\ e \in Nat /\ head \in Nat
        /\ \A x \in inTime : x.era <= e /\ x.era \in Nat
    BY <2>1, <2>6, SentIs DEF Running, HeadInv, WindowInv
  <2>8. Passed(e, p.era, s)
    <3>1. GroupOf(p)[1] = p.era /\ GroupOf(p)[2] = p.seq \div (GroupSize + 1)
      BY DEF GroupOf
    <3>2. CASE \E x \in inTime : x.era > GroupOf(p)[1]
      <4>1. p.era < e
        BY <2>1, <2>7, <3>1, <3>2
      <4> QED
        BY <4>1 DEF Passed
    <3>3. CASE GroupOf(p)[1] = era /\ (GroupOf(p)[2] + 1) * (GroupSize + 1) <= head
      <4>1. p.era = e
        BY <2>1, <2>4, <2>5, <2>7, <3>1, <3>3
      <4> DEFINE k == p.seq \div (GroupSize + 1)
                 w == GroupSize + 1
      <4>2. k \in Nat /\ w \in Nat \ {0} /\ s = k * w /\ (k + 1) * w <= head
        <5>1. p.seq \in Nat /\ w \in Nat \ {0}
          BY <2>1, SentIs, Sizes
        <5>2. k \in Nat
          BY <5>1, RemainderBounds
        <5> QED
          BY <2>2, <3>1, <3>3, <5>1, <5>2
      <4> HIDE DEF k, w
      <4>3. (k + 1) * w = k * w + w /\ k * w \in Nat
        BY <4>2
      <4>4. s < head
        BY <2>7, <4>2, <4>3
      <4> QED
        BY <4>1, <4>4 DEF Passed
    <3> QED
      BY <3>2, <3>3 DEF WindowPassed
  <2> QED
    BY <2>1, <2>2, <2>3, <2>7, <2>8 DEF RecoveredInv
<1> QED
  BY <1>1, FecInvariant, PTL

-----------------------------------------------------------------------------
(* A network that loses and copies packets but keeps their order: there    *)
(* the test for a restart is never wrong, once a sender has got far enough *)
(* ahead of number 0 before it is restarted.                               *)

InOrder ==
    \A s \in Scenarios :
        s.overtake = 0 /\ (s.eras > 0 => s.lost + 5 * (GroupSize + 1) <= s.restartFrom)

(* What is in flight comes after what has arrived; every packet is in      *)
(* flight, lost or arrived; and a sender is restarted late.                *)
OrderInv ==
    /\ IsFiniteSet(dropped) /\ Cardinality(dropped) <= max.lost
    /\ Ascending(net)
    /\ \A p \in sent : p \in inTime \/ p \in dropped \/ Holds(net, p)
    /\ \A q \in inTime : \A p \in sent : q.era = era /\ Holds(net, p) => q.seq <= p.seq
    /\ \A f, n \in Nat : f < era /\ n < max.restartFrom => \E p \in sent : p.era = f /\ p.seq = n

(* What arrived in time was sent. *)
LEMMA ArrivedWasSent ==
    ASSUME FecInv
    PROVE  inTime \subseteq sent
BY DEF FecInv, NotStarted, Running, WindowInv

(* Before the first packet nothing is out of order. *)
LEMMA OrderInit ==
    ASSUME Init
    PROVE  OrderInv
<1>1. sent = {} /\ inTime = {} /\ dropped = {} /\ net = << >> /\ era = 0 /\ max.lost \in Nat
  BY MoreScenarioType DEF Init, StreamInit, SenderInit
<1>2. Len(net) = 0
  BY <1>1
<1>3. Ascending(net) /\ \A p : ~ Holds(net, p)
  BY <1>2 DEF Ascending, Holds
<1>4. IsFiniteSet(dropped) /\ Cardinality(dropped) <= max.lost
  BY <1>1, FS_EmptySet
<1> QED
  BY <1>1, <1>3, <1>4 DEF OrderInv

(* A packet sent comes after all others in flight. *)
LEMMA SendKeepsOrder ==
    ASSUME StreamInv, NoWrap, FecInv, OrderInv, Send, UNCHANGED inTime
    PROVE  OrderInv'
<1>1. Ascending(net) /\ IsFiniteSet(dropped)
  BY DEF OrderInv
<1>2. /\ Ascending(net') /\ UNCHANGED <<era, max>>
      /\ sent \subseteq sent' /\ dropped \subseteq dropped'
      /\ IsFiniteSet(dropped') /\ Cardinality(dropped') <= max.lost
      /\ \A p \in sent' \ sent : p.era = era /\ p.seq \in Nat /\ sequence <= p.seq
      /\ \A p : Holds(net', p) <=> Holds(net, p) \/ p \in (sent' \ sent) \ dropped'
  BY <1>1, SendAppends
<1>3. \A p \in sent' : p \in inTime \/ p \in dropped' \/ Holds(net', p)
  BY <1>2 DEF OrderInv
<1>4. ASSUME NEW q \in inTime, NEW p \in sent', q.era = era, Holds(net', p)
      PROVE  q.seq <= p.seq
  <2>1. q.seq \in Nat /\ q.seq < sequence /\ sequence \in Nat
    <3>1. q \in sent
      BY ArrivedWasSent
    <3> QED
      BY <1>4, <3>1, SentIs DEF StreamInv, SenderInv, SentNumbers, Counters
  <2>2. CASE Holds(net, p)
    <3>1. p \in sent
      BY <2>2, InFlight
    <3> QED
      BY <1>4, <2>2, <3>1 DEF OrderInv
  <2>3. CASE p \in sent' \ sent
    BY <1>2, <2>1, <2>3
  <2> QED
    BY <1>2, <1>4, <2>2, <2>3
<1>5. \A f, n \in Nat : f < era /\ n < max.restartFrom => \E p \in sent' : p.era = f /\ p.seq = n
  BY <1>2 DEF OrderInv
<1> QED
  BY <1>2, <1>3, <1>4, <1>5 DEF OrderInv, Ascending, Holds

(* A sender is restarted when the network is empty. *)
LEMMA RestartKeepsOrder ==
    ASSUME StreamInv, OrderInv, Restart, UNCHANGED inTime
    PROVE  OrderInv'
<1>1. /\ max.restartFrom <= sequence /\ net = << >> /\ net' = << >> /\ era' = era + 1
      /\ UNCHANGED <<max, sent, dropped>>
  BY DEF Restart, SenderRestart, netVars
<1>2. Len(net) = 0 /\ Len(net') = 0
  BY <1>1
<1>3. /\ Ascending(net') /\ \A p : ~ Holds(net', p) /\ ~ Holds(net, p)
  BY <1>2 DEF Ascending, Holds
<1>4. /\ sequence \in Nat /\ era \in Nat /\ max.restartFrom \in Nat
      /\ \A s \in Nat : s < sequence => \E q \in sent : q.era = era /\ q.seq = s
  BY ScenarioType, MoreScenarioType DEF StreamInv, SenderInv, Counters, SentOnce
<1>5. ASSUME NEW f \in Nat, NEW n \in Nat, f < era + 1, n < max.restartFrom
      PROVE  \E p \in sent : p.era = f /\ p.seq = n
  <2>1. CASE f < era
    BY <1>5, <2>1 DEF OrderInv
  <2>2. CASE f = era
    <3>1. n < sequence
      BY <1>1, <1>4, <1>5
    <3> QED
      BY <1>4, <2>2, <3>1
  <2> QED
    BY <1>4, <1>5, <2>1, <2>2
<1>6. \A p \in sent : p \in inTime \/ p \in dropped
  BY <1>3 DEF OrderInv
<1>7. \A f, n \in Nat :
        f < era' /\ n < max'.restartFrom => \E p \in sent' : p.era = f /\ p.seq = n
  BY <1>1, <1>5
<1>8. IsFiniteSet(dropped') /\ Cardinality(dropped') <= max'.lost
  BY <1>1 DEF OrderInv
<1>9. Ascending(net)' /\ \A p : ~ Holds(net, p)'
  BY <1>3 DEF Ascending, Holds
<1> QED
  BY <1>1, <1>6, <1>7, <1>8, <1>9 DEF OrderInv

(* Without overtaking, the packet that arrives is the oldest in flight. *)
LEMMA OldestInOrder ==
    ASSUME StreamInv, InOrder, OrderInv, NEW i \in Arriving
    PROVE  /\ i = 1 /\ 1 \in 1..Len(net) /\ Holds(net, net[1])
           /\ \A p : Holds(net, p) => net[1].seq <= p.seq
<1>1. Ascending(net) /\ max.overtake = 0
  BY DEF OrderInv, InOrder, StreamInv, SenderInv, Counters
<1> QED
  BY <1>1, OldestArrives

(* A packet lost leaves the others in order. *)
LEMMA LoseKeepsOrder ==
    ASSUME StreamInv, InOrder, OrderInv, Lose, UNCHANGED inTime
    PROVE  OrderInv'
<1>1. PICK i \in Arriving : /\ Cardinality(dropped) < max.lost
                            /\ dropped' = dropped \cup {net[i]}
                            /\ net' = RemoveAt(net, i)
                            /\ UNCHANGED <<senderVars, max>>
  BY DEF Lose
<1>2. i = 1 /\ 1 \in 1..Len(net) /\ net \in Seq(PacketType) /\ Ascending(net)
  BY OldestInOrder, InFlight DEF OrderInv
<1>3. net' = RemoveAt(net, 1)
  BY <1>1, <1>2
<1>4. /\ Ascending(net') /\ \A p : Holds(net', p) => Holds(net, p)
      /\ \A p : Holds(net, p) => p = net[1] \/ Holds(net', p)
  BY <1>2, <1>3, HeadRemoved
<1>5. UNCHANGED <<era, sent, max>>
  BY <1>1 DEF senderVars
<1>6. IsFiniteSet(dropped') /\ Cardinality(dropped') <= max.lost
  <2>1. IsFiniteSet(dropped) /\ max.lost \in Nat /\ Cardinality(dropped) \in Nat
    BY MoreScenarioType, FS_CardinalityType DEF OrderInv, StreamInv, SenderInv, Counters
  <2>2. /\ IsFiniteSet(dropped')
        /\ Cardinality(dropped') = IF net[1] \in dropped THEN Cardinality(dropped)
                                                         ELSE Cardinality(dropped) + 1
    BY <1>1, <1>2, <2>1, FS_AddElement
  <2> DEFINE c == Cardinality(dropped)
             d == Cardinality(dropped')
  <2>3. c \in Nat /\ c < max.lost /\ (d = c \/ d = c + 1)
    BY <1>1, <2>1, <2>2
  <2> HIDE DEF c, d
  <2>4. d <= max.lost
    BY <2>1, <2>3
  <2> QED
    BY <2>2, <2>4 DEF d
<1>7. \A p \in sent : p \in inTime \/ p \in dropped' \/ Holds(net', p)
  BY <1>1, <1>2, <1>4 DEF OrderInv
<1>8. \A q \in inTime : \A p \in sent : q.era = era /\ Holds(net', p) => q.seq <= p.seq
  BY <1>4 DEF OrderInv
<1>9. Ascending(net)' /\ \A p : Holds(net, p)' <=> Holds(net', p)
  BY <1>4 DEF Ascending, Holds
<1>10. \A f, n \in Nat : f < era /\ n < max.restartFrom => \E p \in sent : p.era = f /\ p.seq = n
  BY DEF OrderInv
<1> QED
  BY <1>5, <1>6, <1>7, <1>8, <1>9, <1>10 DEF OrderInv

(* A packet whose group is over is the second copy of one that arrived. *)
LEMMA OverIsCopy ==
    ASSUME StreamInv, FecInv, OrderInv, NEW p \in sent, p.era = era, Holds(net, p),
           IsOver(GroupOf(p))
    PROVE  p \in inTime
<1>1. PICK q \in inTime : Later(GroupOf(q), GroupOf(p)) \/ (q.parity /\ GroupOf(q) = GroupOf(p))
  BY DEF IsOver
<1>2. q \in sent /\ SenderInv
  BY ArrivedWasSent DEF StreamInv
<1>3. /\ q.seq \in Nat /\ p.seq \in Nat /\ q.era \in Nat /\ q.era <= era /\ era \in Nat
      /\ q.parity => q.seq % (GroupSize + 1) = GroupSize
  BY <1>2, SentIs, ScenarioType DEF SenderInv, Counters
<1> DEFINE w == GroupSize + 1
           a == p.seq \div w
           b == q.seq \div w
<1>4. GroupOf(p) = <<era, a>> /\ GroupOf(q) = <<q.era, b>>
  BY DEF GroupOf
<1>5. q.era = era /\ (b > a \/ (q.parity /\ b = a))
  BY <1>1, <1>3, <1>4 DEF Later
<1>6. q.seq <= p.seq
  BY <1>5 DEF OrderInv
<1>7. /\ w \in Nat \ {0} /\ a \in Nat /\ b \in Nat
      /\ p.seq % w \in 0..w - 1 /\ q.seq % w \in 0..w - 1
      /\ p.seq = w * a + (p.seq % w) /\ q.seq = w * b + (q.seq % w)
  <2>1. w \in Nat \ {0}
    BY Sizes
  <2> QED
    BY <1>3, <2>1, RemainderBounds
<1>8. ~ (b > a)
  <2> DEFINE r == p.seq % w
             u == q.seq % w
  <2> SUFFICES ASSUME b > a PROVE FALSE
    OBVIOUS
  <2>1. r \in 0..w - 1 /\ u \in 0..w - 1 /\ p.seq = w * a + r /\ q.seq = w * b + u
    BY <1>7
  <2> HIDE DEF a, b, r, u, w
  <2>2. w * (a + 1) <= w * b
    BY <1>5, <1>7
  <2>3. w * (a + 1) = w * a + w /\ w * a \in Nat /\ w * b \in Nat
    BY <1>7
  <2> QED
    BY <1>3, <1>6, <1>7, <2>1, <2>2, <2>3
<1>9. q.parity /\ b = a /\ q.seq % w = GroupSize
  BY <1>3, <1>5, <1>8
<1>10. p.seq <= q.seq
  <2> DEFINE r == p.seq % w
  <2>1. r \in 0..GroupSize /\ GroupSize \in Nat /\ w * a \in Nat
    BY <1>7, Sizes
  <2>2. p.seq = w * a + r /\ q.seq = w * a + GroupSize
    BY <1>7, <1>9
  <2> HIDE DEF a, b, r, w
  <2> QED
    BY <2>1, <2>2
<1>11. p.seq = q.seq
  BY <1>3, <1>6, <1>10
<1> QED
  BY <1>2, <1>5, <1>11 DEF SenderInv, SentOnce

(* A packet delivered comes after all that arrived. *)
LEMMA ReceiveKeepsOrder ==
    ASSUME StreamInv, InOrder, FecInv, OrderInv, Receive
    PROVE  OrderInv'
<1>1. PICK i \in Arriving :
            /\ Arrive(i)
            /\ inTime' = IF IsOver(GroupOf(net[i])) THEN inTime ELSE inTime \cup {net[i]}
  BY DEF Receive
<1> DEFINE p == net[1]
<1>2. /\ i = 1 /\ 1 \in 1..Len(net) /\ Holds(net, p) /\ net \in Seq(PacketType)
      /\ \A x : Holds(net, x) => p.seq <= x.seq
  BY OldestInOrder, InFlight
<1>3. p \in sent /\ p.era = era
  BY <1>2, InFlight
<1>4. (net' = RemoveAt(net, 1) \/ net' = net) /\ UNCHANGED <<era, sent, max, dropped>>
  BY <1>1, <1>2 DEF Arrive, senderVars
<1>5. p \in inTime' /\ inTime \subseteq inTime' /\ inTime' \subseteq inTime \cup {p}
  BY <1>1, <1>2, <1>3, OverIsCopy
<1> HIDE DEF p
<1>6. /\ Ascending(net') /\ \A x : Holds(net', x) => Holds(net, x)
      /\ \A x : Holds(net, x) => x = p \/ Holds(net', x)
  <2>1. CASE net' = RemoveAt(net, 1)
    BY <1>2, <2>1, HeadRemoved DEF OrderInv, p
  <2>2. CASE net' = net
    BY <2>2 DEF OrderInv, Ascending, Holds
  <2> QED
    BY <1>4, <2>1, <2>2
<1>7. \A x \in sent : x \in inTime' \/ x \in dropped \/ Holds(net', x)
  BY <1>5, <1>6 DEF OrderInv
<1>8. \A q \in inTime' : \A x \in sent : q.era = era /\ Holds(net', x) => q.seq <= x.seq
  BY <1>2, <1>5, <1>6 DEF OrderInv
<1>9. Ascending(net)' /\ \A x : Holds(net, x)' <=> Holds(net', x)
  BY <1>6 DEF Ascending, Holds
<1>10. \A f, n \in Nat : f < era /\ n < max.restartFrom => \E x \in sent : x.era = f /\ x.seq = n
  BY DEF OrderInv
<1>11. IsFiniteSet(dropped) /\ Cardinality(dropped) <= max.lost
  BY DEF OrderInv
<1> QED
  BY <1>4, <1>7, <1>8, <1>9, <1>10, <1>11 DEF OrderInv

(* Steps of the receiver alone. *)
LEMMA OrderUnchanged ==
    ASSUME OrderInv, UNCHANGED <<net, era, sent, max, dropped, inTime>>
    PROVE  OrderInv'
<1>1. Ascending(net)' /\ \A x : Holds(net, x)' <=> Holds(net, x)
  BY DEF OrderInv, Ascending, Holds
<1> QED
  BY <1>1 DEF OrderInv

(* The first packet of a new incarnation: were its number not far behind   *)
(* the head, more packets would have been lost than the network loses.     *)
LEMMA RestartIsFar ==
    ASSUME StreamInv, Roomy, InOrder, OrderInv, NEW e \in Nat, e < era, Running(e), pkt = NoPacket,
           \A q \in inTime : q.era # era,
           NEW p \in sent, p.era = era, \A x : Holds(net, x) => p.seq <= x.seq
    PROVE  p.seq + 4 * (GroupSize + 1) < head
<1> SUFFICES ASSUME head <= p.seq + 4 * (GroupSize + 1)
             PROVE  FALSE
  <2>1. p.seq \in Nat /\ head \in Nat
    BY SentIs DEF StreamInv, Running, HeadInv
  <2> QED
    BY <2>1, Sizes
<1>1. /\ SenderInv /\ era \in Nat /\ p.seq \in Nat /\ head \in Nat
      /\ \A x \in sent : x.seq \in Nat /\ x # NoPacket
  BY SentIs, RoomLeft DEF StreamInv, Running, HeadInv
<1>2. /\ max.lost \in Nat /\ max.restartFrom \in Nat
      /\ max.lost + 5 * (GroupSize + 1) <= max.restartFrom
  <2>1. max \in Scenarios /\ era \in 0..max.eras /\ max.eras \in Nat
    BY <1>1, ScenarioType DEF SenderInv, Counters
  <2>2. max.eras > 0
    BY <1>1, <2>1
  <2> QED
    BY <2>1, <2>2, MoreScenarioType DEF InOrder
<1>3. IsFiniteSet(dropped) /\ Cardinality(dropped) <= max.lost
  BY DEF OrderInv
<1> DEFINE h == head + GroupSize
           Number(n) == IF n < p.seq THEN n ELSE h + (n - p.seq)
           From(n) == IF n < p.seq THEN era ELSE e
           D(n) == CHOOSE d \in dropped : d.era = From(n) /\ d.seq = Number(n)
           all == 0..max.lost
           drop == [n \in all |-> D(n)]
<1>4. ASSUME NEW n \in all
      PROVE  D(n) \in dropped /\ D(n).era = From(n) /\ D(n).seq = Number(n)
  <2> SUFFICES \E d \in dropped : d.era = From(n) /\ d.seq = Number(n)
    OBVIOUS
  <2>1. n \in Nat /\ n <= max.lost
    BY <1>2
  <2>2. CASE n < p.seq
    <3>1. PICK d \in sent : d.era = era /\ d.seq = n
      BY <1>1, <2>1, <2>2 DEF SenderInv, SentOnce
    <3>2. d \notin inTime
      BY <3>1
    <3>3. ~ Holds(net, d)
      BY <1>1, <2>1, <2>2, <3>1
    <3>4. d \in dropped
      BY <3>2, <3>3 DEF OrderInv
    <3> QED
      BY <2>2, <3>1, <3>4
  <2>3. CASE p.seq <= n
    <3> DEFINE m == h + (n - p.seq)
    <3>1. m \in Nat /\ m < max.restartFrom /\ head <= m /\ h <= m
      BY <1>1, <1>2, <2>1, <2>3, Sizes
    <3>2. Number(n) = m /\ From(n) = e
      BY <1>1, <2>1, <2>3
    <3> HIDE DEF m, h
    <3>3. PICK d \in sent : d.era = e /\ d.seq = m
      BY <3>1 DEF OrderInv
    <3>4. d \notin inTime
      <4> SUFFICES ASSUME d \in inTime PROVE FALSE
        OBVIOUS
      <4>1. d.era = e /\ d.seq >= head /\ d # pkt
        BY <1>1, <3>1, <3>3
      <4>2. d.seq < h
        BY <4>1 DEF Running, WindowInv, h
      <4> QED
        BY <1>1, <3>1, <3>3, <4>2, Sizes DEF h
    <3>5. ~ Holds(net, d)
      <4> SUFFICES ASSUME Holds(net, d) PROVE FALSE
        OBVIOUS
      <4>1. d.era = era
        BY InFlight
      <4> QED
        BY <1>1, <3>3, <4>1
    <3>6. d \in dropped
      BY <3>4, <3>5 DEF OrderInv
    <3> QED
      BY <3>2, <3>3, <3>6
  <2> QED
    BY <1>1, <2>1, <2>2, <2>3
<1> HIDE DEF D
<1>5. ASSUME NEW m \in all, NEW n \in all, D(m) = D(n)
      PROVE  m = n
  <2>1. From(m) = From(n) /\ Number(m) = Number(n)
    BY <1>4, <1>5
  <2>2. m \in Nat /\ n \in Nat
    BY <1>2
  <2>3. (m < p.seq) <=> (n < p.seq)
    BY <1>1, <2>1
  <2>4. CASE m < p.seq
    BY <2>1, <2>3, <2>4
  <2>5. CASE ~ (m < p.seq)
    <3>1. h + (m - p.seq) = h + (n - p.seq) /\ h \in Nat
      BY <1>1, <2>1, <2>3, <2>5, Sizes
    <3> HIDE DEF h
    <3> QED
      BY <1>1, <2>2, <3>1
  <2> QED
    BY <2>4, <2>5
<1>6. drop \in Injection(all, dropped)
  <2>1. drop \in [all -> dropped] /\ \A n \in all : drop[n] = D(n)
    BY <1>4
  <2> HIDE DEF all, drop
  <2> QED
    BY <1>5, <2>1 DEF Injection, IsInjective
<1>7. IsFiniteSet(all) /\ Cardinality(all) = max.lost + 1
  <2> DEFINE k == max.lost
  <2>1. k \in Int /\ 0 \in Int /\ ~ (0 > k) /\ k - 0 + 1 = k + 1
    BY <1>2
  <2> HIDE DEF k
  <2>2. IsFiniteSet(0..k) /\ Cardinality(0..k) = k + 1
    BY <2>1, FS_Interval
  <2> QED
    BY <2>2 DEF k
<1>8. Cardinality(all) <= Cardinality(dropped) /\ Cardinality(dropped) \in Nat
  BY <1>3, <1>6, FS_Injection, FS_CardinalityType
<1> DEFINE c == Cardinality(dropped)
<1>9. c \in Nat /\ c <= max.lost /\ max.lost + 1 <= c
  BY <1>3, <1>7, <1>8
<1> HIDE DEF c
<1> QED
  BY <1>2, <1>9

(* In order, only a restarted sender's packet looks far behind the head. *)
LEMMA OrderTells ==
    ASSUME StreamInv, Roomy, InOrder, FecInv, OrderInv
    PROVE  TellsRestarts
<1> SUFFICES ASSUME NEW i \in Arriving, started, pkt = NoPacket
             PROVE  Rx!FarBehind(net[i]) <=> ~ \E q \in inTime : q.era = era
  BY DEF TellsRestarts
<1> DEFINE p == net[i]
<1>1. SenderInv /\ p \in sent /\ p.era = era /\ p.seq \in Nat /\ \A x : Holds(net, x) => p.seq <= x.seq
  BY OldestInOrder, InFlight DEF StreamInv
<1>2. Holds(net, p)
  BY OldestInOrder
<1> HIDE DEF p
<1>3. PICK e \in 0..era : Running(e)
  BY DEF FecInv, NotStarted
<1>4. /\ e \in Nat /\ e <= era /\ era \in Nat /\ HeadInv(e) /\ head \in Nat
      /\ \A q \in inTime : q.era <= e /\ q.era \in Nat /\ q.seq \in Nat
  BY <1>1, <1>3, SentIs, ArrivedWasSent, RoomLeft DEF Running, HeadInv, WindowInv
<1>5. Rx!FarBehind(p) <=> p.seq + 4 * (GroupSize + 1) < head
  <2>1. Rx!HeadFor(p) = head
    BY DEF Rx!HeadFor
  <2> QED
    BY <1>1, <2>1, NoPacketWraps DEF Rx!FarBehind
<1>6. ASSUME NEW q \in inTime, q.era = era
      PROVE  ~ Rx!FarBehind(p)
  <2>1. e = era
    BY <1>4, <1>6
  <2>2. PICK x \in inTime : x.era = era /\ x.seq >= head - 1 /\ x.seq \in Nat
    BY <1>4, <2>1 DEF HeadInv
  <2>3. x.seq <= p.seq
    BY <1>1, <1>2, <2>2 DEF OrderInv
  <2> QED
    BY <1>1, <1>4, <1>5, <2>2, <2>3, Sizes
<1>7. ASSUME \A q \in inTime : q.era # era
      PROVE  Rx!FarBehind(p)
  <2>1. e < era
    BY <1>4, <1>7 DEF HeadInv
  <2> QED
    BY <1>1, <1>3, <1>4, <1>5, <1>7, <2>1, RestartIsFar
<1> QED
  BY <1>6, <1>7 DEF p

(* TellsRestarts of FecLink, where the network keeps the order: what       *)
(* fec_rx_process takes for a restart of the sender is one, and it misses  *)
(* none.                                                                   *)
THEOREM FecTellsRestarts ==
    ASSUME Roomy, InOrder
    PROVE  Spec => []TellsRestarts
<1> DEFINE Inv == StreamInv /\ FecInv /\ OrderInv
<1>1. NoWrap
  <2>1. \A s \in Scenarios : s.chunks \in Nat
    BY ScenarioType
  <2> QED
    BY <2>1, Sizes DEF Roomy, NoWrap
<1>2. Init => Inv
  BY StreamInitInv, OrderInit DEF Init, Rx!FecInit, FecInv, NotStarted
<1>3. Inv /\ [Next]_vars => Inv'
  <2> SUFFICES ASSUME StreamInv, FecInv, OrderInv, [Next]_vars
               PROVE  Inv'
    OBVIOUS
  <2>1. SenderInv /\ TellsRestarts
    BY OrderTells DEF StreamInv
  <2>2. CASE StreamStep /\ UNCHANGED <<started, head, slot, expected, pkt, out, inTime>>
    <3>1. StreamInv' /\ FecInv'
      BY <1>1, <2>2, StreamStepKeepsInv, StreamKeepsFec
    <3>2. CASE SendHardError
      <4>1. UNCHANGED <<net, era, sent, max, dropped, inTime>>
        BY <2>2, <3>2 DEF SendHardError, SendRefused, SendFails
      <4> QED
        BY <3>1, <4>1, OrderUnchanged
    <3>3. CASE ~ SendHardError
      <4>1. OrderInv'
        BY <1>1, <2>2, <3>3, SendKeepsOrder, RestartKeepsOrder, LoseKeepsOrder DEF StreamStep
      <4> QED
        BY <3>1, <4>1
    <3> QED
      BY <3>2, <3>3
  <2>3. CASE Receive
    <3>1. StreamInv'
      BY <2>3, ArriveKeepsInv DEF Receive
    <3> QED
      BY <2>1, <2>3, <3>1, ReceiveKeepsFec, ReceiveKeepsOrder
  <2>4. CASE Rx!FecStep /\ UNCHANGED <<streamVars, inTime>>
    <3>1. StreamInv' /\ FecInv'
      BY <2>1, <2>4, StreamUnchanged, FecStepKeepsFec
    <3>2. OrderInv'
      BY <2>4, OrderUnchanged DEF streamVars, senderVars, netVars
    <3> QED
      BY <3>1, <3>2
  <2>5. CASE UNCHANGED vars
    <3>1. StreamInv' /\ FecInv'
      BY <2>5, StreamUnchanged, StutterKeepsFec DEF vars
    <3>2. OrderInv'
      BY <2>5, OrderUnchanged DEF vars, streamVars, senderVars, netVars
    <3> QED
      BY <3>1, <3>2
  <2> QED
    BY <2>2, <2>3, <2>4, <2>5 DEF Next
<1>4. Inv => TellsRestarts
  BY OrderTells
<1> QED
  BY <1>2, <1>3, <1>4, PTL DEF Spec

(* On such a network what the receiver emits was sent, is in order, and is *)
(* whole for every group that lost at most one packet, whatever was lost   *)
(* or copied and whenever the sender was restarted.                        *)
THEOREM FecOnOrderedNetwork ==
    ASSUME Roomy, InOrder, KeepsHistory
    PROVE  Spec => [](EmittedWasSent /\ EmittedInOrder /\ OneLossRecovered)
<1>1. Spec => []TellsRestarts
  BY FecTellsRestarts
<1>2. Spec /\ []TellsRestarts => []EmittedWasSent
  BY FecEmittedWasSent
<1>3. Spec /\ []TellsRestarts => []EmittedInOrder
  BY FecEmittedInOrder
<1>4. Spec /\ []TellsRestarts => []OneLossRecovered
  BY FecOneLossRecovered
<1> QED
  BY <1>1, <1>2, <1>3, <1>4, PTL
=============================================================================

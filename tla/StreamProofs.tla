---------------------------- MODULE StreamProofs ----------------------------
(***************************************************************************)
(* What is proved of the sender and the network for every group size,      *)
(* every number space that is long enough for the packets of a run, and    *)
(* every scenario: the invariant of the sender, kept by every step of      *)
(* Stream.  FecLinkProofs and PlaybackProofs use it for the receivers they *)
(* compose the sender with.                                                *)
(***************************************************************************)
EXTENDS Stream, NumberProofs

(* A run's packets, at most two for a chunk, do not use up the numbers.    *)
NoWrap == \A s \in Scenarios : 2 * s.chunks < SeqSpace

-----------------------------------------------------------------------------
(* Numbers below the wrap. *)

(* A number below the number space is its own remainder.                   *)
LEMMA NoWrapMod ==
    ASSUME NEW n \in Nat, n < SeqSpace
    PROVE  n % SeqSpace = n
BY SeqAssumption, SMT

-----------------------------------------------------------------------------
(* The invariant. *)

PacketType == [seq : Nat, parity : BOOLEAN, ns : {1}, pl : SUBSET (Nat \X Nat), era : Nat]

(* The position in the sample stream of a data packet's chunk. *)
TimeOf(p) == (CHOOSE c \in p.pl : TRUE)[2]

(* The data packets of an incarnation with numbers in S. *)
DataIn(e, S) == {q \in sent : q.era = e /\ ~ q.parity /\ q.seq \in S}

(* The numbers keep step with the samples, and the place in the group is   *)
(* the number's.                                                           *)
Counters ==
    /\ max \in Scenarios
    /\ era \in 0..max.eras /\ timestamp \in 0..max.chunks
    /\ sequence \in Nat /\ sequence <= 2 * timestamp
    /\ inGroup \in Nat
    /\ GroupSize > 0 => inGroup < GroupSize /\ sequence % (GroupSize + 1) = inGroup

(* The number of a packet was used, and tells data from parity.            *)
SentNumbers ==
    /\ sent \subseteq PacketType
    /\ \A p \in sent :
        /\ p.era <= era
        /\ p.era = era => p.seq < sequence
        /\ p.seq < 2 * max.chunks
        /\ IF GroupSize > 0 THEN p.parity <=> p.seq % (GroupSize + 1) = GroupSize
                            ELSE ~ p.parity

(* A data packet carries one chunk of its incarnation, later ones later    *)
(* chunks.                                                                 *)
SentChunks ==
    /\ \A p \in sent : ~ p.parity => p.pl = {<<p.era, TimeOf(p)>>} /\ TimeOf(p) \in Nat
    /\ \A p \in sent : ~ p.parity /\ p.era = era => TimeOf(p) < timestamp
    /\ \A p, q \in sent :
        ~ p.parity /\ ~ q.parity /\ p.era = q.era /\ p.seq < q.seq => TimeOf(p) < TimeOf(q)

(* An incarnation uses every number once. *)
SentOnce ==
    /\ \A p, q \in sent : p.era = q.era /\ p.seq = q.seq => p = q
    /\ \A s \in Nat : s < sequence => \E q \in sent : q.era = era /\ q.seq = s
    /\ \A p \in sent, s \in Nat : s < p.seq => \E q \in sent : q.era = p.era /\ q.seq = s

(* The accumulator is the XOR of the group so far. *)
AccIsGroup ==
    GroupSize > 0 => acc = UNION {d.pl : d \in DataIn(era, sequence - inGroup..sequence - 1)}

SenderInv ==
    Counters /\ SentNumbers /\ SentChunks /\ SentOnce /\ AccIsGroup /\ ParityCoversGroup

(* The network invents nothing, and what is in flight is of the present    *)
(* incarnation of the sender.                                              *)
Flying == {p \in sent : p.era = era}
NetInv == net \in Seq(Flying) /\ dropped \subseteq sent

StreamInv == SenderInv /\ NetInv

(* The bounds of a scenario are naturals. *)
LEMMA ScenarioType ==
    ASSUME NEW s \in Scenarios
    PROVE  s.chunks \in Nat /\ s.overtake \in Nat /\ s.eras \in Nat
BY ScenariosAssumption DEF ScenarioFields

(* A sender at number 0 and an empty network satisfy the invariant. *)
LEMMA StreamInitInv == StreamInit => StreamInv
<1> SUFFICES ASSUME StreamInit
             PROVE  StreamInv
  OBVIOUS
<1> USE DEF StreamInit, SenderInit
<1>1. max.chunks \in Nat /\ max.eras \in Nat
  BY ScenarioType
<1>2. Counters
  <2>1. 0 % (GroupSize + 1) = 0
    BY GroupAssumption
  <2> QED
    BY <1>1, <2>1 DEF Counters
<1>3. SentNumbers /\ SentChunks /\ SentOnce
  BY DEF SentNumbers, SentChunks, SentOnce
<1>4. AccIsGroup /\ ParityCoversGroup
  BY DEF AccIsGroup, ParityCoversGroup, DataIn
<1>5. NetInv
  BY EmptySeq DEF NetInv
<1> QED
  BY <1>2, <1>3, <1>4, <1>5 DEF StreamInv, SenderInv

(* The number a step uses does not wrap. *)
LEMMA NumbersLeft ==
    ASSUME NoWrap, Counters, timestamp < max.chunks
    PROVE  /\ sequence + 2 <= 2 * max.chunks /\ sequence + 2 < SeqSpace
           /\ Succ(sequence) = sequence + 1
           /\ Succ(Succ(sequence)) = sequence + 2
<1>1. max.chunks \in Nat /\ 2 * max.chunks < SeqSpace /\ timestamp \in Nat /\ sequence \in Nat
  BY ScenarioType DEF NoWrap, Counters
<1>2. sequence + 2 <= 2 * max.chunks
  BY <1>1 DEF Counters
<1>3. SeqSpace \in Nat
  BY SeqAssumption
<1>4. sequence + 2 < SeqSpace
  BY <1>1, <1>2, <1>3
<1> QED
  BY <1>1, <1>2, <1>3, <1>4, NoWrapMod DEF Succ

(* The data packet emit_data_packet is about to send. *)
LEMMA DataPacketIs ==
    ASSUME SenderInv
    PROVE  /\ DataPacket \in PacketType
           /\ DataPacket.seq = sequence /\ ~ DataPacket.parity /\ DataPacket.era = era
           /\ DataPacket.pl = {<<era, timestamp>>} /\ TimeOf(DataPacket) = timestamp
<1>1. era \in Nat /\ sequence \in Nat /\ timestamp \in Nat
  BY ScenarioType DEF SenderInv, Counters
<1>2. DataPacket = [seq |-> sequence, parity |-> FALSE, ns |-> 1, pl |-> {<<era, timestamp>>},
                    era |-> era]
  BY DEF DataPacket, Packet, Chunk
<1>3. DataPacket.pl = {<<era, timestamp>>}
  BY <1>2
<1>4. TimeOf(DataPacket) = timestamp
  <2>1. (CHOOSE c \in {<<era, timestamp>>} : TRUE) = <<era, timestamp>>
    OBVIOUS
  <2> QED
    BY <1>3, <2>1 DEF TimeOf
<1> QED
  BY <1>1, <1>2, <1>4 DEF PacketType

(* The chunk is not in the accumulator yet: the XOR adds it. *)
LEMMA ParityPacketIs ==
    ASSUME SenderInv, NoWrap, timestamp < max.chunks, GroupSize > 0
    PROVE  /\ ParityPacket \in PacketType
           /\ ParityPacket.seq = sequence + 1 /\ ParityPacket.parity /\ ParityPacket.era = era
           /\ ParityPacket.pl = ParityPayload
           /\ ParityPayload = acc \cup {<<era, timestamp>>}
<1>1. era \in Nat /\ sequence \in Nat /\ timestamp \in Nat
  BY ScenarioType DEF SenderInv, Counters
<1>2. ASSUME NEW d \in DataIn(era, sequence - inGroup..sequence - 1)
      PROVE  d.pl \subseteq (Nat \X Nat) /\ <<era, timestamp>> \notin d.pl
  <2>1. d \in sent /\ ~ d.parity /\ d.era = era
    BY DEF DataIn
  <2>2. d.pl = {<<era, TimeOf(d)>>} /\ TimeOf(d) \in Nat /\ TimeOf(d) < timestamp
    BY <2>1 DEF SenderInv, SentChunks
  <2> QED
    BY <1>1, <2>2
<1>3. acc = UNION {d.pl : d \in DataIn(era, sequence - inGroup..sequence - 1)}
  BY DEF SenderInv, AccIsGroup
<1>4. acc \subseteq (Nat \X Nat) /\ <<era, timestamp>> \notin acc
  BY <1>2, <1>3
<1>5. ParityPayload = acc \cup {<<era, timestamp>>}
  BY <1>4 DEF ParityPayload, Xor, Chunk
<1>6. ParityPayload \in SUBSET (Nat \X Nat)
  BY <1>1, <1>4, <1>5
<1>7. Succ(sequence) = sequence + 1
  BY NumbersLeft DEF SenderInv
<1>8. ParityPacket = [seq |-> sequence + 1, parity |-> TRUE, ns |-> 1, pl |-> ParityPayload,
                      era |-> era]
  BY <1>7 DEF ParityPacket, Packet
<1> QED
  BY <1>1, <1>5, <1>6, <1>8 DEF PacketType

(* What a send, refused by the kernel or not, does to the sender. *)
Sending ==
    /\ timestamp < max.chunks /\ timestamp' = timestamp + 1 /\ UNCHANGED <<max, era>>
    /\ IF ClosesGroup
       THEN /\ sequence' = sequence + 2 /\ inGroup' = 0 /\ acc' = {}
            /\ sent' = sent \cup {DataPacket, ParityPacket}
       ELSE /\ sequence' = sequence + 1
            /\ inGroup' = IF GroupSize > 0 THEN inGroup + 1 ELSE inGroup
            /\ acc' = IF GroupSize > 0 THEN ParityPayload ELSE acc
            /\ sent' = sent \cup {DataPacket}

(* What every outcome of emit_data_packet has in common. *)
LEMMA SendIsSending ==
    ASSUME SenderInv, NoWrap, Send
    PROVE  Sending
<1>1. PICK taken, parityTaken \in BOOLEAN :
        /\ timestamp < max.chunks
        /\ SendChunk(taken, parityTaken)
        /\ UNCHANGED max
  BY DEF Send
<1>2. Succ(sequence) = sequence + 1 /\ Succ(Succ(sequence)) = sequence + 2
  BY <1>1, NumbersLeft DEF SenderInv
<1>3. timestamp' = timestamp + 1 /\ UNCHANGED <<max, era>>
  BY <1>1 DEF SendChunk
<1>4. CASE SendClosing(taken, parityTaken)
  BY <1>1, <1>2, <1>3, <1>4 DEF Sending, SendClosing, NumberAfterParity, ClearedAcc
<1>5. CASE SendWithinGroup(taken)
  BY <1>1, <1>2, <1>3, <1>5 DEF Sending, SendWithinGroup
<1> QED
  BY <1>1, <1>4, <1>5 DEF SendChunk

(* Only the new data packet changes what a range of numbers holds. *)
LEMMA GroupGrows ==
    ASSUME SenderInv, NoWrap, Sending
    PROVE  /\ \A e \in Nat, S \in SUBSET Int :
                e # era \/ sequence \notin S =>
                    {q \in sent' : q.era = e /\ ~ q.parity /\ q.seq \in S} = DataIn(e, S)
           /\ GroupSize > 0 =>
                UNION {d.pl : d \in {q \in sent' : /\ q.era = era /\ ~ q.parity
                                                 /\ q.seq \in sequence - inGroup..sequence}}
                    = ParityPayload
<1>1. /\ DataPacket.seq = sequence /\ ~ DataPacket.parity /\ DataPacket.era = era
      /\ DataPacket.pl = {<<era, timestamp>>}
  BY DataPacketIs
<1>2. ClosesGroup => ParityPacket.parity
  BY ParityPacketIs, GroupAssumption DEF Sending, ClosesGroup
<1>3. /\ DataPacket \in sent' /\ sent \subseteq sent'
      /\ \A q \in sent' : ~ q.parity => q \in sent \/ q = DataPacket
  BY <1>2 DEF Sending
<1>4. ASSUME NEW e \in Nat, NEW S \in SUBSET Int, e # era \/ sequence \notin S
      PROVE  {q \in sent' : q.era = e /\ ~ q.parity /\ q.seq \in S} = DataIn(e, S)
  BY <1>1, <1>3, <1>4 DEF DataIn
<1>5. ASSUME GroupSize > 0
      PROVE  UNION {d.pl : d \in {q \in sent' : /\ q.era = era /\ ~ q.parity
                                              /\ q.seq \in sequence - inGroup..sequence}}
                = ParityPayload
  <2> DEFINE before == DataIn(era, sequence - inGroup..sequence - 1)
             after == {q \in sent' : /\ q.era = era /\ ~ q.parity
                                     /\ q.seq \in sequence - inGroup..sequence}
  <2>1. sequence \in Nat /\ inGroup \in Nat
    BY DEF SenderInv, Counters
  <2>2. \A q \in sent : q.era = era => q.seq \in Nat /\ q.seq < sequence
    BY DEF SenderInv, SentNumbers, PacketType
  <2>3. after = before \cup {DataPacket}
    BY <1>1, <1>3, <2>1, <2>2 DEF DataIn
  <2>4. UNION {d.pl : d \in after} = (UNION {d.pl : d \in before}) \cup DataPacket.pl
    BY <2>3
  <2>5. acc = UNION {d.pl : d \in before}
    BY <1>5 DEF SenderInv, AccIsGroup
  <2>6. ParityPayload = acc \cup {<<era, timestamp>>}
    BY <1>5, ParityPacketIs DEF Sending
  <2> QED
    BY <1>1, <2>4, <2>5, <2>6
<1> QED
  BY <1>4, <1>5

(* The packets a send adds, numbers and all. *)
LEMMA SendingAdds ==
    ASSUME SenderInv, NoWrap, Sending, NEW p \in sent'
    PROVE  \/ p \in sent
           \/ p = DataPacket
           \/ p = ParityPacket /\ ClosesGroup /\ GroupSize > 0
BY GroupAssumption DEF Sending, ClosesGroup

(* Data and parity take their numbers, whatever the kernel took. *)
LEMMA SendingKeepsInv ==
    ASSUME SenderInv, NoWrap, Sending
    PROVE  SenderInv'
<1> USE DEF SenderInv
<1>1. /\ era \in Nat /\ sequence \in Nat /\ timestamp \in Nat /\ inGroup \in Nat
      /\ max.chunks \in Nat /\ GroupSize \in Nat /\ SeqSpace \in Nat
      /\ timestamp < max.chunks /\ timestamp' = timestamp + 1 /\ max' = max /\ era' = era
      /\ GroupSize > 0 => inGroup < GroupSize
  BY ScenarioType, GroupAssumption, SeqAssumption DEF Counters, Sending
<1>2. sequence + 2 <= 2 * max.chunks
  BY <1>1, NumbersLeft
<1>3. /\ DataPacket \in PacketType /\ DataPacket.seq = sequence /\ ~ DataPacket.parity
      /\ DataPacket.era = era /\ DataPacket.pl = {<<era, timestamp>>}
      /\ TimeOf(DataPacket) = timestamp /\ DataPacket \in sent'
  BY DataPacketIs DEF Sending
<1>4. ClosesGroup =>
        /\ GroupSize > 0 /\ inGroup = GroupSize - 1
        /\ ParityPacket \in PacketType /\ ParityPacket.seq = sequence + 1 /\ ParityPacket.parity
        /\ ParityPacket.era = era /\ ParityPacket.pl = ParityPayload /\ ParityPacket \in sent'
        /\ sequence' = sequence + 2 /\ inGroup' = 0 /\ acc' = {}
  BY <1>1, ParityPacketIs DEF Sending, ClosesGroup
<1>5. ~ ClosesGroup =>
        /\ GroupSize > 0 => inGroup + 1 < GroupSize /\ inGroup' = inGroup + 1 /\ acc' = ParityPayload
        /\ ~ (GroupSize > 0) => inGroup' = inGroup
        /\ sequence' = sequence + 1
  BY <1>1 DEF Sending, ClosesGroup
<1>6. /\ sequence' \in Nat /\ inGroup' \in Nat /\ sequence < sequence'
      /\ sequence' <= sequence + 2
  BY <1>1, <1>4, <1>5
<1>7. GroupSize > 0 =>
        /\ sequence % (GroupSize + 1) = inGroup
        /\ inGroup + 1 < GroupSize + 1
        /\ (sequence + 1) % (GroupSize + 1) = inGroup + 1
        /\ inGroup + 1 = GroupSize => (sequence + 2) % (GroupSize + 1) = 0
  <2>1. ASSUME GroupSize > 0
        PROVE  /\ sequence % (GroupSize + 1) = inGroup
               /\ (sequence + 1) % (GroupSize + 1) = inGroup + 1
    <3>1. sequence % (GroupSize + 1) = inGroup
      BY <2>1 DEF Counters
    <3>2. GroupSize + 1 \in Nat \ {0} /\ inGroup + 1 < GroupSize + 1
      BY <1>1, <2>1
    <3>3. (sequence + 1) % (GroupSize + 1) = (sequence % (GroupSize + 1)) + 1
      BY <1>1, <3>1, <3>2, NextRemainder
    <3> QED
      BY <3>1, <3>3
  <2>2. ASSUME GroupSize > 0, inGroup + 1 = GroupSize
        PROVE  (sequence + 2) % (GroupSize + 1) = 0
    <3>1. ((sequence + 1) + 1) % (GroupSize + 1) = 0
      <4>1. GroupSize + 1 \in Nat \ {0} /\ sequence + 1 \in Nat
        BY <1>1
      <4>2. ((sequence + 1) % (GroupSize + 1)) + 1 = GroupSize + 1
        BY <1>1, <2>1, <2>2
      <4> QED
        BY <4>1, <4>2, NextRemainder
    <3> QED
      BY <1>1, <3>1
  <2> QED
    BY <1>1, <2>1, <2>2
<1>8. Counters'
  <2>1. timestamp' \in 0..max'.chunks /\ sequence' <= 2 * timestamp' /\ max' \in Scenarios
    BY <1>1, <1>6 DEF Counters
  <2>2. ASSUME GroupSize > 0
        PROVE  inGroup' < GroupSize /\ sequence' % (GroupSize + 1) = inGroup'
    BY <1>1, <1>4, <1>5, <1>7, <2>2
  <2> QED
    BY <1>1, <1>6, <2>1, <2>2 DEF Counters
<1>9. SentNumbers'
  <2> SUFFICES ASSUME NEW p \in sent'
               PROVE  /\ p \in PacketType
                      /\ p.era <= era
                      /\ p.era = era => p.seq < sequence'
                      /\ p.seq < 2 * max.chunks
                      /\ IF GroupSize > 0 THEN p.parity <=> p.seq % (GroupSize + 1) = GroupSize
                                          ELSE ~ p.parity
    BY <1>1 DEF SentNumbers
  <2>1. CASE p \in sent
    <3>1. p \in PacketType /\ p.seq \in Nat
      BY <2>1 DEF SentNumbers, PacketType
    <3> QED
      BY <1>1, <1>6, <2>1, <3>1 DEF SentNumbers, Sending
  <2>2. CASE p = DataPacket
    BY <1>1, <1>2, <1>3, <1>6, <1>7, <2>2
  <2>3. CASE p = ParityPacket /\ ClosesGroup
    BY <1>1, <1>2, <1>4, <1>7, <2>3
  <2> QED
    BY <2>1, <2>2, <2>3, SendingAdds
<1>10. SentChunks'
  <2>1. ASSUME NEW p \in sent', ~ p.parity
        PROVE  /\ p \in sent \/ p = DataPacket
               /\ p.pl = {<<p.era, TimeOf(p)>>} /\ TimeOf(p) \in Nat
               /\ p.era = era => TimeOf(p) < timestamp'
    <3>1. p \in sent \/ p = DataPacket
      BY <1>4, <2>1, SendingAdds
    <3>2. CASE p \in sent
      BY <1>1, <2>1, <3>2 DEF SentChunks
    <3>3. CASE p = DataPacket
      BY <1>1, <1>3, <3>3
    <3> QED
      BY <3>1, <3>2, <3>3
  <2>2. ASSUME NEW p \in sent', NEW q \in sent', ~ p.parity, ~ q.parity, p.era = q.era,
               p.seq < q.seq
        PROVE  TimeOf(p) < TimeOf(q)
    <3>1. (p \in sent \/ p = DataPacket) /\ (q \in sent \/ q = DataPacket)
      BY <2>1, <2>2
    <3>2. CASE p \in sent /\ q \in sent
      BY <2>2, <3>2 DEF SentChunks
    <3>3. CASE p = DataPacket
      <4>1. q \in sent => q.era = era /\ q.seq < sequence /\ q.seq \in Nat
        BY <1>3, <2>2, <3>3 DEF SentNumbers, PacketType
      <4> QED
        BY <1>1, <1>3, <2>2, <3>1, <3>3, <4>1
    <3>4. CASE p \in sent /\ q = DataPacket
      BY <1>3, <2>2, <3>4 DEF SentChunks
    <3> QED
      BY <3>1, <3>2, <3>3, <3>4
  <2> QED
    BY <1>1, <2>1, <2>2 DEF SentChunks, TimeOf
<1>11. SentOnce'
  <2>1. ASSUME NEW p \in sent', NEW q \in sent', p.era = q.era, p.seq = q.seq
        PROVE  p = q
    <3>1. \A r \in sent : r.era = era => r.seq < sequence /\ r.seq \in Nat
      BY DEF SentNumbers, PacketType
    <3> QED
      BY <1>1, <1>3, <1>4, <2>1, <3>1, SendingAdds DEF SentOnce
  <2>2. ASSUME NEW s \in Nat, s < sequence'
        PROVE  \E q \in sent' : q.era = era /\ q.seq = s
    <3>1. CASE s < sequence
      BY <3>1 DEF SentOnce, Sending
    <3>2. CASE s = sequence
      BY <1>3, <3>2
    <3>3. CASE s = sequence + 1 /\ ClosesGroup
      BY <1>4, <3>3
    <3>4. sequence' = sequence + 1 \/ (sequence' = sequence + 2 /\ ClosesGroup)
      BY <1>4, <1>5
    <3>5. s < sequence \/ s = sequence \/ (s = sequence + 1 /\ ClosesGroup)
      BY <1>1, <2>2, <3>4
    <3> QED
      BY <3>1, <3>2, <3>3, <3>5
  <2>3. ASSUME NEW p \in sent', NEW s \in Nat, s < p.seq
        PROVE  \E q \in sent' : q.era = p.era /\ q.seq = s
    <3>1. CASE p \in sent
      BY <2>3, <3>1 DEF SentOnce, Sending
    <3>2. CASE p = DataPacket \/ (p = ParityPacket /\ ClosesGroup)
      <4>1. p.era = era /\ p.seq \in Nat /\ p.seq < sequence'
        BY <1>1, <1>3, <1>4, <1>6, <3>2
      <4>2. s < sequence'
        BY <1>6, <2>3, <4>1
      <4> QED
        BY <2>2, <4>1, <4>2
    <3> QED
      BY <3>1, <3>2, SendingAdds
  <2> QED
    BY <1>1, <2>1, <2>2, <2>3 DEF SentOnce
<1>12. AccIsGroup'
  <2> SUFFICES ASSUME GroupSize > 0
               PROVE  acc' = UNION {d.pl : d \in {q \in sent' : /\ q.era = era /\ ~ q.parity
                                      /\ q.seq \in sequence' - inGroup'..sequence' - 1}}
    BY <1>1 DEF AccIsGroup, DataIn
  <2>1. CASE ClosesGroup
    <3>1. sequence' - inGroup'..sequence' - 1 = {}
      BY <1>1, <1>4, <2>1
    <3> QED
      BY <1>4, <2>1, <3>1
  <2>2. CASE ~ ClosesGroup
    <3>1. sequence' - inGroup'..sequence' - 1 = sequence - inGroup..sequence
      BY <1>1, <1>5, <2>2
    <3> QED
      BY <1>5, <2>2, <3>1, GroupGrows
  <2> QED
    BY <2>1, <2>2
<1>13. ParityCoversGroup'
  <2> SUFFICES ASSUME NEW p \in sent', p.parity
               PROVE  p.pl = UNION {d.pl : d \in {q \in sent' : /\ q.era = p.era /\ ~ q.parity
                                               /\ q.seq \in p.seq - GroupSize..p.seq - 1}}
    BY DEF ParityCoversGroup
  <2>1. CASE p \in sent
    <3>1. p.era \in Nat /\ p.seq \in Nat /\ (p.era = era => p.seq < sequence)
      BY <2>1 DEF SentNumbers, PacketType
    <3>2. p.era # era \/ sequence \notin p.seq - GroupSize..p.seq - 1
      BY <1>1, <3>1
    <3>3. {q \in sent' : q.era = p.era /\ ~ q.parity /\ q.seq \in p.seq - GroupSize..p.seq - 1}
            = DataIn(p.era, p.seq - GroupSize..p.seq - 1)
      <4> DEFINE S == p.seq - GroupSize..p.seq - 1
      <4>1. S \in SUBSET Int
        BY <1>1, <3>1
      <4> HIDE DEF S
      <4>2. {q \in sent' : q.era = p.era /\ ~ q.parity /\ q.seq \in S} = DataIn(p.era, S)
        BY <3>1, <3>2, <4>1, GroupGrows DEF S
      <4> QED
        BY <4>2 DEF S
    <3>4. p.pl = UNION {d.pl : d \in DataIn(p.era, p.seq - GroupSize..p.seq - 1)}
      BY <2>1 DEF ParityCoversGroup, DataIn
    <3> QED
      BY <3>3, <3>4
  <2>2. CASE p = ParityPacket /\ ClosesGroup
    <3>1. p.seq - GroupSize..p.seq - 1 = sequence - inGroup..sequence
      BY <1>1, <1>4, <2>2
    <3>2. p.era = era /\ p.pl = ParityPayload /\ GroupSize > 0
      BY <1>1, <1>4, <2>2, GroupAssumption DEF ClosesGroup
    <3>3. UNION {d.pl : d \in {q \in sent' : /\ q.era = era /\ ~ q.parity
                                            /\ q.seq \in sequence - inGroup..sequence}}
            = ParityPayload
      BY <3>2, GroupGrows
    <3> QED
      BY <3>1, <3>2, <3>3
  <2> QED
    BY <1>3, <2>1, <2>2, SendingAdds
<1> QED
  BY <1>8, <1>9, <1>10, <1>11, <1>12, <1>13

(* A hard error costs a chunk, but no number. *)
LEMMA HardErrorKeepsInv ==
    ASSUME SenderInv, SendHardError
    PROVE  SenderInv'
<1> USE DEF SenderInv
<1>1. /\ timestamp < max.chunks /\ timestamp' = timestamp + 1
      /\ UNCHANGED <<max, era, sequence, inGroup, acc, net, sent>>
  BY DEF SendHardError, SendRefused, SendFails
<1>2. max.chunks \in Nat /\ timestamp \in Nat /\ sequence \in Nat
  BY ScenarioType DEF Counters
<1>3. Counters'
  BY <1>1, <1>2 DEF Counters
<1>4. SentNumbers' /\ SentOnce' /\ AccIsGroup' /\ ParityCoversGroup'
  BY <1>1 DEF SentNumbers, SentOnce, AccIsGroup, ParityCoversGroup, DataIn
<1>5. SentChunks'
  <2>1. ASSUME NEW p \in sent, ~ p.parity
        PROVE  /\ p.pl = {<<p.era, TimeOf(p)>>} /\ TimeOf(p) \in Nat
               /\ p.era = era => TimeOf(p) < timestamp + 1
    BY <1>2, <2>1 DEF SentChunks
  <2>2. \A p, q \in sent : ~ p.parity /\ ~ q.parity /\ p.era = q.era /\ p.seq < q.seq =>
            TimeOf(p) < TimeOf(q)
    BY DEF SentChunks
  <2>3. \A p : TimeOf(p)' = TimeOf(p)
    BY DEF TimeOf
  <2>4. \A p \in sent' : ~ p.parity =>
            /\ p.pl = {<<p.era, TimeOf(p)'>>} /\ TimeOf(p)' \in Nat
            /\ p.era = era' => TimeOf(p)' < timestamp'
    <3> TAKE p \in sent'
    <3>1. p \in sent /\ era' = era /\ timestamp' = timestamp + 1
      BY <1>1
    <3> QED
      BY <2>1, <2>3, <3>1
  <2>5. \A p, q \in sent' : ~ p.parity /\ ~ q.parity /\ p.era = q.era /\ p.seq < q.seq =>
            TimeOf(p)' < TimeOf(q)'
    BY <1>1, <2>2, <2>3
  <2> QED
    BY <2>4, <2>5 DEF SentChunks
<1> QED
  BY <1>3, <1>4, <1>5

(* A new incarnation starts with numbers of its own. *)
LEMMA RestartKeepsInv ==
    ASSUME SenderInv, Restart
    PROVE  SenderInv'
<1> USE DEF SenderInv
<1>1. /\ era < max.eras /\ era' = era + 1 /\ sequence' = 0 /\ timestamp' = 0 /\ inGroup' = 0
      /\ acc' = {} /\ UNCHANGED <<max, sent>>
  BY DEF Restart, SenderRestart, netVars
<1>2. max.chunks \in Nat /\ max.eras \in Nat /\ era \in Nat /\ GroupSize \in Nat
  BY ScenarioType, GroupAssumption DEF Counters
<1>3. \A p \in sent : p.era \in Nat /\ p.era <= era /\ p.era < era'
  BY <1>1, <1>2 DEF SentNumbers, PacketType
<1>4. Counters'
  <2>1. 0 % (GroupSize + 1) = 0
    BY <1>2
  <2> QED
    BY <1>1, <1>2, <2>1 DEF Counters
<1>5. SentNumbers' /\ SentOnce' /\ ParityCoversGroup'
  BY <1>1, <1>2, <1>3 DEF SentNumbers, SentOnce, ParityCoversGroup
<1>6. SentChunks'
  BY <1>1, <1>3 DEF SentChunks, TimeOf
<1>7. AccIsGroup'
  BY <1>1 DEF AccIsGroup, DataIn
<1> QED
  BY <1>4, <1>5, <1>6, <1>7

(* The rest of a step leaves the sender alone. *)
LEMMA SenderUnchanged ==
    ASSUME SenderInv, UNCHANGED <<max, era, sequence, timestamp, inGroup, acc, sent>>
    PROVE  SenderInv'
<1>1. Counters' /\ SentNumbers' /\ SentOnce'
  BY DEF SenderInv, Counters, SentNumbers, SentOnce
<1>2. SentChunks'
  BY DEF SenderInv, SentChunks, TimeOf
<1>3. AccIsGroup' /\ ParityCoversGroup'
  BY DEF SenderInv, AccIsGroup, ParityCoversGroup, DataIn
<1> QED
  BY <1>1, <1>2, <1>3 DEF SenderInv

(* A sequence without one of its elements. *)
LEMMA RemoveAtType ==
    ASSUME NEW S, NEW s \in Seq(S), NEW i \in 1..Len(s)
    PROVE  RemoveAt(s, i) \in Seq(S)
<1>1. SubSeq(s, 1, i - 1) \in Seq(S) /\ SubSeq(s, i + 1, Len(s)) \in Seq(S)
  BY SubSeqProperties
<1> QED
  BY <1>1, ConcatProperties DEF RemoveAt

(* What is handed to the kernel and taken is in flight. *)
LEMMA SendKeepsNet ==
    ASSUME SenderInv, NetInv, NoWrap, Send
    PROVE  NetInv'
<1>1. PICK taken, parityTaken \in BOOLEAN :
        /\ SendChunk(taken, parityTaken)
        /\ ~ parityTaken => ClosesGroup
        /\ dropped' = dropped \cup (IF taken THEN {} ELSE {DataPacket})
                              \cup (IF parityTaken THEN {} ELSE {ParityPacket})
  BY DEF Send
<1>2. DataPacket.era = era /\ ParityPacket.era = era
  BY DEF DataPacket, ParityPacket, Packet
<1>3. /\ era' = era /\ sent \subseteq sent' /\ DataPacket \in sent'
      /\ ClosesGroup => ParityPacket \in sent'
  BY SendIsSending DEF Sending
<1>4. dropped' \subseteq sent'
  BY <1>1, <1>3 DEF NetInv
<1>5. Flying' = {p \in sent' : p.era = era}
  BY <1>3 DEF Flying
<1>6. Flying \subseteq Flying' /\ DataPacket \in Flying' /\ (ClosesGroup => ParityPacket \in Flying')
  BY <1>2, <1>3, <1>5 DEF Flying
<1>7. net \in Seq(Flying')
  BY <1>6, SeqMonotonic DEF NetInv
<1>8. Handed(taken, DataPacket) \in Seq(Flying')
  BY <1>6 DEF Handed
<1>9. net \o Handed(taken, DataPacket) \in Seq(Flying')
  BY <1>7, <1>8, ConcatProperties
<1>10. CASE SendClosing(taken, parityTaken)
  <2>1. Handed(parityTaken, ParityPacket) \in Seq(Flying')
    BY <1>6, <1>10 DEF Handed, SendClosing
  <2>2. net' \in Seq(Flying')
    BY <1>9, <1>10, <2>1, ConcatProperties DEF SendClosing
  <2> QED
    BY <1>4, <2>2 DEF NetInv
<1>11. CASE SendWithinGroup(taken)
  BY <1>4, <1>9, <1>11 DEF SendWithinGroup, NetInv
<1> QED
  BY <1>1, <1>10, <1>11 DEF SendChunk

(* Every step of the sender and of the network keeps the invariant. *)
LEMMA StreamStepKeepsInv ==
    ASSUME StreamInv, NoWrap, StreamStep
    PROVE  StreamInv'
<1> USE DEF StreamInv
<1>1. CASE Send
  BY <1>1, SendIsSending, SendingKeepsInv, SendKeepsNet
<1>2. CASE SendHardError
  <2>1. UNCHANGED <<era, net, sent, dropped>>
    BY <1>2 DEF SendHardError, SendRefused, SendFails
  <2> QED
    BY <1>2, <2>1, HardErrorKeepsInv DEF NetInv, Flying
<1>3. CASE Restart
  <2>1. net' = << >> /\ UNCHANGED <<sent, dropped>>
    BY <1>3 DEF Restart, SenderRestart, netVars
  <2> QED
    BY <1>3, <2>1, RestartKeepsInv DEF NetInv
<1>4. CASE Lose
  <2>1. PICK i \in Arriving : /\ dropped' = dropped \cup {net[i]}
                            /\ net' = RemoveAt(net, i)
                            /\ UNCHANGED <<senderVars, max>>
    BY <1>4 DEF Lose
  <2>2. i \in 1..Len(net) /\ net \in Seq(Flying)
    BY <2>1 DEF Arriving, NetInv
  <2>3. net[i] \in Flying /\ RemoveAt(net, i) \in Seq(Flying)
    BY <2>2, RemoveAtType, ElementOfSeq
  <2>4. SenderInv'
    BY <2>1, SenderUnchanged DEF senderVars
  <2> QED
    BY <2>1, <2>3, <2>4 DEF NetInv, Flying, senderVars
<1> QED
  BY <1>1, <1>2, <1>3, <1>4 DEF StreamStep

(* A packet delivered was sent by the running incarnation. *)
LEMMA ArriveKeepsInv ==
    ASSUME StreamInv, NEW i \in Arriving, Arrive(i)
    PROVE  /\ StreamInv'
           /\ net[i] \in sent /\ net[i].era = era
           /\ UNCHANGED <<senderVars, max, dropped, refused>>
<1>1. i \in 1..Len(net) /\ net \in Seq(Flying)
  BY DEF Arriving, StreamInv, NetInv
<1>2. net[i] \in Flying /\ RemoveAt(net, i) \in Seq(Flying)
  BY <1>1, RemoveAtType, ElementOfSeq
<1>3. (net' = RemoveAt(net, i) \/ net' = net) /\ UNCHANGED <<senderVars, max, dropped, refused>>
  BY DEF Arrive
<1>4. SenderInv'
  BY <1>3, SenderUnchanged DEF senderVars, StreamInv
<1>5. NetInv'
  BY <1>1, <1>2, <1>3 DEF StreamInv, NetInv, Flying, senderVars
<1> QED
  BY <1>2, <1>3, <1>4, <1>5 DEF StreamInv, Flying

(* Steps of the receiver alone. *)
LEMMA StreamUnchanged ==
    ASSUME StreamInv, UNCHANGED streamVars
    PROVE  StreamInv'
BY SenderUnchanged DEF StreamInv, NetInv, Flying, streamVars, senderVars, netVars

-----------------------------------------------------------------------------
(* The network as a sequence: what is in flight, in order. *)

Ascending(s) == \A i, j \in 1..Len(s) : i < j => s[i].seq < s[j].seq
Holds(s, p) == \E i \in 1..Len(s) : s[i] = p

(* The other bounds of a scenario are naturals. *)
LEMMA MoreScenarioType ==
    ASSUME NEW s \in Scenarios
    PROVE  s.lost \in Nat /\ s.restartFrom \in Nat
BY ScenariosAssumption DEF ScenarioFields

(* What is in the network was sent. *)
LEMMA InFlight ==
    ASSUME StreamInv
    PROVE  /\ net \in Seq(PacketType)
           /\ \A p : Holds(net, p) =>
                p \in sent /\ p.era = era /\ p \in PacketType /\ p.seq \in Nat /\ p.seq < sequence
<1>1. net \in Seq(Flying) /\ Flying \subseteq sent /\ sent \subseteq PacketType
  BY DEF StreamInv, NetInv, Flying, SenderInv, SentNumbers
<1>2. net \in Seq(PacketType)
  BY <1>1, SeqMonotonic
<1>3. ASSUME NEW i \in 1..Len(net)
      PROVE  /\ net[i] \in sent /\ net[i].era = era /\ net[i].seq \in Nat
             /\ net[i] \in PacketType /\ net[i].seq < sequence
  <2>1. net[i] \in Flying
    BY <1>1, ElementOfSeq
  <2>2. net[i] \in sent /\ net[i].era = era /\ net[i] \in PacketType
    BY <1>1, <2>1 DEF Flying
  <2> QED
    BY <2>2 DEF PacketType, StreamInv, SenderInv, SentNumbers
<1> QED
  BY <1>2, <1>3 DEF Holds

(* The kernel takes the next packet, or not. *)
LEMMA HandedOver ==
    ASSUME NEW s \in Seq(PacketType), Ascending(s), NEW x \in PacketType,
           \A p \in PacketType : Holds(s, p) => p.seq < x.seq,
           NEW handed \in {<< >>, <<x>>}, NEW t, t = s \o handed
    PROVE  /\ t \in Seq(PacketType) /\ Ascending(t)
           /\ \A p : Holds(t, p) <=> Holds(s, p) \/ (handed = <<x>> /\ p = x)
<1>1. <<x>> # << >>
  <2>1. Len(<<x>>) = 1 /\ Len(<< >>) = 0
    OBVIOUS
  <2> QED
    BY <2>1
<1>2. CASE handed = << >>
  <2>1. t = s
    BY <1>2, ConcatEmptySeq
  <2> QED
    BY <1>2, <1>1, <2>1
<1>3. CASE handed = <<x>>
  <2>1. t = s \o <<x>> /\ <<x>> \in Seq(PacketType) /\ Len(<<x>>) = 1 /\ <<x>>[1] = x
    BY <1>3
  <2>2. /\ t \in Seq(PacketType) /\ Len(t) = Len(s) + 1 /\ Len(s) \in Nat
        /\ \A i \in 1..Len(s) : t[i] = s[i]
        /\ t[Len(s) + 1] = x
    BY <2>1, ConcatProperties, LenProperties
  <2>3. \A i \in 1..Len(t) : i \in 1..Len(s) \/ i = Len(s) + 1
    BY <2>2
  <2>4. \A i \in 1..Len(s) : s[i] \in PacketType /\ Holds(s, s[i])
    BY ElementOfSeq DEF Holds
  <2>5. ASSUME NEW i \in 1..Len(t), NEW j \in 1..Len(t), i < j
        PROVE  t[i].seq < t[j].seq
    <3>1. i \in 1..Len(s)
      BY <2>2, <2>3, <2>5
    <3>2. CASE j \in 1..Len(s)
      BY <2>2, <2>5, <3>1, <3>2 DEF Ascending
    <3>3. CASE j = Len(s) + 1
      BY <2>2, <2>4, <3>1, <3>3
    <3> QED
      BY <2>3, <3>2, <3>3
  <2>6. ASSUME NEW p
        PROVE  Holds(t, p) <=> Holds(s, p) \/ p = x
    <3>1. Holds(t, p) => Holds(s, p) \/ p = x
      BY <2>2, <2>3 DEF Holds
    <3>2. \A i \in 1..Len(s) : i \in 1..Len(t)
      BY <2>2
    <3>3. Holds(s, p) => Holds(t, p)
      BY <2>2, <3>2 DEF Holds
    <3>4. Len(s) + 1 \in 1..Len(t)
      BY <2>2
    <3>5. p = x => Holds(t, p)
      BY <2>2, <3>4 DEF Holds
    <3> QED
      BY <3>1, <3>3, <3>5
  <2> QED
    BY <1>3, <2>2, <2>5, <2>6 DEF Ascending
<1> QED
  BY <1>2, <1>3

(* The oldest packet leaves the network. *)
LEMMA HeadRemoved ==
    ASSUME NEW s \in Seq(PacketType), Ascending(s), 1 \in 1..Len(s),
           NEW t, t = RemoveAt(s, 1)
    PROVE  /\ Ascending(t)
           /\ \A p : Holds(t, p) => Holds(s, p)
           /\ \A p : Holds(s, p) => p = s[1] \/ Holds(t, p)
           /\ ~ Holds(t, s[1])
<1>1. Len(s) \in Nat /\ 1 <= Len(s)
  BY LenProperties
<1> DEFINE a == SubSeq(s, 1, 0)
           b == SubSeq(s, 2, Len(s))
<1>2. t = a \o b
  BY DEF RemoveAt
<1>3. a \in Seq(PacketType) /\ Len(a) = 0
  BY <1>1, SubSeqProperties
<1>4. /\ b \in Seq(PacketType) /\ Len(b) = Len(s) - 1
      /\ \A i \in 1..Len(s) - 1 : b[i] = s[i + 1]
  <2>1. \A i \in 2..Len(s) : i \in 1..Len(s)
    BY <1>1
  <2>2. /\ b \in Seq(PacketType) /\ Len(b) = IF 2 <= Len(s) THEN Len(s) - 2 + 1 ELSE 0
        /\ \A i \in 1..Len(s) - 2 + 1 : b[i] = s[2 + i - 1]
    BY <1>1, <2>1, SubSeqProperties
  <2>3. Len(b) = Len(s) - 1 /\ Len(s) - 2 + 1 = Len(s) - 1
    <3> DEFINE n == Len(s)
               m == Len(b)
    <3>1. n \in Nat /\ 1 <= n /\ m = IF 2 <= n THEN n - 2 + 1 ELSE 0
      BY <1>1, <2>2
    <3> HIDE DEF n, m
    <3>2. m = n - 1 /\ n - 2 + 1 = n - 1
      BY <3>1
    <3> QED
      BY <3>2 DEF n, m
  <2>4. \A i \in 1..Len(s) - 1 : 2 + i - 1 = i + 1
    BY <1>1
  <2> QED
    BY <2>2, <2>3, <2>4
<1> HIDE DEF a, b
<1>5. Len(t) = Len(s) - 1 /\ \A i \in 1..Len(s) - 1 : t[i] = s[i + 1]
  <2>1. /\ Len(t) = Len(a) + Len(b)
        /\ \A i \in 1..Len(b) : t[Len(a) + i] = b[i]
    BY <1>2, <1>3, <1>4, ConcatProperties
  <2>2. \A i \in 1..Len(s) - 1 : t[i] = b[i]
    BY <1>1, <1>3, <1>4, <2>1
  <2> QED
    BY <1>1, <1>3, <1>4, <2>1, <2>2
<1>6. \A i \in 1..Len(s) - 1 : i + 1 \in 1..Len(s)
  BY <1>1
<1>7. Ascending(t)
  <2> SUFFICES ASSUME NEW i \in 1..Len(t), NEW j \in 1..Len(t), i < j
               PROVE  t[i].seq < t[j].seq
    BY DEF Ascending
  <2>1. i + 1 \in 1..Len(s) /\ j + 1 \in 1..Len(s) /\ i + 1 < j + 1
    BY <1>1, <1>5
  <2>2. s[i + 1].seq < s[j + 1].seq
    BY <2>1 DEF Ascending
  <2> QED
    BY <1>5, <2>2
<1>8. \A p : Holds(t, p) => Holds(s, p)
  BY <1>5, <1>6 DEF Holds
<1>9. ASSUME NEW i \in 1..Len(s), i # 1
      PROVE  Holds(t, s[i])
  <2>1. i - 1 \in 1..Len(t) /\ i - 1 \in 1..Len(s) - 1 /\ (i - 1) + 1 = i
    BY <1>1, <1>5, <1>9
  <2>2. t[i - 1] = s[i]
    BY <1>5, <2>1
  <2> QED
    BY <2>1, <2>2 DEF Holds
<1>10. ~ Holds(t, s[1])
  <2> SUFFICES ASSUME NEW i \in 1..Len(t), t[i] = s[1]
               PROVE  FALSE
    BY DEF Holds
  <2>1. i + 1 \in 1..Len(s) /\ 1 < i + 1 /\ t[i] = s[i + 1]
    BY <1>1, <1>5
  <2>2. s[1].seq < s[i + 1].seq
    BY <2>1 DEF Ascending
  <2>3. s[1].seq \in Nat
    <3>1. s[1] \in PacketType
      BY ElementOfSeq
    <3> QED
      BY <3>1 DEF PacketType
  <2> QED
    BY <2>1, <2>2, <2>3
<1> QED
  BY <1>7, <1>8, <1>9, <1>10 DEF Holds

(* What the kernel refuses is lost. *)
LEMMA SendDrops ==
    ASSUME Send, IsFiniteSet(dropped)
    PROVE  IsFiniteSet(dropped') /\ UNCHANGED <<era, max>>
<1>1. PICK taken, parityTaken \in BOOLEAN :
        /\ SendChunk(taken, parityTaken)
        /\ dropped' = dropped \cup (IF taken THEN {} ELSE {DataPacket})
                              \cup (IF parityTaken THEN {} ELSE {ParityPacket})
        /\ UNCHANGED max
  BY DEF Send
<1>2. \A x : IsFiniteSet({x})
  BY FS_Singleton
<1> DEFINE some == dropped \cup (IF taken THEN {} ELSE {DataPacket})
<1>3. IsFiniteSet(some) /\ dropped' = some \cup (IF parityTaken THEN {} ELSE {ParityPacket})
  BY <1>1, <1>2, FS_Union
<1> HIDE DEF some
<1>4. IsFiniteSet(some \cup {ParityPacket})
  BY <1>2, <1>3, FS_Union
<1> QED
  BY <1>1, <1>3, <1>4 DEF SendChunk

(* A send appends what the kernel takes, and what it refuses is lost.      *)
LEMMA SendAppends ==
    ASSUME StreamInv, NoWrap, Ascending(net), Send
    PROVE  /\ Ascending(net') /\ UNCHANGED <<era, max>>
           /\ sent \subseteq sent' /\ dropped \subseteq dropped'
           /\ IsFiniteSet(dropped) => IsFiniteSet(dropped')
           /\ Cardinality(dropped') <= max.lost
           /\ \A p \in sent' \ sent : p.era = era /\ p.seq \in Nat /\ sequence <= p.seq
           /\ dropped' \subseteq dropped \cup (sent' \ sent)
           /\ \A p : Holds(net', p) <=> Holds(net, p) \/ p \in (sent' \ sent) \ dropped'
<1>1. SenderInv /\ Sending
  BY SendIsSending DEF StreamInv
<1>2. PICK taken, parityTaken \in BOOLEAN :
        /\ SendChunk(taken, parityTaken)
        /\ ~ parityTaken => ClosesGroup
        /\ dropped' = dropped \cup (IF taken THEN {} ELSE {DataPacket})
                              \cup (IF parityTaken THEN {} ELSE {ParityPacket})
        /\ Cardinality(dropped') <= max.lost
  BY DEF Send
<1>3. /\ DataPacket \in PacketType /\ DataPacket.seq = sequence /\ DataPacket.era = era
      /\ sequence \in Nat /\ era \in Nat
  BY <1>1, DataPacketIs, ScenarioType DEF SenderInv, Counters
<1>4. ClosesGroup =>
        ParityPacket \in PacketType /\ ParityPacket.seq = sequence + 1 /\ ParityPacket.era = era
  BY <1>1, ParityPacketIs, GroupAssumption DEF Sending, ClosesGroup
<1>5. /\ UNCHANGED <<max, era>>
      /\ sent' = IF ClosesGroup THEN sent \cup {DataPacket, ParityPacket} ELSE sent \cup {DataPacket}
  BY <1>1 DEF Sending
<1>6. /\ net \in Seq(PacketType) /\ Ascending(net)
      /\ \A p : Holds(net, p) =>
            p \in sent /\ p.era = era /\ p \in PacketType /\ p.seq \in Nat /\ p.seq < sequence
  BY InFlight
<1> DEFINE first == net \o Handed(taken, DataPacket)
<1>7. /\ first \in Seq(PacketType) /\ Ascending(first)
      /\ \A p : Holds(first, p) <=> Holds(net, p) \/ (taken /\ p = DataPacket)
  <2>1. \A p \in PacketType : Holds(net, p) => p.seq < DataPacket.seq
    BY <1>3, <1>6
  <2>2. /\ first = net \o Handed(taken, DataPacket)
        /\ Handed(taken, DataPacket) \in {<< >>, <<DataPacket>>}
        /\ taken <=> Handed(taken, DataPacket) = <<DataPacket>>
    BY DEF Handed
  <2>3. net \in Seq(PacketType) /\ Ascending(net) /\ DataPacket \in PacketType
    BY <1>3, <1>6
  <2> HIDE DEF first
  <2> QED
    BY <2>1, <2>2, <2>3, HandedOver
<1> HIDE DEF first
<1>8. /\ Ascending(net')
      /\ \A p : Holds(net', p) <=> \/ Holds(net, p)
                                   \/ taken /\ p = DataPacket
                                   \/ ClosesGroup /\ parityTaken /\ p = ParityPacket
  <2>1. CASE SendClosing(taken, parityTaken)
    <3>1. ClosesGroup /\ net' = first \o Handed(parityTaken, ParityPacket)
      BY <2>1 DEF SendClosing, first
    <3>2. \A p \in PacketType : Holds(first, p) => p.seq < ParityPacket.seq
      <4> SUFFICES ASSUME NEW p \in PacketType, Holds(first, p)
                   PROVE  p.seq < ParityPacket.seq
        OBVIOUS
      <4>1. p.seq \in Nat /\ p.seq <= sequence
        BY <1>3, <1>6, <1>7
      <4> QED
        BY <1>3, <1>4, <3>1, <4>1
    <3> DEFINE second == first \o Handed(parityTaken, ParityPacket)
    <3>3. /\ second \in Seq(PacketType) /\ Ascending(second)
          /\ \A p : Holds(second, p) <=> Holds(first, p) \/ (parityTaken /\ p = ParityPacket)
      <4>1. /\ second = first \o Handed(parityTaken, ParityPacket)
            /\ Handed(parityTaken, ParityPacket) \in {<< >>, <<ParityPacket>>}
            /\ parityTaken <=> Handed(parityTaken, ParityPacket) = <<ParityPacket>>
        BY DEF Handed
      <4>2. first \in Seq(PacketType) /\ Ascending(first) /\ ParityPacket \in PacketType
        BY <1>4, <1>7, <3>1
      <4> HIDE DEF second
      <4> QED
        BY <3>2, <4>1, <4>2, HandedOver
    <3>4. net' = second
      BY <3>1
    <3> HIDE DEF second
    <3> QED
      BY <1>7, <3>1, <3>3, <3>4 DEF Ascending, Holds
  <2>2. CASE SendWithinGroup(taken)
    <3>1. ~ ClosesGroup /\ net' = first
      BY <2>2 DEF SendWithinGroup, first
    <3> QED
      BY <1>7, <3>1 DEF Ascending, Holds
  <2> QED
    BY <1>2, <2>1, <2>2 DEF SendChunk
<1>9. IsFiniteSet(dropped) => IsFiniteSet(dropped')
  BY SendDrops
<1>10. /\ DataPacket \notin sent /\ (ClosesGroup => ParityPacket \notin sent)
       /\ DataPacket # ParityPacket
  <2>1. \A p \in sent : p.era = era => p.seq \in Nat /\ p.seq < sequence
    BY <1>1 DEF SenderInv, SentNumbers, PacketType
  <2>2. DataPacket.parity = FALSE /\ ParityPacket.parity = TRUE
    BY DEF DataPacket, ParityPacket, Packet
  <2> QED
    BY <1>3, <1>4, <2>1, <2>2
<1>11. DataPacket \notin dropped /\ (ClosesGroup => ParityPacket \notin dropped)
  BY <1>10 DEF StreamInv, NetInv
<1>12. sent' \ sent = IF ClosesGroup THEN {DataPacket, ParityPacket} ELSE {DataPacket}
  BY <1>5, <1>10
<1>13. /\ dropped \subseteq dropped' /\ dropped' \subseteq dropped \cup (sent' \ sent)
  BY <1>2, <1>12
<1>14. /\ DataPacket \in dropped' <=> ~ taken
       /\ ClosesGroup => (ParityPacket \in dropped' <=> ~ parityTaken)
  BY <1>2, <1>10, <1>11
<1>15. ASSUME NEW p
       PROVE  Holds(net', p) <=> Holds(net, p) \/ p \in (sent' \ sent) \ dropped'
  BY <1>8, <1>12, <1>14
<1>16. \A p \in sent' \ sent : p.era = era /\ p.seq \in Nat /\ sequence <= p.seq
  BY <1>3, <1>4, <1>12
<1> QED
  BY <1>2, <1>5, <1>8, <1>9, <1>13, <1>15, <1>16

(* Only the oldest packet can arrive or be lost. *)
LEMMA OldestArrives ==
    ASSUME StreamInv, Ascending(net), max.overtake = 0, NEW i \in Arriving
    PROVE  /\ i = 1 /\ 1 \in 1..Len(net) /\ Holds(net, net[1])
           /\ \A p : Holds(net, p) => net[1].seq <= p.seq
<1>1. net \in Seq(PacketType)
  BY InFlight
<1>2. i \in 1..Len(net) /\ i <= 1 /\ Len(net) \in Nat
  BY <1>1, LenProperties DEF Arriving
<1>3. i = 1 /\ 1 \in 1..Len(net) /\ Holds(net, net[1])
  BY <1>2 DEF Holds
<1>4. ASSUME NEW j \in 1..Len(net)
      PROVE  net[1].seq <= net[j].seq
  <2>1. net[1].seq \in Nat /\ net[j].seq \in Nat
    BY <1>3, InFlight DEF Holds
  <2>2. j # 1 => net[1].seq < net[j].seq
    <3>1. j # 1 => 1 < j
      BY <1>2
    <3> QED
      BY <1>3, <3>1 DEF Ascending
  <2> QED
    BY <2>1, <2>2
<1> QED
  BY <1>3, <1>4 DEF Holds
=============================================================================

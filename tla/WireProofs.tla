----------------------------- MODULE WireProofs ------------------------------
(***************************************************************************)
(* What is proved of Wire for every frame size, packet size, group size    *)
(* and length of buffers and blocks: the sender's half of the invariant,   *)
(* what the receiver does with one emission, and the stream without FEC.   *)
(* WireFecProofs has the rest.                                             *)
(***************************************************************************)
EXTENDS Wire, NumberProofs

(* The numbers of a run, and what the receiver adds to them, are below the *)
(* half of the number space at which a packet looks like an old one.       *)
Roomy == 4 * MaxFrames + 4 * (GroupSize + 1) < SeqSpace

(* NULL is no payload. *)
LostIsNoPayload == Lost \notin SUBSET (Int \X Int \X Int)

-----------------------------------------------------------------------------
(* The invariant: the sender. *)

(* A cell has a position, a frame and a place. *)
Cells == Int \X Int \X Int
PacketType == [seq : Nat, parity : BOOLEAN, ns : Nat, pl : SUBSET Cells]
EmissionType == [seq : Nat, ns : Nat, pl : (SUBSET Cells) \cup {Lost}]
FrameType == [real : BOOLEAN, data : SUBSET Cells, gain : Nat]

(* The frame a data packet starts with. *)
FirstFrame(p) == (CHOOSE c \in p.pl : c[1] = 0)[2]

(* The number of the next packet that arrives or is lost. *)
Arrived == sequence - Len(wire)

(* The number of the data packet after number s. *)
NextData(s) == IF setup.fec /\ (s + 1) % (GroupSize + 1) = GroupSize THEN s + 2 ELSE s + 1

Counters ==
    /\ setup \in Setups /\ block \in setup.blocks \cup {0} /\ offset \in 0..block
    /\ timestamp \in Nat /\ timestamp + block <= MaxFrames
    /\ sequence \in Nat /\ sequence <= 2 * (timestamp + offset) /\ inGroup \in Nat
    /\ failures \in Nat /\ (failures = 0 /\ sequence = 0 => timestamp + offset = 0)
    /\ IF setup.fec THEN inGroup < GroupSize /\ sequence % (GroupSize + 1) = inGroup
                    ELSE inGroup = 0

SentType ==
    /\ IsFiniteSet(sent)
    /\ \A p \in sent :
        /\ p \in PacketType /\ p.seq < sequence /\ p.ns \in 1..MaxPerPacket
        /\ setup.fec => p.ns <= setup.txBuffer
        /\ p.parity <=> setup.fec /\ p.seq % (GroupSize + 1) = GroupSize
        /\ \A c \in p.pl : c[1] < p.ns * width

SentOnce ==
    /\ \A p, q \in sent : p.seq = q.seq => p = q
    /\ \A s \in Nat : s < sequence => \E p \in sent : p.seq = s

SentData ==
    /\ \A p \in Data :
        /\ FirstFrame(p) \in Nat /\ p.pl = PcmPack(FirstFrame(p), p.ns)
        /\ FirstFrame(p) + p.ns <= timestamp + offset
        /\ failures = 0 =>
            /\ p.seq = 0 => FirstFrame(p) = 0
            /\ NextData(p.seq) >= sequence => FirstFrame(p) + p.ns = timestamp + offset
    /\ \A p, q \in Data :
        /\ p.seq < q.seq => FirstFrame(p) + p.ns <= FirstFrame(q)
        /\ failures = 0 /\ q.seq = NextData(p.seq) => FirstFrame(p) + p.ns = FirstFrame(q)

SameLength == \A p, q \in Data : p.ns = q.ns

EvenlyCut ==
    failures = 0 /\ ~ setup.fec /\ SameLength => \A p \in Data : FirstFrame(p) = p.seq * p.ns

DataIn(S) == {d \in Data : d.seq \in S}
Covered(S) == UNION {d.pl : d \in DataIn(S)}

ParityInv ==
    /\ acc = IF setup.fec THEN Covered(sequence - inGroup..sequence - 1) ELSE {}
    /\ \A p \in sent : p.parity =>
        /\ p.pl = First(Covered(p.seq - GroupSize..p.seq - 1), p.ns * width)
        /\ \E d \in Data : d.ns = p.ns

SenderInv == Counters /\ SentType /\ SentOnce /\ SentData /\ EvenlyCut /\ ParityInv

-----------------------------------------------------------------------------
(* Packing and unpacking. *)

(* Products grow with a factor. *)
LEMMA ScaleMono ==
    ASSUME NEW a \in Int, NEW b \in Int, NEW w \in Nat, a <= b
    PROVE  a * w <= b * w
<1>1. (b - a) * w >= 0
  BY SMT
<1>2. b * w = a * w + (b - a) * w
  BY SMT
<1>3. a * w \in Int /\ b * w \in Int /\ (b - a) * w \in Int
  BY SMT
<1> QED
  BY <1>1, <1>2, <1>3

(* A position belongs to one frame. *)
LEMMA FrameOfPosition ==
    ASSUME NEW w \in Nat \ {0}, NEW i \in Int, NEW j \in Int, NEW k \in 0..w - 1,
           (i - 1) * w <= j * w + k, j * w + k < i * w
    PROVE  j = i - 1
<1>1. i * w \in Int /\ j * w \in Int /\ (i - 1) * w \in Int /\ k \in Int /\ 0 <= k /\ k < w
  BY SMT
<1>2. ~ (i <= j)
  <2> SUFFICES ASSUME i <= j PROVE FALSE
    OBVIOUS
  <2>1. i * w <= j * w
    BY ScaleMono
  <2> QED
    BY <1>1, <2>1
<1>3. ~ (j + 1 <= i - 1)
  <2> SUFFICES ASSUME j + 1 <= i - 1 PROVE FALSE
    OBVIOUS
  <2>1. (j + 1) * w <= (i - 1) * w
    BY ScaleMono
  <2>2. (j + 1) * w = j * w + w
    BY SMT
  <2> QED
    BY <1>1, <2>1, <2>2
<1> QED
  BY <1>2, <1>3

(* What the assumptions say of the sizes. *)
LEMMA Sizes ==
    /\ GroupSize \in Nat \ {0} /\ GroupSize + 1 \in Nat \ {0} /\ SeqSpace \in Nat \ {0}
    /\ Capacity \in Nat /\ Fade \in Nat /\ MaxFrames \in Nat /\ MaxLost \in Nat /\ MaxStray \in Nat
BY SizesAssumption

(* A packet's frames fit in it, and with FEC in the buffers of both sides. *)
LEMMA Widths ==
    ASSUME setup \in Setups
    PROVE  /\ width \in Nat \ {0} /\ MaxPerPacket \in Nat \ {0}
           /\ \A n \in 0..MaxPerPacket : n * width \in Nat /\ n * width <= Capacity
           /\ setup.fec \in BOOLEAN /\ setup.txBuffer \in Nat /\ setup.rxBuffer \in Nat
           /\ \A b \in setup.blocks : b \in Nat
           /\ setup.fec => /\ setup.txBuffer <= MaxPerPacket /\ setup.txBuffer <= setup.rxBuffer
                           /\ \A b \in setup.blocks : b <= setup.txBuffer
<1>1. width \in 1..Capacity /\ Capacity \in Nat
  BY SetupsAssumption, Sizes DEF width
<1> DEFINE w == width
           m == Capacity \div w
<1>2. w \in Nat \ {0} /\ w <= Capacity
  BY <1>1
<1> HIDE DEF w
<1>3. m \in Nat /\ Capacity % w \in 0..w - 1 /\ Capacity = w * m + (Capacity % w)
  BY <1>1, <1>2, RemainderBounds
<1> HIDE DEF m
<1>4. m # 0
  <2> SUFFICES ASSUME m = 0 PROVE FALSE
    OBVIOUS
  <2>1. w * m = 0
    BY <1>2
  <2> QED
    BY <1>1, <1>2, <1>3, <2>1
<1>5. ASSUME NEW n \in 0..m
      PROVE  n * w \in Nat /\ n * w <= Capacity
  <2>1. n * w <= m * w
    BY <1>2, <1>3, ScaleMono
  <2>2. m * w = w * m /\ m * w \in Nat /\ n * w \in Nat
    BY <1>2, <1>3
  <2> QED
    BY <1>1, <1>2, <1>3, <2>1, <2>2
<1>6. MaxPerPacket = m
  BY DEF MaxPerPacket, m, w
<1>7. /\ setup.fec \in BOOLEAN /\ setup.txBuffer \in Nat /\ setup.rxBuffer \in Nat
      /\ \A b \in setup.blocks : b \in Nat
      /\ setup.fec => /\ setup.txBuffer <= MaxPerPacket /\ setup.txBuffer <= setup.rxBuffer
                      /\ \A b \in setup.blocks : b <= setup.txBuffer
  BY SetupsAssumption DEF MaxPerPacket, width
<1> QED
  BY <1>2, <1>3, <1>4, <1>5, <1>6, <1>7 DEF w

(* What pcm_pack writes. *)
LEMMA PackedCells ==
    ASSUME setup \in Setups, NEW f \in Nat, NEW n \in Nat
    PROVE  /\ PcmPack(f, n) \in SUBSET Cells
           /\ \A c \in PcmPack(f, n) : /\ 0 <= c[1] /\ c[1] < n * width
                                       /\ f <= c[2] /\ c[2] < f + n
           /\ \A i \in 0..n - 1, k \in 0..width - 1 : <<i * width + k, f + i, k>> \in PcmPack(f, n)
<1> DEFINE w == width
<1>1. w \in Nat \ {0}
  BY Widths
<1>2. PcmPack(f, n) = {<<i * w + k, f + i, k>> : i \in 0..n - 1, k \in 0..w - 1}
  BY DEF PcmPack
<1>3. ASSUME NEW i \in 0..n - 1, NEW k \in 0..w - 1
      PROVE  /\ i * w + k \in Int /\ f + i \in Int /\ k \in Int
             /\ 0 <= i * w + k /\ i * w + k < n * w /\ f <= f + i /\ f + i < f + n
  <2> HIDE DEF w
  <2>1. (i + 1) * w <= n * w /\ 0 * w <= i * w
    BY <1>1, ScaleMono
  <2>2. (i + 1) * w = i * w + w /\ 0 * w = 0 /\ i * w \in Int /\ n * w \in Int
    BY <1>1
  <2>3. k \in Int /\ 0 <= k /\ k < w /\ w \in Int
    BY <1>1
  <2> QED
    BY <2>1, <2>2, <2>3
<1> HIDE DEF w
<1>4. /\ PcmPack(f, n) \in SUBSET Cells
      /\ \A c \in PcmPack(f, n) : 0 <= c[1] /\ c[1] < n * w /\ f <= c[2] /\ c[2] < f + n
      /\ \A i \in 0..n - 1, k \in 0..w - 1 : <<i * w + k, f + i, k>> \in PcmPack(f, n)
  BY <1>2, <1>3 DEF Cells
<1> QED
  BY <1>4 DEF w

(* The frame a packed payload starts with. *)
LEMMA PackedFirst ==
    ASSUME setup \in Setups, NEW f \in Nat, NEW n \in Nat \ {0}
    PROVE  (CHOOSE c \in PcmPack(f, n) : c[1] = 0)[2] = f
<1> DEFINE w == width
<1>1. w \in Nat \ {0}
  BY Widths
<1>2. PcmPack(f, n) = {<<i * w + k, f + i, k>> : i \in 0..n - 1, k \in 0..w - 1}
  BY DEF PcmPack
<1> HIDE DEF w
<1>3. ASSUME NEW i \in 0..n - 1, NEW k \in 0..w - 1, i * w + k = 0
      PROVE  f + i = f
  <2>1. 0 \in Int /\ 1 \in Int /\ i \in Int /\ k \in 0..w - 1 /\ (1 - 1) * w <= i * w + k /\ i * w + k < 1 * w
    BY <1>1, <1>3
  <2>2. i = 1 - 1
    BY <1>1, <2>1, FrameOfPosition
  <2> QED
    BY <2>2
<1>4. 0 \in 0..n - 1 /\ 0 \in 0..w - 1 /\ 0 * w + 0 = 0 /\ f + 0 = f
  BY <1>1
<1>5. <<0, f, 0>> \in PcmPack(f, n)
  BY <1>2, <1>4
<1>6. \A c \in PcmPack(f, n) : c[1] = 0 => c[2] = f
  BY <1>2, <1>3
<1> QED
  BY <1>5, <1>6

(* Different frames have different bytes. *)
LEMMA FrameInjective ==
    ASSUME setup \in Setups, NEW f, NEW g, FrameBytes(f) = FrameBytes(g)
    PROVE  f = g
<1>1. 0 \in 0..width - 1
  BY Widths
<1>2. <<0, f, 0>> \in FrameBytes(g)
  BY <1>1 DEF FrameBytes
<1> QED
  BY <1>2 DEF FrameBytes

(* pcm_unpack_interleaved undoes pcm_pack, whatever follows in the buffer. *)
LEMMA UnpackPacked ==
    ASSUME setup \in Setups, NEW f \in Nat, NEW n \in Nat, NEW cells,
           cells \in SUBSET Cells, First(cells, n * width) = PcmPack(f, n)
    PROVE  PcmUnpack(cells, n) = [i \in 1..n |-> FrameBytes(f + i - 1)]
<1> DEFINE w == width
           piece(i) == Beyond(First(cells, i * w), (i - 1) * w)
           bytes(i) == {<<c[1] - (i - 1) * w, c[2], c[3]>> : c \in piece(i)}
<1>1. w \in Nat \ {0}
  BY Widths
<1>2. PcmUnpack(cells, n) = [i \in 1..n |-> bytes(i)]
  BY DEF PcmUnpack
<1>3. PcmPack(f, n) = {<<i * w + k, f + i, k>> : i \in 0..n - 1, k \in 0..w - 1}
  BY DEF PcmPack
<1>4. \A g : FrameBytes(g) = {<<k, g, k>> : k \in 0..w - 1}
  BY DEF FrameBytes
<1>5. {c \in cells : c[1] < n * w} = PcmPack(f, n)
  BY DEF First
<1> HIDE DEF w
<1>6. ASSUME NEW i \in 1..n
      PROVE  bytes(i) = FrameBytes(f + i - 1)
  <2>1. i \in Int /\ i - 1 \in 0..n - 1 /\ (i - 1) * w \in Int /\ i * w \in Int /\ n * w \in Int
        /\ (i - 1) * w + w = i * w /\ i * w <= n * w
    <3>1. i * w <= n * w
      BY <1>1, ScaleMono
    <3> QED
      BY <1>1, <3>1
  <2>2. piece(i) = {c \in PcmPack(f, n) : (i - 1) * w <= c[1] /\ c[1] < i * w}
    <3>1. \A c \in cells : c[1] \in Int
      BY DEF Cells
    <3> HIDE <1>3
    <3>2. \A c \in cells : c[1] < i * w => c[1] < n * w
      <4> SUFFICES ASSUME NEW c \in cells, c[1] < i * w PROVE c[1] < n * w
        OBVIOUS
      <4>1. c[1] \in Int
        BY <3>1
      <4> DEFINE a == c[1]
      <4> HIDE DEF a
      <4> QED
        BY <2>1, <4>1 DEF a
    <3>3. \A c \in PcmPack(f, n) : c \in cells /\ c[1] < n * w
      BY <1>5
    <3>4. \A c \in cells : c[1] < n * w => c \in PcmPack(f, n)
      BY <1>5
    <3>5. piece(i) = {c \in cells : c[1] < i * w /\ c[1] >= (i - 1) * w}
      BY DEF Beyond, First
    <3>6. \A c \in cells : c[1] >= (i - 1) * w <=> (i - 1) * w <= c[1]
      BY <2>1, <3>1
    <3> HIDE DEF piece
    <3> QED
      BY <3>2, <3>3, <3>4, <3>5, <3>6
  <2>3. ASSUME NEW j \in 0..n - 1, NEW k \in 0..w - 1, (i - 1) * w <= j * w + k, j * w + k < i * w
        PROVE  j = i - 1
    BY <1>1, <2>1, <2>3, FrameOfPosition
  <2>4. ASSUME NEW k \in 0..w - 1
        PROVE  /\ (i - 1) * w <= (i - 1) * w + k /\ (i - 1) * w + k < i * w
               /\ (i - 1) * w + k - (i - 1) * w = k
    <3> DEFINE a == (i - 1) * w
               b == i * w
    <3>1. a \in Int /\ b \in Int /\ a + w = b
      BY <2>1
    <3> HIDE DEF a, b
    <3>2. a <= a + k /\ a + k < b /\ a + k - a = k
      BY <1>1, <3>1
    <3> QED
      BY <3>2 DEF a, b
  <2>5. piece(i) = {<<(i - 1) * w + k, f + (i - 1), k>> : k \in 0..w - 1}
    <3> HIDE DEF piece
    <3>1. ASSUME NEW c \in piece(i)
          PROVE  \E k \in 0..w - 1 : c = <<(i - 1) * w + k, f + (i - 1), k>>
      <4>1. PICK j \in 0..n - 1, k \in 0..w - 1 : c = <<j * w + k, f + j, k>>
        BY <1>3, <2>2
      <4>2. (i - 1) * w <= j * w + k /\ j * w + k < i * w
        BY <2>2, <4>1
      <4>3. j = i - 1
        BY <2>3, <4>2
      <4> QED
        BY <4>1, <4>3
    <3>2. ASSUME NEW k \in 0..w - 1
          PROVE  <<(i - 1) * w + k, f + (i - 1), k>> \in piece(i)
      <4>1. <<(i - 1) * w + k, f + (i - 1), k>> \in PcmPack(f, n)
        BY <1>3, <2>1
      <4> QED
        BY <2>2, <2>4, <4>1
    <3> QED
      BY <3>1, <3>2
  <2>6. ASSUME NEW c, NEW k \in 0..w - 1, c = <<(i - 1) * w + k, f + (i - 1), k>>
        PROVE  <<c[1] - (i - 1) * w, c[2], c[3]>> = <<k, f + (i - 1), k>>
    <3>1. c[1] = (i - 1) * w + k /\ c[2] = f + (i - 1) /\ c[3] = k
      BY <2>6
    <3>2. c[1] - (i - 1) * w = k
      <4> DEFINE x == c[1]
                 a == (i - 1) * w
      <4>1. x = a + k /\ a \in Int /\ k \in Int
        BY <1>1, <2>1, <3>1
      <4> HIDE DEF x, a
      <4>2. x - a = k
        BY <4>1
      <4> QED
        BY <4>2 DEF x, a
    <3> QED
      BY <3>1, <3>2
  <2>7. bytes(i) = {<<k, f + (i - 1), k>> : k \in 0..w - 1}
    <3> HIDE DEF piece
    <3>1. ASSUME NEW c \in piece(i)
          PROVE  \E k \in 0..w - 1 :
                     <<c[1] - (i - 1) * w, c[2], c[3]>> = <<k, f + (i - 1), k>>
      <4>1. PICK k \in 0..w - 1 : c = <<(i - 1) * w + k, f + (i - 1), k>>
        BY <2>5
      <4>2. <<c[1] - (i - 1) * w, c[2], c[3]>> = <<k, f + (i - 1), k>>
        BY <2>6, <4>1
      <4> QED
        BY <4>2
    <3>2. ASSUME NEW k \in 0..w - 1
          PROVE  \E c \in piece(i) :
                     <<c[1] - (i - 1) * w, c[2], c[3]>> = <<k, f + (i - 1), k>>
      <4>1. PICK c \in piece(i) : c = <<(i - 1) * w + k, f + (i - 1), k>>
        BY <2>5
      <4>2. <<c[1] - (i - 1) * w, c[2], c[3]>> = <<k, f + (i - 1), k>>
        BY <2>6, <4>1
      <4> QED
        BY <4>2
    <3> QED
      BY <3>1, <3>2
  <2>8. f + (i - 1) = f + i - 1
    OBVIOUS
  <2> HIDE DEF bytes
  <2> QED
    BY <1>4, <2>7, <2>8
<1> HIDE DEF bytes
<1>7. [i \in 1..n |-> bytes(i)] = [i \in 1..n |-> FrameBytes(f + i - 1)]
  BY <1>6
<1> QED
  BY <1>2, <1>7

-----------------------------------------------------------------------------
(* The sender keeps its half of the invariant. *)

(* What depends on the options alone does not change. *)
LEMMA SetupKept ==
    ASSUME setup' = setup
    PROVE  /\ width' = width /\ MaxPerPacket' = MaxPerPacket
           /\ \A f, n : PcmPack(f, n)' = PcmPack(f, n)
           /\ \A f : FrameBytes(f)' = FrameBytes(f)
           /\ \A s : NextData(s)' = NextData(s)
BY DEF width, MaxPerPacket, PcmPack, FrameBytes, NextData

(* A sender at number 0 satisfies the invariant. *)
LEMMA SenderInit == Init => SenderInv
<1> SUFFICES ASSUME Init PROVE SenderInv
  OBVIOUS
<1>1. /\ setup \in Setups /\ sequence = 0 /\ timestamp = 0 /\ block = 0 /\ offset = 0
      /\ inGroup = 0 /\ acc = {} /\ sent = {} /\ failures = 0
  BY DEF Init
<1>2. IsFiniteSet({}) /\ Data = {}
  BY <1>1, FS_EmptySet DEF Data
<1>3. Counters
  <2>1. 0 % (GroupSize + 1) = 0
    BY Sizes
  <2> QED
    BY <1>1, <2>1, Sizes DEF Counters
<1>4. SentType /\ SentOnce /\ SentData /\ EvenlyCut
  BY <1>1, <1>2 DEF SentType, SentOnce, SentData, EvenlyCut
<1>5. ParityInv
  <2>1. \A S : Covered(S) = {}
    BY <1>2 DEF Covered, DataIn
  <2> QED
    BY <1>1, <2>1 DEF ParityInv
<1> QED
  BY <1>3, <1>4, <1>5 DEF SenderInv

(* A new block starts where the last one ended. *)
LEMMA CallbackKeepsSender ==
    ASSUME SenderInv, CallbackBlock
    PROVE  SenderInv'
<1>1. /\ setup' = setup /\ sequence' = sequence /\ inGroup' = inGroup /\ acc' = acc /\ sent' = sent
      /\ failures' = failures /\ block' \in setup.blocks /\ timestamp' = timestamp + block /\ offset' = 0
      /\ timestamp' + block' <= MaxFrames /\ offset = block
  BY DEF CallbackBlock
<1>2. setup \in Setups /\ \A b \in setup.blocks : b \in Nat
  BY Widths DEF SenderInv, Counters
<1>3. /\ timestamp \in Nat /\ block \in Nat /\ block' \in Nat
      /\ timestamp' + offset' = timestamp + offset
  BY <1>1, <1>2 DEF SenderInv, Counters
<1>4. Counters'
  BY <1>1, <1>3 DEF SenderInv, Counters
<1>5. SentType'
  BY <1>1, SetupKept DEF SenderInv, SentType
<1>6. SentOnce'
  BY <1>1 DEF SenderInv, SentOnce
<1>7. SentData'
  <2>1. Data' = Data
    BY <1>1 DEF Data
  <2> QED
    BY <1>1, <1>3, <2>1, SetupKept DEF SenderInv, SentData
<1>8. EvenlyCut'
  <2>1. Data' = Data
    BY <1>1 DEF Data
  <2> QED
    BY <1>1, <2>1 DEF SenderInv, EvenlyCut, SameLength
<1>9. ParityInv'
  <2>1. Data' = Data
    BY <1>1 DEF Data
  <2>2. \A S : Covered(S)' = Covered(S)
    BY <2>1 DEF Covered, DataIn
  <2> QED
    BY <1>1, <2>1, <2>2, SetupKept DEF SenderInv, ParityInv
<1> QED
  BY <1>4, <1>5, <1>6, <1>7, <1>8, <1>9 DEF SenderInv

(* The length of a piece: never zero, and with FEC a whole block. *)
LEMMA ChunkIs ==
    ASSUME Counters, offset < block
    PROVE  /\ Chunk \in 1..MaxPerPacket /\ Chunk <= block - offset
           /\ setup.fec => Chunk <= setup.txBuffer
<1>1. /\ block \in Nat /\ offset \in Nat /\ MaxPerPacket \in Nat \ {0}
      /\ setup.fec => block <= setup.txBuffer /\ setup.txBuffer \in Nat
  BY Widths DEF Counters
<1>2. Chunk = IF block - offset > MaxPerPacket THEN MaxPerPacket ELSE block - offset
  BY DEF Chunk, AtMost
<1>3. Chunk \in 1..MaxPerPacket /\ Chunk <= block - offset
  BY <1>1, <1>2
<1>4. setup.fec => Chunk <= setup.txBuffer
  BY <1>1, <1>3
<1> QED
  BY <1>3, <1>4

(* A payload that fits is copied whole. *)
LEMMA FirstOfPacked ==
    ASSUME setup \in Setups, NEW f \in Nat, NEW n \in Nat, NEW m \in Nat, n <= m
    PROVE  First(PcmPack(f, n), m * width) = PcmPack(f, n)
<1> DEFINE a == n * width
           b == m * width
<1>1. a \in Int /\ b \in Int /\ a <= b
  <2> DEFINE w == width
  <2>1. w \in Nat
    BY Widths
  <2> HIDE DEF w
  <2>2. n * w <= m * w /\ n * w \in Int /\ m * w \in Int
    BY <2>1, ScaleMono
  <2> QED
    BY <2>2 DEF w
<1>2. \A c \in PcmPack(f, n) : c[1] \in Int /\ c[1] < a
  BY PackedCells DEF Cells
<1> HIDE DEF a
<1> HIDE DEF b
<1>3. \A c \in PcmPack(f, n) : c[1] < b
  BY <1>1, <1>2
<1> QED
  BY <1>3 DEF First, b

(* The next data packet's number is ahead, and not beyond the next to be   *)
(* used.                                                                   *)
LEMMA NextDataIs ==
    ASSUME Counters, NEW s \in Nat, s < sequence
    PROVE  NextData(s) \in Nat /\ NextData(s) <= sequence /\ s < NextData(s)
<1>1. sequence \in Nat
  BY DEF Counters
<1>2. CASE setup.fec /\ (s + 1) % (GroupSize + 1) = GroupSize
  <2>1. s + 1 # sequence
    <3>1. sequence % (GroupSize + 1) # GroupSize
      <4>1. sequence % (GroupSize + 1) = inGroup /\ inGroup < GroupSize /\ inGroup \in Nat
        BY <1>2 DEF Counters
      <4> QED
        BY <4>1, Sizes
    <3> QED
      BY <1>2, <3>1
  <2>2. NextData(s) = s + 2
    BY <1>2 DEF NextData
  <2> QED
    BY <1>1, <2>1, <2>2
<1>3. CASE ~ (setup.fec /\ (s + 1) % (GroupSize + 1) = GroupSize)
  <2>1. NextData(s) = s + 1
    BY <1>3 DEF NextData
  <2> QED
    BY <1>1, <2>1
<1> QED
  BY <1>2, <1>3

(* What emit_data_packet puts on the wire. *)
LEMMA PieceSent ==
    ASSUME SenderInv, SendPiece
    PROVE  /\ setup' = setup /\ timestamp' = timestamp /\ block' = block /\ offset' = offset + Chunk
           /\ timestamp + offset \in Nat
           /\ DataPacket \in PacketType /\ DataPacket.seq = sequence /\ ~ DataPacket.parity
           /\ DataPacket.ns = Chunk /\ DataPacket.pl = PcmPack(timestamp + offset, Chunk)
           /\ FirstFrame(DataPacket) = timestamp + offset
           /\ Data' = Data \cup {DataPacket} /\ sequence' = NextData(sequence)
           /\ failures' = failures
<1>1. offset < block /\ Counters
  BY DEF SendPiece, SenderInv
<1>2. Chunk \in 1..MaxPerPacket /\ Chunk \in Nat \ {0}
  BY <1>1, ChunkIs, Widths DEF Counters
<1>3. timestamp + offset \in Nat /\ sequence \in Nat /\ setup \in Setups
  BY <1>1, Widths DEF Counters
<1>4. DataPacket = [seq |-> sequence, parity |-> FALSE, ns |-> Chunk, pl |-> PcmPack(timestamp + offset, Chunk)]
  BY DEF DataPacket, Packet, Slice
<1>5. DataPacket \in PacketType
  <2>1. PcmPack(timestamp + offset, Chunk) \in SUBSET Cells
    BY <1>2, <1>3, PackedCells
  <2> QED
    BY <1>2, <1>3, <1>4, <2>1 DEF PacketType
<1>6. FirstFrame(DataPacket) = timestamp + offset
  BY <1>2, <1>3, <1>4, PackedFirst DEF FirstFrame
<1>7. Data' = Data \cup {DataPacket} /\ sequence' = NextData(sequence)
  <2>1. CASE setup.fec /\ ClosesGroup
    <3>1. wire' = <<DataPacket, ParityPacket>> /\ sequence' = sequence + 2 /\ sent' = sent \cup ToSet(wire')
      BY <2>1 DEF SendPiece, SendDataAndParity
    <3>2. sent' = sent \cup {DataPacket, ParityPacket}
      BY <3>1 DEF ToSet
    <3>3. ParityPacket.parity
      BY DEF ParityPacket, Packet
    <3>4. Data' = Data \cup {DataPacket}
      BY <1>4, <3>2, <3>3 DEF Data
    <3>5. (sequence + 1) % (GroupSize + 1) = GroupSize
      <4> DEFINE w == GroupSize + 1
      <4>1. sequence % w = inGroup /\ inGroup \in Nat /\ inGroup < GroupSize /\ inGroup + 1 >= GroupSize
        BY <1>1, <2>1 DEF Counters, ClosesGroup
      <4>2. w \in Nat \ {0} /\ (sequence % w) + 1 < w /\ inGroup + 1 = GroupSize
        BY <4>1, Sizes
      <4> HIDE DEF w
      <4>3. (sequence + 1) % w = (sequence % w) + 1
        BY <1>3, <4>2, NextRemainder
      <4> QED
        BY <4>1, <4>2, <4>3 DEF w
    <3> QED
      BY <2>1, <3>1, <3>4, <3>5 DEF NextData
  <2>2. CASE ~ (setup.fec /\ ClosesGroup)
    <3>1. wire' = <<DataPacket>> /\ sequence' = sequence + 1 /\ sent' = sent \cup ToSet(wire')
      BY <2>2 DEF SendPiece, SendData
    <3>2. sent' = sent \cup {DataPacket}
      BY <3>1 DEF ToSet
    <3>3. Data' = Data \cup {DataPacket}
      BY <1>4, <3>2 DEF Data
    <3>4. ~ (setup.fec /\ (sequence + 1) % (GroupSize + 1) = GroupSize)
      <4> SUFFICES ASSUME setup.fec PROVE (sequence + 1) % (GroupSize + 1) # GroupSize
        OBVIOUS
      <4> DEFINE w == GroupSize + 1
      <4>1. sequence % w = inGroup /\ inGroup \in Nat /\ inGroup < GroupSize /\ inGroup + 1 < GroupSize
        BY <1>1, <2>2, Sizes DEF Counters, ClosesGroup
      <4>2. w \in Nat \ {0} /\ (sequence % w) + 1 < w /\ inGroup + 1 # GroupSize
        BY <4>1, Sizes
      <4> HIDE DEF w
      <4>3. (sequence + 1) % w = (sequence % w) + 1
        BY <1>3, <4>2, NextRemainder
      <4> QED
        BY <4>1, <4>2, <4>3 DEF w
    <3> QED
      BY <3>1, <3>3, <3>4 DEF NextData
  <2> QED
    BY <2>1, <2>2
<1>8. /\ setup' = setup /\ timestamp' = timestamp /\ block' = block /\ offset' = offset + Chunk
      /\ failures' = failures
  BY DEF SendPiece
<1> QED
  BY <1>3, <1>4, <1>5, <1>6, <1>7, <1>8

(* A piece sent keeps numbers, samples and the place in the group in step. *)
LEMMA PieceKeepsCounters ==
    ASSUME SenderInv, SendPiece
    PROVE  Counters'
<1>1. Counters /\ offset < block
  BY DEF SenderInv, SendPiece
<1>2. /\ setup' = setup /\ timestamp' = timestamp /\ block' = block /\ offset' = offset + Chunk
      /\ failures' = failures
  BY PieceSent
<1>3. Chunk \in Nat \ {0} /\ Chunk <= block - offset
  BY <1>1, ChunkIs, Widths DEF Counters
<1>4. /\ offset \in Nat /\ block \in Nat /\ timestamp \in Nat /\ sequence \in Nat /\ inGroup \in Nat
  BY <1>1, Widths DEF Counters
<1>5. offset' \in 0..block /\ timestamp + offset + 1 <= timestamp' + offset'
  BY <1>2, <1>3, <1>4
<1>6. sequence' \in Nat /\ sequence' <= sequence + 2 /\ sequence' # 0
  <2>1. sequence' = sequence + 1 \/ sequence' = sequence + 2
    BY DEF SendPiece, SendData, SendDataAndParity
  <2> QED
    BY <1>4, <2>1
<1>7. IF setup.fec THEN inGroup' < GroupSize /\ sequence' % (GroupSize + 1) = inGroup'
                   ELSE inGroup' = 0
  <2>1. CASE ~ setup.fec
    BY <2>1 DEF SendPiece, SendData
  <2>2. CASE setup.fec
    <3> DEFINE w == GroupSize + 1
    <3>1. w \in Nat \ {0} /\ GroupSize \in Nat \ {0}
      BY Sizes
    <3>2. sequence % w = inGroup /\ inGroup < GroupSize
      BY <1>1, <2>2 DEF Counters
    <3> HIDE DEF w
    <3>3. (sequence + 1) % w = inGroup + 1 /\ (sequence % w) + 1 < w
      <4>1. (sequence % w) + 1 < w
        BY <1>4, <3>1, <3>2 DEF w
      <4> QED
        BY <1>4, <3>1, <3>2, <4>1, NextRemainder
    <3>4. CASE ClosesGroup
      <4>1. inGroup' = 0 /\ sequence' = sequence + 2 /\ inGroup + 1 = GroupSize
        BY <1>4, <2>2, <3>1, <3>2, <3>4 DEF SendPiece, SendDataAndParity, ClosesGroup
      <4>2. ((sequence + 1) % w) + 1 = w /\ sequence + 1 \in Nat
        BY <1>4, <3>3, <4>1 DEF w
      <4>3. ((sequence + 1) + 1) % w = 0
        BY <3>1, <4>2, NextRemainder
      <4>4. (sequence + 1) + 1 = sequence + 2
        BY <1>4
      <4> QED
        BY <2>2, <3>1, <4>1, <4>3, <4>4 DEF w
    <3>5. CASE ~ ClosesGroup
      <4>1. inGroup' = inGroup + 1 /\ sequence' = sequence + 1 /\ inGroup + 1 < GroupSize
        BY <1>4, <2>2, <3>1, <3>5 DEF SendPiece, SendData, ClosesGroup
      <4> QED
        BY <2>2, <3>3, <4>1 DEF w
    <3> QED
      BY <3>4, <3>5
  <2> QED
    BY <2>1, <2>2
<1>8. inGroup' \in Nat
  BY <1>4 DEF SendPiece, SendData, SendDataAndParity
<1>9. sequence' <= 2 * (timestamp' + offset')
  <2>1. sequence <= 2 * (timestamp + offset)
    BY <1>1 DEF Counters
  <2> QED
    BY <1>2, <1>3, <1>4, <1>5, <1>6, <2>1
<1> QED
  BY <1>1, <1>2, <1>5, <1>6, <1>7, <1>8, <1>9 DEF Counters

(* A piece sent starts where the one before it ends. *)
LEMMA PieceKeepsData ==
    ASSUME SenderInv, SendPiece
    PROVE  SentData' /\ EvenlyCut'
<1> DEFINE d == DataPacket
           t == timestamp + offset
<1>1. /\ setup' = setup /\ timestamp' + offset' = t + Chunk /\ t \in Nat
      /\ d.seq = sequence /\ d.ns = Chunk /\ d.pl = PcmPack(t, Chunk) /\ FirstFrame(d) = t
      /\ Data' = Data \cup {d} /\ sequence' = NextData(sequence) /\ failures' = failures
  <2>1. timestamp \in Nat /\ offset \in Nat /\ Chunk \in Nat
    <3>1. Counters /\ offset < block
      BY DEF SenderInv, SendPiece
    <3> QED
      BY <3>1, ChunkIs, Widths DEF Counters
  <2> QED
    BY <2>1, PieceSent
<1>2. Chunk \in Nat \ {0} /\ sequence \in Nat /\ Counters
  <2>1. Counters /\ offset < block
    BY DEF SenderInv, SendPiece
  <2> QED
    BY <2>1, ChunkIs, Widths DEF Counters
<1>3. SentData /\ EvenlyCut /\ SentOnce /\ SentType
  BY DEF SenderInv
<1>4. ASSUME NEW p \in Data
      PROVE  /\ p \in sent /\ p.seq \in Nat /\ p.seq < sequence /\ p.ns \in Nat \ {0}
             /\ NextData(p.seq) \in Nat /\ NextData(p.seq) <= sequence
             /\ FirstFrame(p) \in Nat /\ FirstFrame(p) + p.ns <= t
  <2>1. p \in sent
    BY DEF Data
  <2>2. p.seq \in Nat /\ p.seq < sequence /\ p.ns \in Nat \ {0}
    BY <1>2, <1>3, <2>1, Widths DEF SentType, PacketType, Counters
  <2> QED
    BY <1>2, <1>3, <2>1, <2>2, NextDataIs DEF SentData
<1>5. NextData(sequence) = sequence + 1 \/ NextData(sequence) = sequence + 2
  BY DEF NextData
<1>6. \A s : NextData(s)' = NextData(s)
  BY <1>1, SetupKept
<1>7. \A f, n : PcmPack(f, n)' = PcmPack(f, n)
  BY <1>1, SetupKept
<1> HIDE DEF d, t
<1>8. ASSUME NEW p \in Data'
      PROVE  /\ FirstFrame(p) \in Nat /\ p.pl = PcmPack(FirstFrame(p), p.ns)
             /\ FirstFrame(p) + p.ns <= t + Chunk
             /\ failures = 0 =>
                 /\ p.seq = 0 => FirstFrame(p) = 0
                 /\ NextData(p.seq) >= sequence' => FirstFrame(p) + p.ns = t + Chunk
  <2>1. CASE p \in Data
    <3>1. FirstFrame(p) + p.ns <= t + Chunk /\ ~ (NextData(p.seq) >= sequence')
      BY <1>1, <1>2, <1>4, <1>5, <2>1
    <3> QED
      BY <1>3, <2>1, <3>1 DEF SentData
  <2>2. CASE p = d
    <3>1. failures = 0 /\ sequence = 0 => t = 0
      BY <1>2 DEF Counters, t
    <3> QED
      BY <1>1, <1>2, <2>2, <3>1
  <2> QED
    BY <1>1, <2>1, <2>2
<1>9. ASSUME NEW p \in Data', NEW q \in Data'
      PROVE  /\ p.seq < q.seq => FirstFrame(p) + p.ns <= FirstFrame(q)
             /\ failures = 0 /\ q.seq = NextData(p.seq) => FirstFrame(p) + p.ns = FirstFrame(q)
  <2>1. CASE p \in Data /\ q \in Data
    BY <1>3, <2>1 DEF SentData
  <2>2. CASE p \in Data /\ q = d
    <3>1. failures = 0 /\ NextData(p.seq) >= sequence => FirstFrame(p) + p.ns = t
      BY <1>3, <2>2 DEF SentData, t
    <3>2. FirstFrame(p) + p.ns <= FirstFrame(q) /\ q.seq = sequence /\ FirstFrame(q) = t
      BY <1>1, <1>4, <2>2
    <3> QED
      BY <1>2, <3>1, <3>2
  <2>3. CASE p = d /\ q \in Data
    <3>1. q.seq \in Nat /\ q.seq < sequence /\ p.seq = sequence
      BY <1>1, <1>4, <2>3
    <3> QED
      BY <1>2, <1>5, <3>1
  <2>4. CASE p = d /\ q = d
    BY <1>1, <1>2, <1>5, <2>4
  <2> QED
    BY <1>1, <2>1, <2>2, <2>3, <2>4
<1>10. SentData'
  BY <1>1, <1>6, <1>7, <1>8, <1>9 DEF SentData
<1>11. ASSUME failures = 0, ~ setup.fec, SameLength', NEW p \in Data'
       PROVE  FirstFrame(p) = p.seq * p.ns
  <2>1. SameLength /\ \A q \in Data : q.ns = Chunk
    BY <1>1, <1>11 DEF SameLength
  <2>2. CASE p \in Data
    BY <1>3, <1>11, <2>1, <2>2 DEF EvenlyCut
  <2>3. CASE p = d /\ sequence = 0
    <3>1. t = 0 /\ p.seq = 0 /\ p.ns = Chunk
      BY <1>1, <1>2, <1>11, <2>3 DEF Counters, t
    <3> QED
      BY <1>1, <1>2, <2>3, <3>1
  <2>4. CASE p = d /\ sequence # 0
    <3>1. PICK q \in sent : q.seq = sequence - 1
      <4>1. sequence - 1 \in Nat /\ sequence - 1 < sequence
        BY <1>2, <2>4
      <4> QED
        BY <1>3, <4>1 DEF SentOnce
    <3>2. q \in Data
      BY <1>3, <1>11, <3>1 DEF SentType, Data
    <3>3. NextData(q.seq) = sequence
      BY <1>2, <1>11, <3>1 DEF NextData
    <3>4. FirstFrame(q) + q.ns = t
      BY <1>2, <1>3, <1>11, <3>2, <3>3 DEF SentData, t
    <3>5. q.ns = Chunk /\ FirstFrame(q) = (sequence - 1) * Chunk
      BY <1>3, <1>11, <2>1, <3>1, <3>2 DEF EvenlyCut
    <3>6. t = sequence * Chunk
      <4>1. (sequence - 1) * Chunk + Chunk = sequence * Chunk
        BY <1>2
      <4> QED
        BY <3>4, <3>5, <4>1
    <3> QED
      BY <1>1, <2>4, <3>6
  <2> QED
    BY <1>1, <2>2, <2>3, <2>4
<1>12. EvenlyCut'
  BY <1>1, <1>11 DEF EvenlyCut
<1> QED
  BY <1>10, <1>12

(* What a data packet is. *)
LEMMA DataIs ==
    ASSUME SenderInv, NEW p \in Data
    PROVE  /\ p \in sent /\ p \in PacketType /\ ~ p.parity
           /\ p.seq \in Nat /\ p.seq < sequence /\ p.ns \in Nat \ {0} /\ p.ns \in 1..MaxPerPacket
           /\ setup.fec => p.ns <= setup.txBuffer
           /\ FirstFrame(p) \in Nat /\ p.pl = PcmPack(FirstFrame(p), p.ns)
           /\ FirstFrame(p) + p.ns <= timestamp + offset /\ FirstFrame(p) + p.ns <= MaxFrames
           /\ \A c \in p.pl : /\ c \in Cells /\ c[1] \in Int /\ c[2] \in Int
                              /\ 0 <= c[1] /\ c[1] < p.ns * width
                              /\ FirstFrame(p) <= c[2] /\ c[2] < FirstFrame(p) + p.ns
<1>1. p \in sent /\ ~ p.parity
  BY DEF Data
<1>2. p \in PacketType /\ p.seq < sequence /\ p.ns \in 1..MaxPerPacket /\ (setup.fec => p.ns <= setup.txBuffer)
  BY <1>1 DEF SenderInv, SentType
<1>3. p.seq \in Nat /\ p.ns \in Nat \ {0}
  BY <1>2, Widths DEF PacketType, SenderInv, Counters
<1>4. /\ FirstFrame(p) \in Nat /\ p.pl = PcmPack(FirstFrame(p), p.ns)
      /\ FirstFrame(p) + p.ns <= timestamp + offset
  BY DEF SenderInv, SentData
<1>5. \A c \in p.pl : /\ c \in Cells
                      /\ 0 <= c[1] /\ c[1] < p.ns * width
                      /\ FirstFrame(p) <= c[2] /\ c[2] < FirstFrame(p) + p.ns
  BY <1>3, <1>4, PackedCells DEF SenderInv, Counters
<1>6. \A c \in Cells : c[1] \in Int /\ c[2] \in Int
  BY DEF Cells
<1>7. FirstFrame(p) + p.ns <= MaxFrames
  <2>1. /\ timestamp + offset <= timestamp + block /\ timestamp + block <= MaxFrames
        /\ timestamp \in Nat /\ offset \in Nat /\ block \in Nat /\ MaxFrames \in Nat
    BY Sizes, Widths DEF SenderInv, Counters
  <2> QED
    BY <1>3, <1>4, <2>1
<1> QED
  BY <1>1, <1>2, <1>3, <1>4, <1>5, <1>6, <1>7

(* What a group covers are bytes captured so far. *)
LEMMA CoveredIs ==
    ASSUME SenderInv, NEW S, NEW c \in Covered(S)
    PROVE  /\ c \in Cells /\ c[1] \in Int /\ c[2] \in Int /\ c[2] < timestamp + offset
           /\ \E p \in Data : p.seq \in S /\ c \in p.pl
<1>1. PICK p \in Data : p.seq \in S /\ c \in p.pl
  BY DEF Covered, DataIn
<1>2. timestamp + offset \in Int
  BY Widths DEF SenderInv, Counters
<1>3. /\ c \in Cells /\ c[1] \in Int /\ c[2] \in Int /\ c[2] < FirstFrame(p) + p.ns
      /\ FirstFrame(p) + p.ns <= timestamp + offset /\ FirstFrame(p) + p.ns \in Int
  BY <1>1, DataIs
<1>4. c[2] < timestamp + offset
  BY <1>2, <1>3
<1> QED
  BY <1>1, <1>3, <1>4

(* fec_tx_on_data: no byte of a group's packets meets another, so their    *)
(* XOR is their union.                                                     *)
LEMMA AccumulatedIs ==
    ASSUME SenderInv, SendPiece, setup.fec
    PROVE  Accumulated(Slice(Chunk)) = acc \cup DataPacket.pl
<1> DEFINE t == timestamp + offset
<1>1. Chunk \in Nat /\ Chunk <= setup.txBuffer /\ setup.txBuffer \in Nat /\ t \in Nat /\ setup \in Setups
  <2>1. Counters /\ offset < block
    BY DEF SenderInv, SendPiece
  <2> QED
    BY <2>1, ChunkIs, PieceSent, Widths DEF Counters
<1>2. Slice(Chunk) = DataPacket.pl /\ DataPacket.pl = PcmPack(t, Chunk)
  BY DEF Slice, DataPacket, Packet
<1>3. First(DataPacket.pl, setup.txBuffer * width) = DataPacket.pl
  BY <1>1, <1>2, FirstOfPacked
<1>4. \A c \in acc : c[2] \in Int /\ c[2] < t
  BY CoveredIs DEF SenderInv, ParityInv
<1>5. \A c \in DataPacket.pl : t <= c[2]
  BY <1>1, <1>2, PackedCells
<1>6. \A c \in acc : c \notin DataPacket.pl
  <2> HIDE DEF t
  <2> QED
    BY <1>1, <1>4, <1>5
<1>7. Xor(acc, DataPacket.pl) = acc \cup DataPacket.pl
  BY <1>6 DEF Xor
<1> QED
  BY <1>2, <1>3, <1>7 DEF Accumulated

(* The packets of a step: data, and parity when the group is full. *)
LEMMA PacketsSent ==
    ASSUME SenderInv, SendPiece
    PROVE  \/ /\ setup.fec /\ ClosesGroup
              /\ wire' = <<DataPacket, ParityPacket>> /\ sent' = sent \cup {DataPacket, ParityPacket}
              /\ sequence' = sequence + 2 /\ inGroup' = 0 /\ acc' = {}
              /\ ParityPacket.parity /\ ParityPacket.seq = sequence + 1 /\ ParityPacket.ns = Chunk
              /\ ParityPacket.pl = First(acc \cup DataPacket.pl, Chunk * width)
              /\ ParityPacket \in PacketType
           \/ /\ ~ (setup.fec /\ ClosesGroup)
              /\ wire' = <<DataPacket>> /\ sent' = sent \cup {DataPacket} /\ sequence' = sequence + 1
              /\ IF setup.fec THEN inGroup' = inGroup + 1 /\ acc' = acc \cup DataPacket.pl
                              ELSE inGroup' = 0 /\ acc' = {}
<1>1. CASE setup.fec /\ ClosesGroup
  <2>1. /\ wire' = <<DataPacket, ParityPacket>> /\ sequence' = sequence + 2
        /\ sent' = sent \cup ToSet(wire') /\ inGroup' = 0 /\ acc' = {}
    BY <1>1 DEF SendPiece, SendDataAndParity
  <2>2. ToSet(wire') = {DataPacket, ParityPacket}
    BY <2>1 DEF ToSet
  <2>3. ParityPacket = [seq |-> sequence + 1, parity |-> TRUE, ns |-> Chunk,
                        pl |-> First(acc \cup DataPacket.pl, Chunk * width)]
    BY <1>1, AccumulatedIs DEF ParityPacket, Packet
  <2>4. ParityPacket \in PacketType
    <3>1. sequence + 1 \in Nat /\ Chunk \in Nat
      <4>1. Counters /\ offset < block
        BY DEF SenderInv, SendPiece
      <4> QED
        BY <4>1, ChunkIs, Widths DEF Counters
    <3>2. First(acc \cup DataPacket.pl, Chunk * width) \in SUBSET Cells
      <4>1. \A c \in acc : c \in Cells
        BY CoveredIs DEF SenderInv, ParityInv
      <4>2. DataPacket.pl \in SUBSET Cells
        BY PieceSent DEF PacketType
      <4> QED
        BY <4>1, <4>2 DEF First
    <3> QED
      BY <2>3, <3>1, <3>2 DEF PacketType
  <2> QED
    BY <1>1, <2>1, <2>2, <2>3, <2>4
<1>2. CASE ~ (setup.fec /\ ClosesGroup)
  <2>1. /\ wire' = <<DataPacket>> /\ sequence' = sequence + 1 /\ sent' = sent \cup ToSet(wire')
        /\ inGroup' = (IF setup.fec THEN inGroup + 1 ELSE 0)
        /\ acc' = (IF setup.fec THEN Accumulated(Slice(Chunk)) ELSE {})
    BY <1>2 DEF SendPiece, SendData
  <2>2. ToSet(wire') = {DataPacket}
    BY <2>1 DEF ToSet
  <2> QED
    BY <1>2, <2>1, <2>2, AccumulatedIs
<1> QED
  BY <1>1, <1>2

(* Data and parity packets use a number each, once. *)
LEMMA PieceKeepsSent ==
    ASSUME SenderInv, SendPiece
    PROVE  SentType' /\ SentOnce'
<1> DEFINE d == DataPacket
           q == ParityPacket
<1>1. Counters /\ offset < block /\ SentType /\ SentOnce
  BY DEF SenderInv, SendPiece
<1>2. /\ setup' = setup /\ d \in PacketType /\ d.seq = sequence /\ ~ d.parity /\ d.ns = Chunk
      /\ d.pl = PcmPack(timestamp + offset, Chunk) /\ timestamp + offset \in Nat
  BY PieceSent
<1>3. /\ Chunk \in 1..MaxPerPacket /\ Chunk \in Nat /\ sequence \in Nat /\ setup \in Setups
      /\ setup.fec => Chunk <= setup.txBuffer
  BY <1>1, ChunkIs, Widths DEF Counters
<1>4. \A c \in d.pl : c[1] < Chunk * width
  BY <1>2, <1>3, PackedCells
<1>5. width' = width /\ MaxPerPacket' = MaxPerPacket
  BY <1>2, SetupKept
<1>6. setup.fec => sequence % (GroupSize + 1) = inGroup /\ inGroup \in Nat /\ inGroup < GroupSize
  BY <1>1 DEF Counters
<1>7. sequence' > sequence
  BY <1>3, PacketsSent
<1>8. ASSUME NEW p \in sent
      PROVE  p.seq \in Nat /\ p.seq < sequence /\ p.seq < sequence'
  <2>1. p.seq \in Nat /\ p.seq < sequence
    BY <1>1 DEF SentType, PacketType
  <2>2. sequence' \in Nat
    BY <1>3, PacketsSent
  <2> QED
    BY <1>3, <1>7, <2>1, <2>2
<1>9. CASE setup.fec /\ ClosesGroup
  <2>1. /\ sent' = sent \cup {d, q} /\ sequence' = sequence + 2
        /\ q.parity /\ q.seq = sequence + 1 /\ q.ns = Chunk /\ q \in PacketType
        /\ q.pl = First(acc \cup d.pl, Chunk * width)
    BY <1>9, PacketsSent
  <2>2. \A c \in q.pl : c[1] < Chunk * width
    BY <2>1 DEF First
  <2>3. q.seq % (GroupSize + 1) = GroupSize
    <3>1. inGroup' = 0 /\ ((sequence + 1) + 1) % (GroupSize + 1) = 0
      <4>1. Counters'
        BY PieceKeepsCounters
      <4>2. (sequence + 1) + 1 = sequence + 2
        BY <1>3
      <4> QED
        BY <1>2, <1>9, <2>1, <4>1, <4>2, PacketsSent DEF Counters
    <3> DEFINE w == GroupSize + 1
    <3>2. w \in Nat \ {0} /\ sequence + 1 \in Nat
      BY <1>3, Sizes
    <3> HIDE DEF w
    <3>3. (sequence + 1) % w \in 0..w - 1
      BY <3>2, RemainderBounds
    <3>4. ~ (((sequence + 1) % w) + 1 < w)
      <4> SUFFICES ASSUME ((sequence + 1) % w) + 1 < w PROVE FALSE
        OBVIOUS
      <4>1. ((sequence + 1) + 1) % w = ((sequence + 1) % w) + 1
        BY <3>2, NextRemainder
      <4> QED
        BY <3>1, <3>2, <3>3, <4>1 DEF w
    <3>5. (sequence + 1) % w = w - 1
      BY <3>2, <3>3, <3>4
    <3>6. w - 1 = GroupSize
      BY Sizes DEF w
    <3> QED
      BY <2>1, <3>5, <3>6 DEF w
  <2> HIDE DEF d, q
  <2>4. IsFiniteSet(sent')
    <3>1. IsFiniteSet(sent \cup {d}) /\ sent' = (sent \cup {d}) \cup {q}
      BY <1>1, <2>1, FS_AddElement DEF SentType
    <3> QED
      BY <3>1, FS_AddElement
  <2>5. SentType'
    <3>1. SUFFICES ASSUME NEW p \in sent'
                   PROVE  /\ p \in PacketType /\ p.seq < sequence' /\ p.ns \in 1..MaxPerPacket
                          /\ setup.fec => p.ns <= setup.txBuffer
                          /\ p.parity <=> setup.fec /\ p.seq % (GroupSize + 1) = GroupSize
                          /\ \A c \in p.pl : c[1] < p.ns * width
      BY <1>2, <1>5, <2>4 DEF SentType
    <3>2. CASE p \in sent
      BY <1>1, <1>8, <3>2 DEF SentType
    <3>3. CASE p = d
      <4>1. sequence % (GroupSize + 1) # GroupSize /\ sequence < sequence'
        BY <1>3, <1>6, <1>9, <2>1, Sizes
      <4> QED
        BY <1>2, <1>3, <1>4, <3>3, <4>1
    <3>4. CASE p = q
      <4>1. sequence + 1 < sequence'
        BY <1>3, <2>1
      <4> QED
        BY <1>3, <1>9, <2>1, <2>2, <2>3, <3>4, <4>1
    <3> QED
      BY <2>1, <3>2, <3>3, <3>4
  <2>6. ASSUME NEW p \in sent', NEW r \in sent', p.seq = r.seq
        PROVE  p = r
    <3>1. \A x \in sent : x.seq < sequence /\ x.seq \in Nat
      BY <1>8
    <3>2. d.seq = sequence /\ q.seq = sequence + 1
      BY <1>2, <2>1
    <3>3. CASE p \in sent /\ r \in sent
      BY <1>1, <2>6, <3>3 DEF SentOnce
    <3>4. CASE ~ (p \in sent /\ r \in sent)
      BY <1>3, <2>1, <2>6, <3>1, <3>2, <3>4
    <3> QED
      BY <3>3, <3>4
  <2>7. ASSUME NEW s \in Nat, s < sequence'
        PROVE  \E p \in sent' : p.seq = s
    <3>1. s < sequence \/ s = sequence \/ s = sequence + 1
      BY <1>3, <2>1, <2>7
    <3> QED
      BY <1>1, <1>2, <2>1, <3>1 DEF SentOnce
  <2> QED
    BY <2>5, <2>6, <2>7 DEF SentOnce
<1>10. CASE ~ (setup.fec /\ ClosesGroup)
  <2>1. sent' = sent \cup {d} /\ sequence' = sequence + 1
    BY <1>10, PacketsSent
  <2> HIDE DEF d, q
  <2>2. IsFiniteSet(sent')
    BY <1>1, <2>1, FS_AddElement DEF SentType
  <2>3. SentType'
    <3>1. SUFFICES ASSUME NEW p \in sent'
                   PROVE  /\ p \in PacketType /\ p.seq < sequence' /\ p.ns \in 1..MaxPerPacket
                          /\ setup.fec => p.ns <= setup.txBuffer
                          /\ p.parity <=> setup.fec /\ p.seq % (GroupSize + 1) = GroupSize
                          /\ \A c \in p.pl : c[1] < p.ns * width
      BY <1>2, <1>5, <2>2 DEF SentType
    <3>2. CASE p \in sent
      BY <1>1, <1>8, <3>2 DEF SentType
    <3>3. CASE p = d
      <4>1. (setup.fec => sequence % (GroupSize + 1) # GroupSize) /\ sequence < sequence'
        BY <1>3, <1>6, <2>1, Sizes
      <4> QED
        BY <1>2, <1>3, <1>4, <3>3, <4>1
    <3> QED
      BY <2>1, <3>2, <3>3
  <2>4. ASSUME NEW p \in sent', NEW r \in sent', p.seq = r.seq
        PROVE  p = r
    <3>1. \A x \in sent : x.seq < sequence /\ x.seq \in Nat
      BY <1>8
    <3>2. CASE p \in sent /\ r \in sent
      BY <1>1, <2>4, <3>2 DEF SentOnce
    <3>3. CASE ~ (p \in sent /\ r \in sent)
      BY <1>2, <1>3, <2>1, <2>4, <3>1, <3>3
    <3> QED
      BY <3>2, <3>3
  <2>5. ASSUME NEW s \in Nat, s < sequence'
        PROVE  \E p \in sent' : p.seq = s
    <3>1. s < sequence \/ s = sequence
      BY <1>3, <2>1, <2>5
    <3> QED
      BY <1>1, <1>2, <2>1, <3>1 DEF SentOnce
  <2> QED
    BY <2>3, <2>4, <2>5 DEF SentOnce
<1> QED
  BY <1>9, <1>10

(* The accumulator covers its group, and a parity packet what it covered. *)
LEMMA PieceKeepsParity ==
    ASSUME SenderInv, SendPiece
    PROVE  ParityInv'
<1> DEFINE d == DataPacket
           q == ParityPacket
<1>1. /\ setup' = setup /\ d.seq = sequence /\ d.ns = Chunk /\ ~ d.parity
      /\ Data' = Data \cup {d} /\ width' = width
  BY PieceSent, SetupKept
<1>2. /\ sequence \in Nat /\ inGroup \in Nat /\ GroupSize \in Nat /\ inGroup < GroupSize
      /\ setup.fec \in BOOLEAN
  <2>1. Counters
    BY DEF SenderInv
  <2> QED
    BY <2>1, Sizes, Widths DEF Counters
<1>3. \A p \in sent : p.seq \in Nat /\ p.seq < sequence
  BY DEF SenderInv, SentType, PacketType
<1>4. \A p \in Data : p.seq \in Nat /\ p.seq < sequence
  BY <1>3 DEF Data
<1> HIDE DEF d, q
<1>5. ASSUME NEW S, sequence \notin S
      PROVE  Covered(S)' = Covered(S)
  <2>1. DataIn(S)' = DataIn(S)
    BY <1>1, <1>5 DEF DataIn
  <2> QED
    BY <2>1 DEF Covered
<1>6. ASSUME NEW S, NEW T, T = S \cup {sequence}, sequence \notin S
      PROVE  Covered(T)' = Covered(S) \cup d.pl
  <2>1. DataIn(T)' = DataIn(S) \cup {d}
    BY <1>1, <1>4, <1>6 DEF DataIn
  <2>2. UNION {p.pl : p \in DataIn(S) \cup {d}} = (UNION {p.pl : p \in DataIn(S)}) \cup d.pl
    OBVIOUS
  <2> QED
    BY <2>1, <2>2 DEF Covered
<1>7. ASSUME setup.fec, NEW S, S = sequence - inGroup..sequence
      PROVE  acc \cup d.pl = Covered(S)'
  <2>1. acc = Covered(sequence - inGroup..sequence - 1)
    BY <1>7 DEF SenderInv, ParityInv
  <2>2. /\ sequence - inGroup..sequence = (sequence - inGroup..sequence - 1) \cup {sequence}
        /\ sequence \notin sequence - inGroup..sequence - 1
    BY <1>2
  <2>3. PICK T : T = sequence - inGroup..sequence - 1
    OBVIOUS
  <2> QED
    BY <1>6, <1>7, <2>1, <2>2, <2>3
<1>8. ASSUME NEW p \in sent, p.parity, NEW S, S = p.seq - GroupSize..p.seq - 1
      PROVE  /\ p.pl = First(Covered(S)', p.ns * width)
             /\ \E e \in Data' : e.ns = p.ns
  <2>1. /\ p.pl = First(Covered(S), p.ns * width)
        /\ \E e \in Data : e.ns = p.ns
    BY <1>8 DEF SenderInv, ParityInv
  <2>2. sequence \notin S
    BY <1>2, <1>3, <1>8
  <2>3. Covered(S)' = Covered(S)
    BY <1>5, <2>2
  <2> QED
    BY <1>1, <2>1, <2>3
<1>9. /\ \A S : S = sequence' - inGroup'..sequence' - 1 =>
                    acc' = IF setup.fec THEN Covered(S)' ELSE {}
      /\ \A p \in sent' : p.parity =>
            /\ \A S : S = p.seq - GroupSize..p.seq - 1 => p.pl = First(Covered(S)', p.ns * width)
            /\ \E e \in Data' : e.ns = p.ns
  <2>1. CASE setup.fec /\ ClosesGroup
    <3>1. /\ sent' = sent \cup {d, q} /\ sequence' = sequence + 2 /\ inGroup' = 0 /\ acc' = {}
          /\ q.parity /\ q.seq = sequence + 1 /\ q.ns = Chunk
          /\ q.pl = First(acc \cup d.pl, Chunk * width)
      BY <2>1, PacketsSent DEF d, q
    <3>2. ASSUME NEW S, S = sequence' - inGroup'..sequence' - 1
          PROVE  Covered(S)' = {}
      <4>1. S = {}
        BY <1>2, <3>1, <3>2
      <4>2. DataIn(S)' = {}
        BY <4>1 DEF DataIn
      <4> QED
        BY <4>2 DEF Covered
    <3>3. q.seq - GroupSize = sequence - inGroup /\ q.seq - 1 = sequence
      <4>1. inGroup + 1 = GroupSize
        BY <1>2, <2>1 DEF ClosesGroup
      <4> QED
        BY <1>2, <3>1, <4>1
    <3>4. ASSUME NEW S, S = q.seq - GroupSize..q.seq - 1
          PROVE  q.pl = First(Covered(S)', q.ns * width)
      BY <1>7, <2>1, <3>1, <3>3, <3>4
    <3> QED
      BY <1>1, <1>8, <2>1, <3>1, <3>2, <3>4
  <2>2. CASE ~ (setup.fec /\ ClosesGroup)
    <3>1. /\ sent' = sent \cup {d} /\ sequence' = sequence + 1
          /\ IF setup.fec THEN inGroup' = inGroup + 1 /\ acc' = acc \cup d.pl
                          ELSE inGroup' = 0 /\ acc' = {}
      BY <2>2, PacketsSent DEF d
    <3>2. ASSUME setup.fec, NEW S, S = sequence' - inGroup'..sequence' - 1
          PROVE  acc' = Covered(S)'
      <4>1. sequence' - inGroup' = sequence - inGroup /\ sequence' - 1 = sequence
        BY <1>2, <3>1, <3>2
      <4> QED
        BY <1>7, <3>1, <3>2, <4>1
    <3> QED
      BY <1>1, <1>8, <3>1, <3>2
  <2> QED
    BY <2>1, <2>2
<1> QED
  BY <1>1, <1>9 DEF ParityInv, First

(* A turn of the loop in udp_sender_send_planar. *)
LEMMA PieceKeepsSender == ASSUME SenderInv, SendPiece PROVE SenderInv'
BY PieceKeepsCounters, PieceKeepsSent, PieceKeepsData, PieceKeepsParity DEF SenderInv

(* A piece given up moves the place in the block and nothing else. *)
LEMMA FailKeepsSender ==
    ASSUME SenderInv, SendFails
    PROVE  SenderInv'
<1>1. /\ setup' = setup /\ sequence' = sequence /\ timestamp' = timestamp /\ block' = block
      /\ inGroup' = inGroup /\ acc' = acc /\ sent' = sent
      /\ offset' = offset + Chunk /\ offset < block /\ failures' = failures + 1
  BY DEF SendFails
<1>2. Counters /\ setup \in Setups /\ block \in Nat /\ offset \in Nat
  BY Widths DEF SenderInv, Counters
<1>3. Chunk \in Nat \ {0} /\ Chunk <= block - offset
  BY <1>1, <1>2, ChunkIs, Widths
<1>4. failures' \in Nat /\ failures' # 0 /\ offset' \in 0..block
  BY <1>1, <1>2, <1>3 DEF Counters
<1>5. timestamp \in Nat /\ timestamp + offset <= timestamp' + offset'
  BY <1>1, <1>2, <1>3 DEF Counters
<1>6. Data' = Data
  BY <1>1 DEF Data
<1>7. Counters'
  <2>1. sequence \in Nat /\ sequence <= 2 * (timestamp + offset)
    BY <1>2 DEF Counters
  <2>2. sequence' <= 2 * (timestamp' + offset')
    BY <1>1, <1>2, <1>3, <1>5, <2>1
  <2> QED
    BY <1>1, <1>2, <1>4, <2>2 DEF Counters
<1>8. SentType' /\ SentOnce'
  BY <1>1, SetupKept DEF SenderInv, SentType, SentOnce
<1>9. SentData'
  <2>1. ASSUME NEW p \in Data
        PROVE  /\ FirstFrame(p) \in Nat /\ p.pl = PcmPack(FirstFrame(p), p.ns)
               /\ FirstFrame(p) + p.ns <= timestamp' + offset'
    <3>1. p.ns \in Nat /\ FirstFrame(p) \in Nat /\ FirstFrame(p) + p.ns <= timestamp + offset
      BY DEF SenderInv, SentData, SentType, Data, PacketType
    <3> QED
      BY <1>1, <1>2, <1>3, <1>5, <3>1 DEF SenderInv, SentData
  <2>2. \A p, q \in Data : p.seq < q.seq => FirstFrame(p) + p.ns <= FirstFrame(q)
    BY DEF SenderInv, SentData
  <2> QED
    BY <1>1, <1>4, <1>6, <2>1, <2>2, SetupKept DEF SentData
<1>10. EvenlyCut'
  BY <1>4 DEF EvenlyCut
<1>11. ParityInv'
  <2>1. \A S : Covered(S)' = Covered(S)
    BY <1>6 DEF Covered, DataIn
  <2> QED
    BY <1>1, <1>6, <2>1, SetupKept DEF SenderInv, ParityInv
<1> QED
  BY <1>7, <1>8, <1>9, <1>10, <1>11 DEF SenderInv

(* Steps of the receiver alone. *)
LEMMA SenderUnchanged ==
    ASSUME SenderInv, UNCHANGED <<setup, senderVars>>
    PROVE  SenderInv' /\ Data' = Data
<1>1. /\ setup' = setup /\ sequence' = sequence /\ timestamp' = timestamp /\ block' = block
      /\ offset' = offset /\ inGroup' = inGroup /\ acc' = acc /\ sent' = sent
      /\ failures' = failures
  BY DEF senderVars
<1>2. Data' = Data
  BY <1>1 DEF Data
<1>3. Counters' /\ SentType' /\ SentOnce'
  BY <1>1, SetupKept DEF SenderInv, Counters, SentType, SentOnce
<1>4. SentData' /\ EvenlyCut'
  BY <1>1, <1>2, SetupKept DEF SenderInv, SentData, EvenlyCut, SameLength
<1>5. ParityInv'
  <2>1. \A S : Covered(S)' = Covered(S)
    BY <1>2 DEF Covered, DataIn
  <2> QED
    BY <1>1, <1>2, <2>1, SetupKept DEF SenderInv, ParityInv
<1> QED
  BY <1>2, <1>3, <1>4, <1>5 DEF SenderInv

-----------------------------------------------------------------------------
(* The invariant: the network and the packet buffer. *)

NetInv ==
    /\ wire \in Seq(sent) /\ Len(wire) <= sequence
    /\ \A i \in 1..Len(wire) : wire[i].seq = Arrived + i - 1
    /\ dropped \subseteq sent /\ \A p \in dropped : p.seq < Arrived
    /\ packetBuf \in SUBSET Cells /\ \A c \in packetBuf : c[1] < Capacity

(* What never goes back. *)
Grows ==
    /\ setup' = setup /\ sent \subseteq sent' /\ Data \subseteq Data' /\ dropped \subseteq dropped'
    /\ \A p \in sent' : p \in sent \/ p.seq >= sequence
    /\ Arrived \in Nat /\ Arrived' \in Nat /\ Arrived <= Arrived'

(* A sequence without its head. *)
LEMMA TailIs ==
    ASSUME NEW S, NEW s \in Seq(S), s # << >>
    PROVE  /\ Len(s) \in Nat \ {0} /\ Head(s) = s[1] /\ s[1] \in S
           /\ Tail(s) \in Seq(S) /\ Len(Tail(s)) = Len(s) - 1
           /\ \A i \in 1..Len(s) - 1 : Tail(s)[i] = s[i + 1]
<1>1. Len(s) \in Nat /\ Len(s) # 0
  BY EmptySeq, LenProperties
<1>2. Head(s) = s[1] /\ Tail(s) \in Seq(S) /\ Len(Tail(s)) = Len(s) - 1
  BY HeadTailProperties
<1>3. s[1] \in S
  BY <1>1, ElementOfSeq
<1>4. \A i \in 1..Len(s) - 1 : Tail(s)[i] = s[i + 1]
  BY HeadTailProperties
<1> QED
  BY <1>1, <1>2, <1>3, <1>4

(* A sequence over a set is one over a larger set. *)
LEMMA SubsetSeq ==
    ASSUME NEW S, NEW T, S \subseteq T, NEW s \in Seq(S)
    PROVE  s \in Seq(T)
OBVIOUS

(* What has arrived is what was sent and is not in flight. *)
LEMMA NetTypes ==
    ASSUME SenderInv, NetInv
    PROVE  sequence \in Nat /\ Len(wire) \in Nat /\ Arrived \in Nat /\ Arrived <= sequence
<1>1. Len(wire) \in Nat /\ sequence \in Nat /\ Len(wire) <= sequence
  BY LenProperties DEF NetInv, SenderInv, Counters
<1> QED
  BY <1>1 DEF Arrived

(* The next packet on the wire. *)
LEMMA WireHead ==
    ASSUME SenderInv, NetInv, wire # << >>
    PROVE  /\ Head(wire) \in sent /\ Head(wire).seq = Arrived /\ Arrived < sequence
           /\ Tail(wire) \in Seq(sent) /\ Len(Tail(wire)) = Len(wire) - 1
           /\ \A i \in 1..Len(Tail(wire)) : Tail(wire)[i].seq = (Arrived + 1) + i - 1
<1>1. wire \in Seq(sent)
  BY DEF NetInv
<1>2. /\ Len(wire) \in Nat \ {0} /\ Head(wire) = wire[1] /\ wire[1] \in sent
      /\ Tail(wire) \in Seq(sent) /\ Len(Tail(wire)) = Len(wire) - 1
      /\ \A i \in 1..Len(wire) - 1 : Tail(wire)[i] = wire[i + 1]
  BY <1>1, TailIs
<1>3. sequence \in Nat /\ Arrived \in Nat /\ Arrived = sequence - Len(wire)
  BY NetTypes DEF Arrived
<1>4. \A i \in 1..Len(wire) : wire[i].seq = Arrived + i - 1
  BY DEF NetInv
<1>5. ASSUME NEW i \in 1..Len(Tail(wire))
      PROVE  Tail(wire)[i].seq = (Arrived + 1) + i - 1
  <2>1. i \in 1..Len(wire) - 1 /\ i + 1 \in 1..Len(wire)
    BY <1>2
  <2>2. Tail(wire)[i] = wire[i + 1] /\ wire[i + 1].seq = Arrived + (i + 1) - 1
    BY <1>2, <1>4, <2>1
  <2> QED
    BY <1>3, <2>1, <2>2
<1> QED
  BY <1>2, <1>3, <1>4, <1>5

(* Packets sent come after those in flight. *)
LEMMA SendKeepsNet ==
    ASSUME SenderInv, NetInv, CallbackBlock \/ SendFails \/ SendPiece
    PROVE  NetInv' /\ Grows /\ Arrived' = Arrived /\ Arrived = sequence /\ dropped' = dropped
<1>1. /\ wire = << >> /\ setup' = setup /\ packetBuf' = packetBuf /\ dropped' = dropped
  BY DEF CallbackBlock, SendFails, SendPiece
<1>2. Arrived = sequence /\ sequence \in Nat
  <2>1. Len(wire) = 0
    BY <1>1
  <2> QED
    BY <2>1, NetTypes DEF Arrived
<1>3. /\ dropped \subseteq sent /\ \A p \in dropped : p.seq < Arrived
      /\ packetBuf \in SUBSET Cells /\ \A c \in packetBuf : c[1] < Capacity
  BY DEF NetInv
<1>4. CASE CallbackBlock \/ SendFails
  <2>1. sent' = sent /\ sequence' = sequence /\ wire' = wire
    BY <1>4 DEF CallbackBlock, SendFails
  <2>2. Arrived' = Arrived /\ Data' = Data
    BY <2>1 DEF Arrived, Data
  <2>3. NetInv'
    BY <1>1, <2>1, <2>2 DEF NetInv
  <2> QED
    BY <1>1, <1>2, <2>1, <2>2, <2>3 DEF Grows
<1>5. CASE SendPiece
  <2> DEFINE d == DataPacket
             q == ParityPacket
  <2>1. d.seq = sequence /\ Data' = Data \cup {d}
    BY <1>5, PieceSent
  <2>2. \/ wire' = <<d>> /\ sent' = sent \cup {d} /\ sequence' = sequence + 1
        \/ /\ wire' = <<d, q>> /\ sent' = sent \cup {d, q} /\ sequence' = sequence + 2
           /\ q.seq = sequence + 1
    BY <1>5, PacketsSent
  <2> HIDE DEF d, q
  <2>3. /\ wire' \in Seq(sent') /\ Len(wire') <= sequence' /\ sequence' - Len(wire') = sequence
        /\ \A i \in 1..Len(wire') : wire'[i].seq = sequence + i - 1
        /\ sent \subseteq sent' /\ \A p \in sent' : p \in sent \/ p.seq >= sequence
    <3>1. CASE wire' = <<d>> /\ sent' = sent \cup {d} /\ sequence' = sequence + 1
      <4>1. wire' \in Seq(sent') /\ Len(wire') = 1 /\ wire'[1] = d
        BY <3>1
      <4> QED
        BY <1>2, <2>1, <3>1, <4>1
    <3>2. CASE /\ wire' = <<d, q>> /\ sent' = sent \cup {d, q} /\ sequence' = sequence + 2
               /\ q.seq = sequence + 1
      <4>1. wire' \in Seq(sent') /\ Len(wire') = 2 /\ wire'[1] = d /\ wire'[2] = q
        BY <3>2
      <4> QED
        BY <1>2, <2>1, <3>2, <4>1
    <3> QED
      BY <2>2, <3>1, <3>2
  <2>4. Arrived' = Arrived
    BY <1>2, <2>3 DEF Arrived
  <2>5. NetInv'
    BY <1>1, <1>2, <1>3, <2>3, <2>4 DEF NetInv
  <2> QED
    BY <1>1, <1>2, <2>1, <2>3, <2>4, <2>5 DEF Grows
<1> QED
  BY <1>4, <1>5

(* A packet is taken off the wire. *)
LEMMA TakeKeepsNet ==
    ASSUME SenderInv, NetInv, wire # << >>, wire' = Tail(wire), UNCHANGED <<setup, senderVars>>,
           \/ dropped' = dropped \cup {Head(wire)} /\ packetBuf' = packetBuf
           \/ dropped' = dropped /\ packetBuf' = Received(Head(wire))
    PROVE  NetInv' /\ Grows /\ Arrived' = Arrived + 1
<1>1. sent' = sent /\ sequence' = sequence /\ setup' = setup /\ Data' = Data
  BY DEF senderVars, Data
<1>2. /\ Head(wire) \in sent /\ Head(wire).seq = Arrived /\ Arrived < sequence
      /\ Tail(wire) \in Seq(sent) /\ Len(Tail(wire)) = Len(wire) - 1
      /\ \A i \in 1..Len(Tail(wire)) : Tail(wire)[i].seq = (Arrived + 1) + i - 1
  BY WireHead
<1>3. sequence \in Nat /\ Len(wire) \in Nat /\ Arrived \in Nat
  BY NetTypes
<1>4. Arrived' = Arrived + 1 /\ Len(wire') <= sequence'
  BY <1>1, <1>2, <1>3 DEF Arrived
<1>5. dropped' \subseteq sent /\ \A p \in dropped' : p.seq < Arrived + 1
  <2>1. \A p \in dropped : p \in sent /\ p.seq < Arrived /\ p.seq \in Nat
    BY DEF NetInv, SenderInv, SentType, PacketType
  <2> QED
    BY <1>2, <1>3, <2>1
<1>6. packetBuf' \in SUBSET Cells /\ \A c \in packetBuf' : c[1] < Capacity
  <2>1. CASE packetBuf' = packetBuf
    BY <2>1 DEF NetInv
  <2>2. CASE packetBuf' = Received(Head(wire))
    <3> DEFINE p == Head(wire)
               m == p.ns * width
    <3>1. p \in PacketType /\ p.ns \in 1..MaxPerPacket /\ \A c \in p.pl : c[1] < m
      BY <1>2 DEF SenderInv, SentType
    <3>2. m \in Nat /\ m <= Capacity
      <4>1. p.ns \in 0..MaxPerPacket
        BY <3>1, Widths DEF SenderInv, Counters
      <4> QED
        BY <4>1, Widths DEF SenderInv, Counters
    <3> HIDE DEF m
    <3>3. p.pl \in SUBSET Cells /\ \A c \in p.pl : c[1] < Capacity
      <4>1. p.pl \in SUBSET Cells /\ \A c \in Cells : c[1] \in Int
        BY <3>1 DEF PacketType, Cells
      <4> QED
        BY <3>1, <3>2, <4>1, Sizes
    <3> QED
      BY <2>2, <3>3 DEF Received, Beyond, NetInv
  <2> QED
    BY <2>1, <2>2
<1>7. NetInv'
  BY <1>1, <1>2, <1>4, <1>5, <1>6 DEF NetInv
<1> QED
  BY <1>1, <1>3, <1>4, <1>7 DEF Grows

(* A stray packet overwrites the packet buffer and nothing else. *)
LEMMA StrayKeepsNet ==
    ASSUME SenderInv, NetInv, UNCHANGED <<setup, senderVars, wire, dropped>>,
           packetBuf' = packetBuf \/ ReceiveStray
    PROVE  NetInv' /\ Grows /\ Arrived' = Arrived
<1>1. sent' = sent /\ sequence' = sequence /\ setup' = setup /\ Data' = Data
  BY DEF senderVars, Data
<1>2. Arrived' = Arrived
  BY <1>1 DEF Arrived
<1>3. packetBuf' \in SUBSET Cells /\ \A c \in packetBuf' : c[1] < Capacity
  <2>1. CASE packetBuf' = packetBuf
    BY <2>1 DEF NetInv
  <2>2. CASE ReceiveStray
    <3>1. packetBuf' = {<<k, MaxFrames, k>> : k \in 0..Capacity - 1}
      BY <2>2 DEF ReceiveStray
    <3> QED
      BY <3>1, Sizes DEF Cells
  <2> QED
    BY <2>1, <2>2
<1>4. NetInv'
  BY <1>1, <1>2, <1>3 DEF NetInv
<1> QED
  BY <1>1, <1>2, <1>4, NetTypes DEF Grows

(* Every step of sender, network and receiver. *)
LEMMA NextKeepsNet ==
    ASSUME SenderInv, NetInv, [Next]_vars
    PROVE  SenderInv' /\ NetInv' /\ Grows
<1>1. CASE CallbackBlock
  BY <1>1, CallbackKeepsSender, SendKeepsNet
<1>2. CASE SendPiece
  BY <1>2, PieceKeepsSender, SendKeepsNet
<1>3. CASE Lose
  BY <1>3, SenderUnchanged, TakeKeepsNet DEF Lose
<1>4. CASE Receive
  BY <1>4, SenderUnchanged, TakeKeepsNet DEF Receive
<1>5. CASE ReceiveStray
  BY <1>5, SenderUnchanged, StrayKeepsNet DEF ReceiveStray
<1>6. CASE FecStep
  BY <1>6, SenderUnchanged, StrayKeepsNet DEF FecStep
<1>7. CASE Emit
  BY <1>7, SenderUnchanged, StrayKeepsNet DEF Emit
<1>8. CASE UNCHANGED vars
  BY <1>8, SenderUnchanged, StrayKeepsNet DEF vars, senderVars
<1>9. CASE SendFails
  BY <1>9, FailKeepsSender, SendKeepsNet
<1> QED
  BY <1>1, <1>2, <1>3, <1>4, <1>5, <1>6, <1>7, <1>8, <1>9 DEF Next

(* Nothing sent, nothing in flight. *)
LEMMA InitNet == Init => SenderInv /\ NetInv
<1> SUFFICES ASSUME Init PROVE SenderInv /\ NetInv
  OBVIOUS
<1>1. wire = << >> /\ sequence = 0 /\ dropped = {} /\ packetBuf = {}
  BY DEF Init
<1>2. Len(wire) = 0 /\ wire \in Seq(sent)
  BY <1>1
<1>3. NetInv
  BY <1>1, <1>2 DEF NetInv
<1> QED
  BY <1>3, SenderInit

(* The sender's half of the invariant, whatever the receiver does. *)
LEMMA SendingAlways == Spec => [](SenderInv /\ NetInv)
BY InitNet, NextKeepsNet, PTL DEF Spec

(* The buffers hold no more than their size, a piece is within its block,  *)
(* and every payload is within a packet.                                   *)
THEOREM WireTypeCorrect == Spec => []TypeOK
<1>1. SenderInv /\ NetInv => TypeOK
  <2> SUFFICES ASSUME SenderInv, NetInv PROVE TypeOK
    OBVIOUS
  <2>1. Counters /\ SentType /\ ParityInv
    BY DEF SenderInv
  <2>2. ASSUME NEW c \in acc
        PROVE  c[1] < setup.txBuffer * width
    <3>1. setup.fec /\ acc = Covered(sequence - inGroup..sequence - 1)
      BY <2>1, <2>2 DEF ParityInv
    <3>2. PICK p \in Data : c \in p.pl
      BY <3>1, CoveredIs
    <3>3. p.ns \in Nat /\ p.ns <= setup.txBuffer /\ c[1] \in Int /\ c[1] < p.ns * width
      BY <3>1, <3>2, DataIs
    <3> DEFINE w == width
               b == setup.txBuffer
    <3>4. w \in Nat /\ b \in Nat
      BY <2>1, Widths DEF Counters
    <3> HIDE DEF w, b
    <3>5. p.ns * w <= b * w /\ p.ns * w \in Int /\ b * w \in Int
      BY <3>3, <3>4, ScaleMono DEF b
    <3>6. c[1] < p.ns * w
      BY <3>3 DEF w
    <3>7. c[1] < b * w
      <4> DEFINE x == c[1]
                 y == p.ns * w
                 z == b * w
      <4>1. x \in Int /\ y \in Int /\ z \in Int /\ x < y /\ y <= z
        BY <3>3, <3>5, <3>6
      <4> HIDE DEF x, y, z
      <4>2. x < z
        BY <4>1
      <4> QED
        BY <4>2 DEF x, z
    <3> QED
      BY <3>7 DEF w, b
  <2>3. setup \in Setups /\ offset \in 0..block /\ timestamp + block <= MaxFrames
    BY <2>1 DEF Counters
  <2>4. /\ \A p \in sent : p.ns \in 1..MaxPerPacket
        /\ \A c \in packetBuf : c[1] < Capacity
    BY <2>1 DEF SentType, NetInv
  <2> QED
    BY <2>2, <2>3, <2>4 DEF TypeOK
<1> QED
  BY <1>1, SendingAlways, PTL

-----------------------------------------------------------------------------
(* The invariant: what was heard, and what waits to be.                    *)

(* x is the data of the last real frame before i, if there is one. *)
FromLast(i, x) ==
    \/ x = {} /\ \A j \in 1..i - 1 : ~ heard[j].real
    \/ \E k \in 1..i - 1 : /\ heard[k].real /\ x = heard[k].data
                           /\ \A j \in k + 1..i - 1 : ~ heard[j].real

HeardInv ==
    /\ heard \in Seq(FrameType) /\ lastFrame \in SUBSET Cells
    /\ \A i \in 1..Len(heard) : ~ heard[i].real => FromLast(i, heard[i].data)
    /\ FromLast(Len(heard) + 1, lastFrame)

(* A packet as it is emitted, with what was behind it in the buffer. *)
Match(e, p) == e.seq = p.seq /\ e.ns = p.ns /\ First(e.pl, p.ns * width) = p.pl

(* All that is rebuilt from parity is exact. *)
Exact == setup.fec => SameLength \/ dropped = {}

BookType ==
    [have : BOOLEAN, last : Nat, lost : Nat, dups : Nat, reorders : Nat, resets : Nat]

OutInv ==
    /\ book \in BookType
    /\ book.have => book.last < Arrived
    /\ ~ book.have => heard = << >>
    /\ out \in Seq(EmissionType)
    /\ \A i \in 1..Len(out) : out[i].seq < Arrived /\ (book.have => book.last < out[i].seq)
    /\ \A i, j \in 1..Len(out) : i < j => out[i].seq < out[j].seq
    /\ Exact => \A i \in 1..Len(out) : out[i].pl # Lost => \E p \in Data : Match(out[i], p)

(* HeardWasSent, of all the packets at once. *)
HeardSent ==
    Exact => \A i \in 1..Len(heard) : heard[i].real => \E f \in Frames : heard[i].data = FrameBytes(f)

-----------------------------------------------------------------------------
(* rx_emit_packet. *)

(* The numbers of an emission, compared with the last one heard. *)
LEMMA NumberAhead ==
    ASSUME Roomy, NEW last \in Nat, NEW s \in Nat, NEW have \in BOOLEAN,
           s < 2 * MaxFrames, have => last < s
    PROVE  /\ ~ Seq32!LooksRestarted(have, last, s)
           /\ ~ Seq32!IsCopy(have, last, s) /\ ~ Seq32!IsOld(have, last, s)
           /\ Seq32!Missing(have, last, s) = IF have THEN (s - last) - 1 ELSE 0
<1>1. CASE have = FALSE
  BY <1>1 DEF Seq32!LooksRestarted, Seq32!IsCopy, Seq32!IsOld, Seq32!Missing
<1>2. CASE have = TRUE
  <2> DEFINE half == SeqSpace \div 2
  <2>1. /\ SeqSpace \in Nat \ {0} /\ half \in Nat /\ SeqSpace <= 2 * half + 1
        /\ MaxFrames \in Nat /\ 4 * MaxFrames + 4 <= SeqSpace
    <3>1. SeqSpace \in Nat \ {0} /\ MaxFrames \in Nat /\ 4 * MaxFrames + 4 <= SeqSpace
      BY Sizes DEF Roomy
    <3>2. half \in Nat /\ SeqSpace % 2 \in 0..2 - 1 /\ SeqSpace = 2 * half + (SeqSpace % 2)
      <4>1. 2 \in Nat \ {0} /\ SeqSpace \in Nat
        BY <3>1
      <4> QED
        BY <4>1, RemainderBounds
    <3> HIDE DEF half
    <3> QED
      BY <3>1, <3>2
  <2> HIDE DEF half
  <2>2. s - last \in Nat /\ s - last < half /\ s - last < SeqSpace /\ s - last # 0
    BY <1>2, <2>1
  <2>3. (s - last) % SeqSpace = s - last
    BY <2>1, <2>2, SmallRemainder
  <2>4. (last + 1) % SeqSpace = last + 1
    <3>1. last + 1 \in Nat /\ last + 1 < SeqSpace
      BY <1>2, <2>1
    <3> QED
      BY <2>1, <3>1, SmallRemainder
  <2>5. ~ ((s - last) % SeqSpace > SeqSpace \div 2) /\ ~ ((s - last) % SeqSpace >= SeqSpace \div 2)
    BY <2>1, <2>2, <2>3 DEF half
  <2>6. ~ Seq32!LooksRestarted(have, last, s) /\ ~ Seq32!IsCopy(have, last, s) /\ ~ Seq32!IsOld(have, last, s)
    BY <1>2, <2>2, <2>5
       DEF Seq32!LooksRestarted, Seq32!IsCopy, Seq32!IsOld, Seq32!Distance, Seq32!Half
  <2>7. Seq32!Missing(have, last, s) = (s - last) - 1
    <3>1. s > last + 1 \/ s = last + 1
      BY <1>2
    <3>2. Seq32!Missing(have, last, s) = IF s > last + 1 THEN (s - last) - 1 ELSE 0
      BY <1>2, <2>3, <2>4 DEF Seq32!Missing, Seq32!Distance
    <3> QED
      BY <3>1, <3>2
  <2> QED
    BY <1>2, <2>6, <2>7
<1> QED
  BY <1>1, <1>2

(* A function on 1..n is a sequence of n elements. *)
LEMMA FunctionIsSeq ==
    ASSUME NEW S, NEW n \in Nat, NEW t \in [1..n -> S]
    PROVE  t \in Seq(S) /\ Len(t) = n
<1>1. t \in Seq(S)
  BY SeqDef
<1> QED
  BY <1>1, LenProperties

(* A sequence continued by n elements. *)
LEMMA ConcatIs ==
    ASSUME NEW S, NEW s \in Seq(S), NEW n \in Nat, NEW t \in [1..n -> S]
    PROVE  /\ s \o t \in Seq(S) /\ Len(s \o t) = Len(s) + n
           /\ \A i \in 1..Len(s) : (s \o t)[i] = s[i]
           /\ \A j \in 1..n : (s \o t)[Len(s) + j] = t[j]
<1>1. t \in Seq(S) /\ Len(t) = n
  BY FunctionIsSeq
<1>2. s \o t \in Seq(S) /\ Len(s \o t) = Len(s) + n
  BY <1>1, ConcatProperties
<1>3. \A i \in 1..Len(s) : (s \o t)[i] = s[i]
  BY <1>1, ConcatProperties
<1>4. ASSUME NEW j \in 1..n
      PROVE  (s \o t)[Len(s) + j] = t[j]
  <2> DEFINE i == Len(s) + j
  <2>1. Len(s) \in Nat /\ i \in Len(s) + 1..Len(s) + Len(t) /\ i - Len(s) = j
    BY <1>1, LenProperties
  <2> HIDE DEF i
  <2>2. (s \o t)[i] = t[i - Len(s)]
    BY <1>1, <2>1, ConcatProperties
  <2> QED
    BY <2>1, <2>2 DEF i
<1> QED
  BY <1>2, <1>3, <1>4

(* plc_conceal writes frames that are not real and hold the last one. *)
LEMMA ConcealIs ==
    ASSUME lastFrame \in SUBSET Cells, NEW n \in Nat, NEW m \in Nat
    PROVE  /\ m * n \in Nat /\ PlcConceal(n, m) \in [1..m * n -> FrameType]
           /\ \A i \in 1..m * n : ~ PlcConceal(n, m)[i].real /\ PlcConceal(n, m)[i].data = lastFrame
<1> DEFINE gain(k) == IF k < Fade THEN Fade - k ELSE 0
           size == m * n
<1>1. size \in Nat
  OBVIOUS
<1>2. PlcConceal(n, m) = [i \in 1..size |->
            [real |-> FALSE, data |-> lastFrame, gain |-> gain((i - 1) % n)]]
  BY DEF PlcConceal
<1>3. ASSUME NEW i \in 1..size
      PROVE  gain((i - 1) % n) \in Nat
  <2>1. n # 0
    BY <1>3
  <2>2. n \in Nat \ {0} /\ i - 1 \in Nat
    BY <1>1, <2>1
  <2>3. (i - 1) % n \in 0..n - 1
    BY <2>2, RemainderBounds
  <2> DEFINE k == (i - 1) % n
  <2>4. k \in Nat
    BY <2>2, <2>3
  <2> HIDE DEF k
  <2>5. gain(k) \in Nat
    BY <2>4, Sizes
  <2> QED
    BY <2>5 DEF k
<1> HIDE DEF size, gain
<1>4. PlcConceal(n, m) \in [1..size -> FrameType]
  BY <1>2, <1>3 DEF FrameType
<1>5. \A i \in 1..size : ~ PlcConceal(n, m)[i].real /\ PlcConceal(n, m)[i].data = lastFrame
  BY <1>2
<1> QED
  BY <1>1, <1>4, <1>5 DEF size

(* Unpacking gives n frames, whatever the buffer held. *)
LEMMA UnpackedType ==
    ASSUME setup \in Setups, NEW cells \in SUBSET Cells, NEW n \in Nat
    PROVE  PcmUnpack(cells, n) \in [1..n -> SUBSET Cells]
<1> DEFINE w == width
<1>1. w \in Nat
  BY Widths
<1>2. PcmUnpack(cells, n) = [i \in 1..n |->
          {<<c[1] - (i - 1) * w, c[2], c[3]>> : c \in Beyond(First(cells, i * w), (i - 1) * w)}]
  BY DEF PcmUnpack
<1> HIDE DEF w
<1>3. ASSUME NEW i \in 1..n, NEW c \in Beyond(First(cells, i * w), (i - 1) * w)
      PROVE  <<c[1] - (i - 1) * w, c[2], c[3]>> \in Cells
  <2>1. c \in Cells
    BY DEF Beyond, First
  <2>2. c[1] \in Int /\ c[2] \in Int /\ c[3] \in Int /\ (i - 1) * w \in Int
    BY <1>1, <2>1 DEF Cells
  <2>3. c[1] - (i - 1) * w \in Int
    BY <2>2
  <2> QED
    BY <2>2, <2>3 DEF Cells
<1> QED
  BY <1>2, <1>3

(* The lengths are numbers, and that of a packet is its own. *)
LEMMA LengthsAre ==
    ASSUME setup \in Setups, NEW n \in Nat
    PROVE  /\ FillLength(n) \in Nat /\ UnpackedLength(n) \in Nat
           /\ n <= MaxPerPacket => UnpackedLength(n) = n
           /\ n <= MaxPerPacket /\ n # 0 => FillLength(n) = n
<1>1. /\ MaxPerPacket \in Nat /\ setup.rxBuffer \in Nat /\ Scratch \in Nat /\ MaxPerPacket <= Scratch
  BY Widths DEF Scratch
<1> QED
  BY <1>1 DEF FillLength, UnpackedLength, AtMost

(* g frames were concealed and the k frames fr received. *)
Written(g, k, fr) ==
    /\ heard' \in Seq(FrameType) /\ Len(heard') = Len(heard) + g + k
    /\ \A i \in 1..Len(heard) : heard'[i] = heard[i]
    /\ \A i \in Len(heard) + 1..Len(heard) + g : ~ heard'[i].real /\ heard'[i].data = lastFrame
    /\ \A j \in 1..k : heard'[Len(heard) + g + j].real /\ heard'[Len(heard) + g + j].data = fr[j]

(* What rx_emit_packet writes: concealed frames, then received ones. *)
LEMMA WrittenIs ==
    ASSUME heard \in Seq(FrameType), NEW g \in Nat, NEW k \in Nat,
           NEW gap \in [1..g -> FrameType], NEW fr \in [1..k -> SUBSET Cells],
           \A i \in 1..g : ~ gap[i].real /\ gap[i].data = lastFrame,
           heard' = (heard \o gap) \o [j \in 1..k |-> Real(fr[j])]
    PROVE  Written(g, k, fr)
<1> DEFINE s == heard \o gap
           t == [j \in 1..k |-> Real(fr[j])]
           n == Len(heard)
<1>1. n \in Nat /\ s \in Seq(FrameType) /\ Len(s) = n + g
      /\ (\A i \in 1..n : s[i] = heard[i]) /\ \A j \in 1..g : s[n + j] = gap[j]
  <2>1. n \in Nat
    BY LenProperties
  <2>2. s \in Seq(FrameType) /\ Len(s) = n + g
        /\ (\A i \in 1..n : s[i] = heard[i]) /\ \A j \in 1..g : s[n + j] = gap[j]
    <3>1. heard \o gap \in Seq(FrameType)
      BY ConcatIs
    <3>2. Len(heard \o gap) = Len(heard) + g
      BY ConcatIs
    <3>3. \A i \in 1..Len(heard) : (heard \o gap)[i] = heard[i]
      BY ConcatIs
    <3>4. \A j \in 1..g : (heard \o gap)[Len(heard) + j] = gap[j]
      BY ConcatIs
    <3> QED
      BY <3>1, <3>2, <3>3, <3>4
  <2> QED
    BY <2>1, <2>2
<1>2. t \in [1..k -> FrameType] /\ \A j \in 1..k : t[j].real /\ t[j].data = fr[j]
  BY Sizes DEF Real, FrameType
<1> HIDE DEF s, t
<1>3. s \o t \in Seq(FrameType) /\ Len(s \o t) = Len(s) + k
      /\ (\A i \in 1..Len(s) : (s \o t)[i] = s[i]) /\ \A j \in 1..k : (s \o t)[Len(s) + j] = t[j]
  <2>1. s \o t \in Seq(FrameType)
    BY <1>1, <1>2, ConcatIs
  <2> t \in [1..k -> FrameType] /\ s \in Seq(FrameType)
    BY <1>1, <1>2
  <2>2. Len(s \o t) = Len(s) + k
    BY ConcatIs
  <2>3. \A i \in 1..Len(s) : (s \o t)[i] = s[i]
    BY <1>1, <1>2, ConcatIs
  <2>4. \A j \in 1..k : (s \o t)[Len(s) + j] = t[j]
    BY ConcatIs
  <2> QED
    BY <2>1, <2>2, <2>3, <2>4
<1>4. heard' = s \o t
  BY DEF s, t
<1> HIDE DEF n
<1>5. \A i \in 1..n : heard'[i] = heard[i]
  BY <1>1, <1>3, <1>4
<1>6. ASSUME NEW i \in n + 1..n + g
      PROVE  ~ heard'[i].real /\ heard'[i].data = lastFrame
  <2>1. i - n \in 1..g /\ i \in 1..Len(s) /\ n + (i - n) = i
    BY <1>1
  <2>2. heard'[i] = s[i]
    BY <1>3, <1>4, <2>1
  <2>3. s[n + (i - n)] = gap[i - n]
    BY <1>1, <2>1
  <2>4. heard'[i] = gap[i - n]
    BY <2>1, <2>2, <2>3
  <2> QED
    BY <2>1, <2>4
<1>7. \A j \in 1..k : heard'[n + g + j] = t[j]
  BY <1>1, <1>3, <1>4
<1>8. heard' \in Seq(FrameType) /\ Len(heard') = n + g + k
  BY <1>1, <1>3, <1>4
<1> QED
  BY <1>2, <1>5, <1>6, <1>7, <1>8 DEF Written, n

(* The emission that is heard next. *)
LEMMA EmissionNext ==
    ASSUME Roomy, SenderInv, NetInv, OutInv, out # << >>
    PROVE  /\ out[1] \in EmissionType /\ Head(out) = out[1] /\ Len(out) \in Nat \ {0}
           /\ out[1].seq \in Nat /\ out[1].seq < Arrived /\ (book.have => book.last < out[1].seq)
           /\ ~ Seq32!LooksRestarted(book.have, book.last, out[1].seq)
           /\ ~ Seq32!IsCopy(book.have, book.last, out[1].seq)
           /\ ~ Seq32!IsOld(book.have, book.last, out[1].seq)
           /\ Seq32!Missing(book.have, book.last, out[1].seq) =
                IF book.have THEN (out[1].seq - book.last) - 1 ELSE 0
<1>1. out \in Seq(EmissionType)
  BY DEF OutInv
<1>2. Len(out) \in Nat \ {0} /\ Head(out) = out[1] /\ out[1] \in EmissionType
  BY <1>1, TailIs
<1>3. out[1].seq \in Nat /\ out[1].seq < Arrived /\ (book.have => book.last < out[1].seq)
  BY <1>2 DEF OutInv, EmissionType
<1>4. out[1].seq < 2 * MaxFrames
  <2>1. sequence <= 2 * (timestamp + offset) /\ timestamp + offset <= MaxFrames
    <3>1. /\ timestamp + block <= MaxFrames /\ offset <= block /\ sequence <= 2 * (timestamp + offset)
          /\ timestamp \in Nat /\ offset \in Nat /\ block \in Nat
      BY Widths DEF SenderInv, Counters
    <3> QED
      BY <3>1, Sizes
  <2>2. timestamp + offset \in Nat
    BY Widths DEF SenderInv, Counters
  <2> QED
    BY <1>3, <2>1, <2>2, NetTypes, Sizes
<1>5. book.have \in BOOLEAN /\ book.last \in Nat
  BY DEF OutInv, BookType
<1> QED
  BY <1>2, <1>3, <1>4, <1>5, NumberAhead

(* The numbers heard after an emission. *)
LEMMA BookAfter ==
    ASSUME Roomy, SenderInv, NetInv, OutInv, Emit
    PROVE  book' \in BookType /\ book'.have = TRUE /\ book'.last = out[1].seq
<1> DEFINE s == out[1].seq
           more == Seq32!Missing(book.have, book.last, s) + (IF Head(out).pl = Lost THEN 1 ELSE 0)
<1>1. out # << >> /\ book' = Seq32!EmitOne(book, Head(out))
  BY DEF Emit
<1>2. /\ Head(out) = out[1] /\ s \in Nat /\ book \in BookType /\ more \in Nat
      /\ ~ Seq32!LooksRestarted(book.have, book.last, s)
      /\ ~ Seq32!IsCopy(book.have, book.last, s) /\ ~ Seq32!IsOld(book.have, book.last, s)
  <2>1. book \in BookType
    BY DEF OutInv
  <2>2. Seq32!Missing(book.have, book.last, s) \in Nat
    BY <1>1, <2>1, EmissionNext DEF BookType
  <2> QED
    BY <1>1, <2>1, <2>2, EmissionNext
<1>3. Seq32!AfterRestartTest(book, s) = book
  BY <1>2 DEF Seq32!AfterRestartTest
<1>4. book.lost + Seq32!Missing(book.have, book.last, s) + (IF Head(out).pl = Lost THEN 1 ELSE 0)
        = book.lost + more
  <2>1. PICK l \in Nat, m \in Nat, c \in Nat :
            /\ l = book.lost /\ m = Seq32!Missing(book.have, book.last, s)
            /\ c = (IF Head(out).pl = Lost THEN 1 ELSE 0)
    BY <1>1, <1>2, EmissionNext DEF BookType
  <2>2. (l + m) + c = l + (m + c)
    BY <2>1
  <2> QED
    BY <2>1, <2>2
<1>5. book' = [book EXCEPT !.have = TRUE, !.last = s, !.lost = book.lost + more]
  <2> DEFINE restarted == Seq32!AfterRestartTest(book, Head(out).seq)
  <2>1. restarted = book
    BY <1>2, <1>3
  <2> HIDE DEF restarted
  <2>2. book' =
          CASE Seq32!IsCopy(restarted.have, restarted.last, s) -> [restarted EXCEPT !.dups = @ + 1]
            [] ~ Seq32!IsCopy(restarted.have, restarted.last, s)
               /\ Seq32!IsOld(restarted.have, restarted.last, s) -> [restarted EXCEPT !.reorders = @ + 1]
            [] OTHER ->
                [restarted EXCEPT !.have = TRUE, !.last = s,
                    !.lost = @ + Seq32!Missing(restarted.have, restarted.last, s)
                               + (IF Head(out).pl = Lost THEN 1 ELSE 0)]
    BY <1>1, <1>2 DEF Seq32!EmitOne, restarted
  <2> QED
    BY <1>2, <1>4, <2>1, <2>2
<1> HIDE DEF more
<1>6. book.lost + more \in Nat
  BY <1>2 DEF BookType
<1> QED
  BY <1>2, <1>5, <1>6 DEF BookType

(* The packets missing before the next emission. *)
GapBefore == IF book.have THEN (out[1].seq - book.last) - 1 ELSE 0

(* What is heard of an emission: concealment, then the frames of its       *)
(* packet, if it has one.                                                  *)
LEMMA EmitWrites ==
    ASSUME Roomy, SenderInv, NetInv, HeardInv, OutInv, Emit
    PROVE  \E g, k \in Nat : \E fr \in [1..k -> SUBSET Cells] :
              /\ Written(g, k, fr)
              /\ lastFrame' = (IF k = 0 THEN lastFrame ELSE fr[k])
              /\ out[1].pl = Lost => k = 0
              /\ out[1].pl # Lost => /\ k = UnpackedLength(out[1].ns) /\ fr = PcmUnpack(out[1].pl, k)
                                     /\ g = GapBefore * FillLength(out[1].ns)
<1> DEFINE e == out[1]
           n == FillLength(e.ns)
           m == GapBefore
           gap == PlcConceal(n, m)
<1>1. out # << >> /\ Head(out) = e /\ e \in EmissionType /\ (EmitLost(e) \/ EmitData(e))
  <2>1. out # << >> /\ (EmitLost(Head(out)) \/ EmitData(Head(out)))
    BY DEF Emit
  <2>2. Head(out) = e /\ e \in EmissionType
    BY <2>1, EmissionNext
  <2> QED
    BY <2>1, <2>2
<1>2. /\ setup \in Setups /\ lastFrame \in SUBSET Cells /\ heard \in Seq(FrameType)
      /\ e.ns \in Nat /\ (e.pl # Lost => e.pl \in SUBSET Cells)
  BY <1>1 DEF SenderInv, Counters, HeardInv, EmissionType
<1>3. n \in Nat /\ UnpackedLength(e.ns) \in Nat
  BY <1>2, LengthsAre
<1>4. m = Seq32!Missing(book.have, book.last, e.seq) /\ m \in Nat
  <2>1. m = Seq32!Missing(book.have, book.last, e.seq)
    BY <1>1, EmissionNext DEF GapBefore
  <2>2. e.seq \in Nat /\ (book.have => book.last < e.seq) /\ book.last \in Nat
    BY <1>1, EmissionNext DEF OutInv, BookType
  <2> QED
    BY <2>1, <2>2 DEF GapBefore
<1>5. Filled(e) = gap
  BY <1>4 DEF Filled
<1> HIDE DEF m
<1> HIDE DEF n
<1>6. /\ m * n \in Nat /\ gap \in [1..m * n -> FrameType]
      /\ \A i \in 1..m * n : ~ gap[i].real /\ gap[i].data = lastFrame
  BY <1>2, <1>3, <1>4, ConcealIs
<1> HIDE DEF e
<1>7. CASE EmitData(e)
  <2> DEFINE k == UnpackedLength(e.ns)
             fr == PcmUnpack(e.pl, k)
  <2>1. e.pl # Lost /\ k \in Nat
    BY <1>3, <1>7 DEF EmitData
  <2>2. fr \in [1..k -> SUBSET Cells]
    BY <1>2, <2>1, UnpackedType
  <2>3. /\ heard' = (heard \o gap) \o [j \in DOMAIN fr |-> Real(fr[j])]
        /\ lastFrame' = PlcObserve(fr)
    BY <1>5, <1>7 DEF EmitData
  <2> HIDE DEF k, fr
  <2>4. heard' = (heard \o gap) \o [j \in 1..k |-> Real(fr[j])]
    BY <2>2, <2>3
  <2>5. lastFrame' = IF k = 0 THEN lastFrame ELSE fr[k]
    <3>1. fr \in Seq(SUBSET Cells) /\ Len(fr) = k
      BY <2>1, <2>2, FunctionIsSeq
    <3>2. fr = << >> <=> k = 0
      BY <3>1, EmptySeq
    <3> QED
      BY <2>3, <3>1, <3>2 DEF PlcObserve
  <2> DEFINE g == m * n
  <2>6. g \in Nat /\ gap \in [1..g -> FrameType] /\ \A i \in 1..g : ~ gap[i].real /\ gap[i].data = lastFrame
    BY <1>6
  <2>g. g = GapBefore * FillLength(out[1].ns)
    BY DEF m, n, e
  <2> HIDE DEF g, gap
  <2>7. Written(g, k, fr)
    BY <1>2, <2>1, <2>2, <2>4, <2>6, WrittenIs
  <2> QED
    BY <2>1, <2>2, <2>5, <2>6, <2>7, <2>g DEF k, fr, e
<1>8. CASE EmitLost(e)
  <2> DEFINE one == PlcConceal(n, 1)
             g == m * n
             both == gap \o one
             fr == [j \in 1..0 |-> lastFrame]
  <2>1. e.pl = Lost /\ lastFrame' = lastFrame /\ heard' = heard \o gap \o one
    BY <1>5, <1>8 DEF EmitLost, n
  <2>2. one \in [1..n -> FrameType] /\ \A i \in 1..n : ~ one[i].real /\ one[i].data = lastFrame
    <3>1. 1 \in Nat /\ 1 * n = n
      BY <1>3
    <3>2. /\ PlcConceal(n, 1) \in [1..1 * n -> FrameType]
          /\ \A i \in 1..1 * n : ~ PlcConceal(n, 1)[i].real /\ PlcConceal(n, 1)[i].data = lastFrame
      BY <1>2, <1>3, <3>1, ConcealIs
    <3> QED
      BY <3>1, <3>2
  <2>3. g \in Nat /\ gap \in [1..g -> FrameType] /\ \A i \in 1..g : ~ gap[i].real /\ gap[i].data = lastFrame
    BY <1>6
  <2> HIDE DEF g, gap, one
  <2>4. gap \in Seq(FrameType) /\ Len(gap) = g /\ one \in Seq(FrameType) /\ Len(one) = n
    BY <1>3, <2>2, <2>3, FunctionIsSeq
  <2>5. both \in Seq(FrameType)
    BY <1>3, <2>2, <2>4, ConcatIs
  <2>6. Len(both) = g + n
    BY <1>3, <2>4, ConcatProperties
  <2>7. \A i \in 1..g : both[i] = gap[i]
    BY <2>4, ConcatProperties
  <2>8. \A i \in 1..n : both[g + i] = one[i]
    <3>1. \A j \in 1..n : (gap \o one)[Len(gap) + j] = one[j]
      BY <1>3, <2>2, <2>4, ConcatIs
    <3> QED
      BY <2>4, <3>1
  <2>9. ASSUME NEW i \in 1..g + n
        PROVE  ~ both[i].real /\ both[i].data = lastFrame
    <3>1. CASE i <= g
      <4>1. i \in 1..g
        BY <2>3, <3>1
      <4> HIDE DEF both
      <4> QED
        BY <2>3, <2>7, <4>1
    <3>2. CASE g < i
      <4>1. i - g \in 1..n /\ g + (i - g) = i
        BY <1>3, <2>3, <3>2
      <4>2. both[g + (i - g)] = one[i - g]
        BY <2>8, <4>1
      <4>3. both[i] = one[i - g]
        BY <4>1, <4>2
      <4> HIDE DEF both
      <4> QED
        BY <2>2, <4>1, <4>3
    <3>3. i <= g \/ g < i
      BY <1>3, <2>3
    <3> HIDE DEF both
    <3> QED
      BY <3>1, <3>2, <3>3
  <2> HIDE DEF both
  <2>10. both \in [1..g + n -> FrameType]
    BY <2>5, <2>6, LenProperties
  <2>11. heard' = (heard \o both) \o [j \in 1..0 |-> Real(fr[j])]
    <3>1. heard \o gap \o one = heard \o both
      <4>1. heard \in Seq(FrameType) /\ gap \in Seq(FrameType) /\ one \in Seq(FrameType)
        BY <1>2, <2>4
      <4> QED
        BY <4>1, ConcatAssociative DEF both
    <3>2. [j \in 1..0 |-> Real(fr[j])] = << >>
      <4>1. [j \in 1..0 |-> Real(fr[j])] \in Seq(FrameType) /\ Len([j \in 1..0 |-> Real(fr[j])]) = 0
        <5>1. [j \in 1..0 |-> Real(fr[j])] \in [1..0 -> FrameType]
          OBVIOUS
        <5> QED
          BY <5>1, FunctionIsSeq
      <4> QED
        BY <4>1, EmptySeq
    <3>3. heard \o both \in Seq(FrameType)
      BY <1>2, <2>5, ConcatProperties
    <3>4. (heard \o both) \o << >> = heard \o both
      BY <3>3, ConcatEmptySeq
    <3> QED
      BY <2>1, <3>1, <3>2, <3>4
  <2>12. g + n \in Nat /\ 0 \in Nat /\ fr \in [1..0 -> SUBSET Cells]
    BY <1>3, <2>3
  <2> DEFINE h == g + n
  <2>13. Written(h, 0, fr)
    <3>1. h \in Nat /\ both \in [1..h -> FrameType] /\ \A i \in 1..h : ~ both[i].real /\ both[i].data = lastFrame
      BY <2>9, <2>10, <2>12
    <3> HIDE DEF h, fr
    <3> QED
      BY <1>2, <2>11, <2>12, <3>1, WrittenIs
  <2> HIDE DEF fr, h
  <2> QED
    BY <2>1, <2>12, <2>13 DEF h, e
<1> QED
  BY <1>1, <1>7, <1>8

(* What is concealed continues from the last real frame, which             *)
(* plc_observe_packet keeps.                                               *)
LEMMA WrittenKeepsHeard ==
    ASSUME HeardInv, NEW g \in Nat, NEW k \in Nat, NEW fr \in [1..k -> SUBSET Cells],
           Written(g, k, fr), lastFrame' = (IF k = 0 THEN lastFrame ELSE fr[k])
    PROVE  HeardInv'
<1>1. PICK n \in Nat : n = Len(heard)
  BY LenProperties DEF HeardInv
<1>2. /\ lastFrame \in SUBSET Cells /\ FromLast(n + 1, lastFrame)
      /\ \A i \in 1..n : ~ heard[i].real => FromLast(i, heard[i].data)
  BY <1>1 DEF HeardInv
<1>3. /\ heard' \in Seq(FrameType) /\ Len(heard') = n + g + k
      /\ \A i \in 1..n : heard'[i] = heard[i]
      /\ \A i \in n + 1..n + g : ~ heard'[i].real /\ heard'[i].data = lastFrame
      /\ \A j \in 1..k : heard'[n + g + j].real /\ heard'[n + g + j].data = fr[j]
  BY <1>1 DEF Written
<1>4. ASSUME NEW i \in 1..n + 1, NEW x, FromLast(i, x)
      PROVE  FromLast(i, x)'
  <2>1. \A j \in 1..i - 1 : j \in 1..n /\ heard'[j] = heard[j]
    BY <1>3
  <2>2. CASE x = {} /\ \A j \in 1..i - 1 : ~ heard[j].real
    BY <2>1, <2>2 DEF FromLast
  <2>3. CASE \E l \in 1..i - 1 : /\ heard[l].real /\ x = heard[l].data
                                 /\ \A j \in l + 1..i - 1 : ~ heard[j].real
    <3>1. PICK l \in 1..i - 1 : /\ heard[l].real /\ x = heard[l].data
                                /\ \A j \in l + 1..i - 1 : ~ heard[j].real
      BY <2>3
    <3>2. \A j \in l + 1..i - 1 : j \in 1..i - 1
      OBVIOUS
    <3> QED
      BY <2>1, <3>1, <3>2 DEF FromLast
  <2> QED
    BY <1>4, <2>2, <2>3 DEF FromLast
<1>5. ASSUME NEW x, x = lastFrame, NEW i \in n + 1..n + g + 1
      PROVE  FromLast(i, x)'
  <2>1. FromLast(n + 1, x)'
    <3>1. PICK m \in 1..n + 1 : m = n + 1
      OBVIOUS
    <3> QED
      BY <1>2, <1>4, <1>5, <3>1
  <2>2. \A j \in n + 1..i - 1 : ~ heard'[j].real
    BY <1>3
  <2>3. CASE x = {} /\ \A j \in 1..n : ~ heard'[j].real
    <3>1. \A j \in 1..i - 1 : j \in 1..n \/ j \in n + 1..i - 1
      OBVIOUS
    <3> QED
      BY <2>2, <2>3, <3>1 DEF FromLast
  <2>4. CASE \E l \in 1..n : /\ heard'[l].real /\ x = heard'[l].data
                             /\ \A j \in l + 1..n : ~ heard'[j].real
    <3>1. PICK l \in 1..n : /\ heard'[l].real /\ x = heard'[l].data
                            /\ \A j \in l + 1..n : ~ heard'[j].real
      BY <2>4
    <3>2. l \in 1..i - 1 /\ \A j \in l + 1..i - 1 : j \in l + 1..n \/ j \in n + 1..i - 1
      OBVIOUS
    <3> QED
      BY <2>2, <3>1, <3>2 DEF FromLast
  <2> QED
    <3>1. (n + 1) - 1 = n
      OBVIOUS
    <3> QED
      BY <2>1, <2>3, <2>4, <3>1 DEF FromLast
<1>6. ASSUME NEW i \in 1..n + g + k, ~ heard'[i].real, NEW x, x = heard'[i].data
      PROVE  FromLast(i, x)'
  <2>1. CASE i \in 1..n
    <3>1. ~ heard[i].real /\ x = heard[i].data /\ i \in 1..n + 1
      BY <1>3, <1>6, <2>1
    <3>2. FromLast(i, heard[i].data)
      BY <1>2, <2>1, <3>1
    <3> QED
      BY <1>4, <3>1, <3>2
  <2>2. CASE i \in n + 1..n + g
    <3>1. x = lastFrame /\ i \in n + 1..n + g + 1
      BY <1>3, <1>6, <2>2
    <3> QED
      BY <1>5, <3>1
  <2>3. CASE i \in n + g + 1..n + g + k
    <3>1. i - (n + g) \in 1..k /\ n + g + (i - (n + g)) = i
      BY <2>3
    <3>2. heard'[n + g + (i - (n + g))].real
      BY <1>3, <3>1
    <3> QED
      BY <1>6, <3>1, <3>2
  <2> QED
    BY <2>1, <2>2, <2>3
<1>7. ASSUME NEW i, i = n + g + k + 1, NEW x, x = lastFrame'
      PROVE  FromLast(i, x)'
  <2>1. CASE k = 0
    <3>1. x = lastFrame /\ i \in n + 1..n + g + 1
      BY <1>7, <2>1
    <3> QED
      BY <1>5, <3>1
  <2>2. CASE k # 0
    <3>1. /\ n + g + k \in 1..i - 1 /\ k \in 1..k
          /\ \A j \in (n + g + k) + 1..i - 1 : FALSE
      BY <1>7, <2>2
    <3>2. x = heard'[n + g + k].data /\ heard'[n + g + k].real
      BY <1>3, <1>7, <2>2, <3>1
    <3>3. \E l \in 1..i - 1 : /\ heard'[l].real /\ x = heard'[l].data
                              /\ \A j \in l + 1..i - 1 : ~ heard'[j].real
      BY <3>1, <3>2
    <3> QED
      BY <3>3 DEF FromLast
  <2> QED
    BY <2>1, <2>2
<1>8. lastFrame' \in SUBSET Cells
  BY <1>2
<1> QED
  BY <1>3, <1>6, <1>7, <1>8 DEF HeardInv

(* The packet of an emission, unpacked. *)
LEMMA MatchUnpacks ==
    ASSUME SenderInv, NEW e \in EmissionType, e.pl # Lost, NEW p \in Data, Match(e, p)
    PROVE  /\ UnpackedLength(e.ns) = p.ns /\ FillLength(e.ns) = p.ns
           /\ PcmUnpack(e.pl, p.ns) = [j \in 1..p.ns |-> FrameBytes(FirstFrame(p) + j - 1)]
<1>1. /\ setup \in Setups /\ e.pl \in SUBSET Cells /\ e.ns = p.ns
      /\ First(e.pl, p.ns * width) = p.pl
  BY DEF SenderInv, Counters, EmissionType, Match
<1>2. /\ p.ns \in Nat \ {0} /\ p.ns \in 1..MaxPerPacket /\ FirstFrame(p) \in Nat
      /\ p.pl = PcmPack(FirstFrame(p), p.ns)
  BY DataIs
<1>3. UnpackedLength(e.ns) = p.ns /\ FillLength(e.ns) = p.ns
  BY <1>1, <1>2, LengthsAre, Widths
<1> QED
  BY <1>1, <1>2, <1>3, UnpackPacked

(* rx_emit_packet writes the emission that is next, and only captured      *)
(* frames as received.                                                     *)
LEMMA EmitKeepsOut ==
    ASSUME Roomy, SenderInv, NetInv, HeardInv, OutInv, HeardSent, Emit
    PROVE  HeardInv' /\ OutInv' /\ HeardSent'
<1>1. PICK g \in Nat, k \in Nat : \E fr \in [1..k -> SUBSET Cells] :
              /\ Written(g, k, fr)
              /\ lastFrame' = (IF k = 0 THEN lastFrame ELSE fr[k])
              /\ out[1].pl = Lost => k = 0
              /\ out[1].pl # Lost => k = UnpackedLength(out[1].ns) /\ fr = PcmUnpack(out[1].pl, k)
  BY EmitWrites
<1>2. PICK fr \in [1..k -> SUBSET Cells] :
              /\ Written(g, k, fr)
              /\ lastFrame' = (IF k = 0 THEN lastFrame ELSE fr[k])
              /\ out[1].pl = Lost => k = 0
              /\ out[1].pl # Lost => k = UnpackedLength(out[1].ns) /\ fr = PcmUnpack(out[1].pl, k)
  BY <1>1
<1>3. HeardInv'
  BY <1>2, WrittenKeepsHeard
<1>4. /\ out # << >> /\ out' = Tail(out) /\ UNCHANGED <<setup, senderVars, wire, dropped>>
  BY DEF Emit
<1>5. /\ Arrived' = Arrived /\ Data' = Data /\ setup' = setup /\ dropped' = dropped
  BY <1>4 DEF senderVars, Arrived, Data
<1>6. /\ out[1] \in EmissionType /\ out[1].seq \in Nat /\ out[1].seq < Arrived
      /\ Len(out) \in Nat \ {0}
  BY <1>4, EmissionNext
<1>7. book' \in BookType /\ book'.have = TRUE /\ book'.last = out[1].seq
  BY BookAfter
<1>8. /\ out' \in Seq(EmissionType) /\ Len(out') = Len(out) - 1
      /\ \A i \in 1..Len(out') : out'[i] = out[i + 1] /\ i + 1 \in 1..Len(out)
  <2>1. out \in Seq(EmissionType)
    BY DEF OutInv
  <2>2. /\ Tail(out) \in Seq(EmissionType) /\ Len(Tail(out)) = Len(out) - 1
        /\ \A i \in 1..Len(out) - 1 : Tail(out)[i] = out[i + 1]
    BY <1>4, <2>1, TailIs
  <2> QED
    BY <1>4, <1>6, <2>2
<1>9. Exact' <=> Exact
  BY <1>5 DEF Exact, SameLength
<1>10. OutInv'
  <2>1. \A i \in 1..Len(out') : out'[i].seq < Arrived /\ out[1].seq < out'[i].seq
    <3>1. \A i \in 1..Len(out') : 1 \in 1..Len(out) /\ 1 < i + 1
      BY <1>6, <1>8
    <3> QED
      BY <1>8, <3>1 DEF OutInv
  <2>2. \A i, j \in 1..Len(out') : i < j => out'[i].seq < out'[j].seq
    <3>1. \A i, j \in 1..Len(out') : i < j => i + 1 < j + 1
      BY <1>6, <1>8
    <3> QED
      BY <1>8, <3>1 DEF OutInv
  <2>3. Exact => \A i \in 1..Len(out') : out'[i].pl # Lost => \E p \in Data : Match(out'[i], p)
    BY <1>8 DEF OutInv
  <2>4. \A e, p : Match(e, p)' = Match(e, p)
    BY <1>5, SetupKept DEF Match, First
  <2>5. \A i \in 1..Len(out') : \A p : Match(out[i], p)' <=> Match(out'[i], p)
    BY <2>4 DEF Match
  <2> QED
    BY <1>5, <1>6, <1>7, <1>8, <1>9, <2>1, <2>2, <2>3, <2>5 DEF OutInv
<1>11. ASSUME Exact, NEW i \in 1..Len(heard'), heard'[i].real
       PROVE  \E f \in Frames : heard'[i].data = FrameBytes(f)
  <2>1. PICK n \in Nat : n = Len(heard)
    BY LenProperties DEF HeardInv
  <2>2. /\ Len(heard') = n + g + k
        /\ \A j \in 1..n : heard'[j] = heard[j]
        /\ \A j \in n + 1..n + g : ~ heard'[j].real
        /\ \A j \in 1..k : heard'[n + g + j].data = fr[j]
    BY <1>2, <2>1 DEF Written
  <2>3. CASE i \in 1..n
    BY <1>11, <2>1, <2>2, <2>3 DEF HeardSent
  <2>4. CASE i \in n + 1..n + g
    BY <1>11, <2>2, <2>4
  <2>5. CASE i \in n + g + 1..n + g + k
    <3> DEFINE j == i - (n + g)
    <3>1. j \in 1..k /\ n + g + j = i
      BY <2>5
    <3>2. out[1].pl # Lost
      BY <1>2, <3>1
    <3>3. PICK p \in Data : Match(out[1], p)
      <4>1. 1 \in 1..Len(out)
        BY <1>6
      <4> QED
        BY <1>11, <3>2, <4>1 DEF OutInv
    <3>4. fr[j] = FrameBytes(FirstFrame(p) + j - 1) /\ k = p.ns
      <4>1. /\ UnpackedLength(out[1].ns) = p.ns
            /\ PcmUnpack(out[1].pl, p.ns) = [l \in 1..p.ns |-> FrameBytes(FirstFrame(p) + l - 1)]
        BY <1>6, <3>2, <3>3, MatchUnpacks
      <4>2. k = p.ns /\ fr = [l \in 1..p.ns |-> FrameBytes(FirstFrame(p) + l - 1)]
        BY <1>2, <3>2, <4>1
      <4> HIDE DEF j
      <4> QED
        BY <3>1, <4>2
    <3>5. FirstFrame(p) + j - 1 \in Frames
      <4>1. FirstFrame(p) \in Nat /\ FirstFrame(p) + p.ns <= MaxFrames /\ p.ns \in Nat
        BY DataIs
      <4> HIDE DEF j
      <4> QED
        BY <3>1, <3>4, <4>1, Sizes DEF Frames
    <3>6. heard'[i].data = fr[j]
      BY <2>2, <3>1
    <3> QED
      BY <3>4, <3>5, <3>6
  <2> QED
    BY <2>2, <2>3, <2>4, <2>5
<1>12. HeardSent'
  BY <1>5, <1>9, <1>11, SetupKept DEF HeardSent, Frames
<1> QED
  BY <1>3, <1>10, <1>12

-----------------------------------------------------------------------------
(* The invariant: a stream without loss. *)

(* The first number that waits for nothing but its packet, and the first   *)
(* one that was not heard.                                                 *)
FirstFree == IF setup.fec THEN head ELSE Arrived
Unheard == IF out # << >> THEN out[1].seq ELSE FirstFree

LossFree ==
    dropped = {} /\ failures = 0 =>
        /\ \A i \in 1..Len(heard) :
            IF heard[i].real THEN heard[i].data = FrameBytes(RealBefore(i)) ELSE setup.fec
        /\ \A i \in 1..Len(out) :
            /\ out[i].pl # Lost
            /\ NextData(out[i].seq) = IF i = Len(out) THEN FirstFree ELSE out[i + 1].seq
        /\ Unheard \in Nat /\ Unheard <= sequence
        /\ \A p \in Data : p.seq = Unheard => FirstFrame(p) = RealBefore(Len(heard) + 1)
        /\ Unheard = sequence => RealBefore(Len(heard) + 1) = timestamp + offset
        /\ ~ setup.fec => IF book.have THEN Unheard = book.last + 1 ELSE Unheard = 0

(* The number of real frames is a natural. *)
LEMMA RealBeforeIs ==
    ASSUME NEW i \in Nat
    PROVE  RealBefore(i) \in Nat /\ RealBefore(i)' \in Nat
<1>1. IsFiniteSet(1..i - 1)
  BY FS_Interval
<1>2. /\ IsFiniteSet({j \in 1..i - 1 : heard[j].real})
      /\ IsFiniteSet({j \in 1..i - 1 : heard'[j].real})
  BY <1>1, FS_Subset
<1> QED
  BY <1>2, FS_CardinalityType DEF RealBefore

(* The frames received are counted after those heard before. *)
LEMMA WrittenCounts ==
    ASSUME heard \in Seq(FrameType), NEW g \in Nat, NEW k \in Nat, NEW fr, Written(g, k, fr),
           NEW n \in Nat, n = Len(heard)
    PROVE  /\ \A i \in 1..n + 1 : RealBefore(i)' = RealBefore(i)
           /\ \A j \in 0..k, i \in Nat : i = n + g + 1 + j => RealBefore(i)' = RealBefore(n + 1) + j
<1>1. /\ \A i \in 1..n : heard'[i] = heard[i]
      /\ \A i \in n + 1..n + g : ~ heard'[i].real
      /\ \A j \in 1..k : heard'[n + g + j].real
  BY DEF Written
<1>2. ASSUME NEW i \in 1..n + 1
      PROVE  RealBefore(i)' = RealBefore(i)
  <2>1. \A j \in 1..i - 1 : heard'[j] = heard[j]
    BY <1>1
  <2>2. {j \in 1..i - 1 : heard'[j].real} = {j \in 1..i - 1 : heard[j].real}
    BY <2>1
  <2> QED
    BY <2>2 DEF RealBefore
<1>3. ASSUME NEW j \in 0..k, NEW i \in Nat, i = n + g + 1 + j
      PROVE  RealBefore(i)' = RealBefore(n + 1) + j
  <2> DEFINE old == {l \in 1..n : heard[l].real}
             new == n + g + 1..n + g + j
  <2>1. {l \in 1..i - 1 : heard'[l].real} = old \cup new
    <3>1. ASSUME NEW l \in 1..i - 1, heard'[l].real
          PROVE  l \in old \cup new
      <4>1. l \in 1..n \/ l \in n + 1..n + g \/ l \in new
        BY <1>3
      <4> QED
        BY <1>1, <3>1, <4>1
    <3>2. ASSUME NEW l \in old
          PROVE  l \in 1..i - 1 /\ heard'[l].real
      BY <1>1, <1>3
    <3>3. ASSUME NEW l \in new
          PROVE  l \in 1..i - 1 /\ heard'[l].real
      <4>1. l \in 1..i - 1 /\ l - (n + g) \in 1..k /\ n + g + (l - (n + g)) = l
        BY <1>3
      <4>2. heard'[n + g + (l - (n + g))].real
        BY <1>1, <4>1
      <4> QED
        BY <4>1, <4>2
    <3> HIDE DEF old, new
    <3> QED
      BY <3>1, <3>2, <3>3
  <2>2. IsFiniteSet(new) /\ Cardinality(new) = j
    <3> DEFINE a == n + g + 1
               b == n + g + j
    <3>1. a \in Int /\ b \in Int /\ (a > b => j = 0) /\ (~ (a > b) => b - a + 1 = j)
      OBVIOUS
    <3> HIDE DEF a, b
    <3>2. IsFiniteSet(a..b) /\ Cardinality(a..b) = IF a > b THEN 0 ELSE b - a + 1
      BY <3>1, FS_Interval
    <3>3. IsFiniteSet(a..b) /\ Cardinality(a..b) = j
      BY <3>1, <3>2
    <3> QED
      BY <3>3 DEF a, b
  <2>3. IsFiniteSet(old)
    <3>1. IsFiniteSet(1..n)
      BY FS_Interval
    <3> QED
      BY <3>1, FS_Subset
  <2>4. old \cap new = {}
    OBVIOUS
  <2>5. RealBefore(n + 1) = Cardinality(old)
    <3>1. (n + 1) - 1 = n
      OBVIOUS
    <3> QED
      BY <3>1 DEF RealBefore
  <2>6. RealBefore(i)' = Cardinality(old \cup new)
    BY <2>1 DEF RealBefore
  <2> HIDE DEF old, new
  <2>7. Cardinality(old \cup new) = Cardinality(old) + Cardinality(new)
    <3>1. Cardinality(old \cup new) = Cardinality(old) + Cardinality(new) - Cardinality(old \cap new)
      BY <2>2, <2>3, FS_Union
    <3>2. Cardinality(old \cap new) = 0
      BY <2>4, FS_EmptySet
    <3> QED
      BY <2>2, <2>3, <3>1, <3>2, FS_CardinalityType
  <2> QED
    BY <2>2, <2>5, <2>6, <2>7
<1> QED
  BY <1>2, <1>3

(* Without loss, what rx_emit_packet writes continues what was heard. *)
LEMMA EmitKeepsLossFree ==
    ASSUME Roomy, SenderInv, NetInv, HeardInv, OutInv, LossFree, Emit
    PROVE  LossFree'
<1> SUFFICES ASSUME dropped' = {}, failures' = 0 PROVE LossFree'
  BY DEF LossFree
<1>1. /\ out # << >> /\ out' = Tail(out) /\ setup' = setup /\ sequence' = sequence
      /\ timestamp' = timestamp /\ offset' = offset /\ head' = head /\ wire' = wire
      /\ dropped = {} /\ failures = 0 /\ Data' = Data
  BY DEF Emit, senderVars, Data
<1>2. Exact
  BY <1>1 DEF Exact
<1> DEFINE e == out[1]
<1>3. /\ e \in EmissionType /\ e.seq \in Nat /\ Len(out) \in Nat \ {0} /\ 1 \in 1..Len(out)
      /\ Tail(out) \in Seq(EmissionType) /\ Len(Tail(out)) = Len(out) - 1
      /\ \A i \in 1..Len(out) - 1 : Tail(out)[i] = out[i + 1]
  <2>1. out \in Seq(EmissionType)
    BY DEF OutInv
  <2> QED
    BY <1>1, <2>1, TailIs, EmissionNext
<1>4. /\ e.pl # Lost /\ NextData(e.seq) = IF Len(out) = 1 THEN FirstFree ELSE out[2].seq
      /\ Unheard = e.seq /\ Unheard <= sequence
      /\ ~ setup.fec /\ book.have => e.seq = book.last + 1
      /\ \A p \in Data : p.seq = e.seq => FirstFrame(p) = RealBefore(Len(heard) + 1)
  <2>1. Unheard = e.seq
    BY <1>1 DEF Unheard
  <2>2. e.pl # Lost /\ NextData(e.seq) = IF 1 = Len(out) THEN FirstFree ELSE out[1 + 1].seq
    BY <1>1, <1>3 DEF LossFree
  <2>3. 1 + 1 = 2
    OBVIOUS
  <2> QED
    BY <1>1, <2>1, <2>2, <2>3 DEF LossFree
<1>5. PICK p \in Data : Match(e, p)
  BY <1>2, <1>3, <1>4 DEF OutInv
<1>6. /\ p.ns \in Nat \ {0} /\ p.seq = e.seq /\ p.seq < sequence /\ FirstFrame(p) \in Nat
      /\ UnpackedLength(e.ns) = p.ns
      /\ PcmUnpack(e.pl, p.ns) = [j \in 1..p.ns |-> FrameBytes(FirstFrame(p) + j - 1)]
  BY <1>3, <1>4, <1>5, DataIs, MatchUnpacks DEF Match
<1>7. PICK g \in Nat, k \in Nat : \E fr \in [1..k -> SUBSET Cells] :
              /\ Written(g, k, fr)
              /\ k = UnpackedLength(e.ns) /\ fr = PcmUnpack(e.pl, k)
              /\ g = GapBefore * FillLength(e.ns)
  BY <1>4, EmitWrites
<1>8. PICK fr : /\ Written(g, k, fr) /\ k = p.ns /\ g = GapBefore * FillLength(e.ns)
                /\ fr = [j \in 1..k |-> FrameBytes(FirstFrame(p) + j - 1)]
  BY <1>6, <1>7
<1>9. PICK n \in Nat : n = Len(heard) /\ heard \in Seq(FrameType)
  BY LenProperties DEF HeardInv
<1>10. PICK r \in Nat : r = RealBefore(n + 1) /\ r = FirstFrame(p)
  BY <1>4, <1>6, <1>9
<1>11. /\ \A i \in 1..n + 1 : RealBefore(i)' = RealBefore(i)
       /\ \A j \in 0..k, i \in Nat : i = n + g + 1 + j => RealBefore(i)' = r + j
  <2> HIDE DEF e
  <2>1. heard \in Seq(FrameType) /\ Written(g, k, fr)
    BY <1>8, <1>9
  <2>2. /\ \A i \in 1..n + 1 : RealBefore(i)' = RealBefore(i)
        /\ \A j \in 0..k, i \in Nat : i = n + g + 1 + j => RealBefore(i)' = RealBefore(n + 1) + j
    BY <1>9, <2>1, WrittenCounts
  <2> QED
    BY <1>10, <2>2
<1>12. /\ Len(heard') = n + g + k
       /\ \A i \in 1..n : heard'[i] = heard[i]
       /\ \A i \in n + 1..n + g : ~ heard'[i].real
       /\ \A j \in 1..k : heard'[n + g + j].real /\ heard'[n + g + j].data = fr[j]
  BY <1>8, <1>9 DEF Written
<1>13. \A f : FrameBytes(f)' = FrameBytes(f)
  BY <1>1, SetupKept
<1>14. ~ setup.fec => g = 0
  <2> SUFFICES ASSUME ~ setup.fec PROVE g = 0
    OBVIOUS
  <2>1. GapBefore = 0
    BY <1>3, <1>4 DEF GapBefore, OutInv, BookType
  <2>2. FillLength(e.ns) \in Nat
    <3>1. setup \in Setups /\ e.ns \in Nat
      BY <1>3 DEF SenderInv, Counters, EmissionType
    <3> QED
      BY <3>1, LengthsAre
  <2> DEFINE m == FillLength(e.ns)
  <2>3. g = 0 * m /\ m \in Nat
    BY <1>8, <2>1, <2>2
  <2> HIDE DEF m
  <2> QED
    BY <2>3
<1>15. ASSUME NEW i \in 1..n + g + k
       PROVE  IF heard'[i].real THEN heard'[i].data = FrameBytes(RealBefore(i)') ELSE setup.fec
  <2>1. CASE i \in 1..n
    <3>1. heard'[i] = heard[i] /\ RealBefore(i)' = RealBefore(i)
      <4>1. i \in 1..n + 1
        BY <2>1
      <4> QED
        BY <1>11, <1>12, <2>1, <4>1
    <3> QED
      BY <1>1, <1>9, <2>1, <3>1 DEF LossFree
  <2>2. CASE i \in n + 1..n + g
    <3>1. ~ heard'[i].real
      BY <1>12, <2>2
    <3>2. g # 0
      BY <1>10, <2>2
    <3>3. setup.fec
      BY <1>14, <3>2
    <3> QED
      BY <3>1, <3>3
  <2>3. CASE i \in n + g + 1..n + g + k
    <3>1. PICK j \in 1..k : i = n + g + j
      <4>1. i - (n + g) \in 1..k /\ n + g + (i - (n + g)) = i
        BY <2>3
      <4> QED
        BY <4>1
    <3>2. heard'[i].real /\ heard'[i].data = FrameBytes(r + j - 1)
      <4>1. heard'[i].real /\ heard'[i].data = fr[j]
        BY <1>12, <3>1
      <4>2. fr[j] = FrameBytes(r + j - 1)
        BY <1>8, <1>10, <3>1
      <4> QED
        BY <4>1, <4>2
    <3>3. j - 1 \in 0..k /\ i \in Nat /\ i = n + g + 1 + (j - 1)
      BY <3>1
    <3>4. RealBefore(i)' = r + (j - 1)
      BY <1>11, <3>3
    <3>5. r + (j - 1) = r + j - 1
      OBVIOUS
    <3> QED
      BY <3>2, <3>4, <3>5
  <2> QED
    BY <2>1, <2>2, <2>3
<1>16. FirstFree' = FirstFree
  BY <1>1 DEF FirstFree, Arrived
<1>17. Unheard' = NextData(e.seq)
  <2>1. CASE Len(out) = 1
    <3>1. out' = << >>
      BY <1>1, <1>3, <2>1, EmptySeq
    <3> QED
      BY <1>4, <1>16, <2>1, <3>1 DEF Unheard
  <2>2. CASE Len(out) # 1
    <3>1. 1 \in 1..Len(out) - 1 /\ Len(Tail(out)) # 0 /\ 1 + 1 = 2
      BY <1>3, <2>2
    <3>2. out' # << >>
      BY <1>1, <3>1, EmptySeq
    <3>3. out'[1] = out[2]
      BY <1>1, <1>3, <3>1
    <3> QED
      BY <1>4, <2>2, <3>2, <3>3 DEF Unheard
  <2> QED
    BY <2>1, <2>2
<1>18. NextData(e.seq) \in Nat /\ NextData(e.seq) <= sequence
  <2>1. e.seq \in Nat /\ e.seq < sequence
    BY <1>3, <1>6
  <2> HIDE DEF e
  <2> QED
    BY <2>1, NextDataIs DEF SenderInv
<1>19. \A i \in 1..Len(out') :
            /\ out'[i].pl # Lost
            /\ NextData(out'[i].seq) = IF i = Len(out') THEN FirstFree ELSE out'[i + 1].seq
  <2> TAKE i \in 1..Len(out')
  <2>1. i \in Nat /\ i + 1 \in 1..Len(out) /\ out'[i] = out[i + 1] /\ (i = Len(out') <=> i + 1 = Len(out))
    BY <1>1, <1>3
  <2>2. i # Len(out') => i + 1 \in 1..Len(out) - 1
    <3> DEFINE n0 == Len(out)
    <3>1. n0 \in Nat /\ Len(out') = n0 - 1 /\ i \in 1..n0 - 1
      BY <1>1, <1>3
    <3> HIDE DEF n0
    <3>2. i # n0 - 1 => i + 1 \in 1..n0 - 1
      BY <3>1
    <3> QED
      BY <3>1, <3>2 DEF n0
  <2>3. i # Len(out') => out'[i + 1] = out[(i + 1) + 1]
    BY <1>1, <1>3, <2>2
  <2> QED
    BY <1>1, <2>1, <2>3 DEF LossFree
<1>20. PICK m \in Nat : m = Len(heard') + 1 /\ RealBefore(m)' = r + k
  <2>1. k \in 0..k /\ n + g + 1 + k \in Nat /\ n + g + 1 + k = Len(heard') + 1
    BY <1>12
  <2> QED
    BY <1>11, <2>1
<1>21. \A q \in Data : q.seq = NextData(e.seq) => FirstFrame(q) = r + k
  BY <1>1, <1>6, <1>8, <1>10 DEF SenderInv, SentData
<1>22. NextData(e.seq) = sequence => r + k = timestamp + offset
  BY <1>1, <1>6, <1>8, <1>10, <1>18 DEF SenderInv, SentData
<1>23. ~ setup.fec => IF book'.have THEN Unheard' = book'.last + 1 ELSE Unheard' = 0
  BY <1>17, BookAfter DEF NextData
<1>24. \A i \in 1..Len(heard') :
            IF heard'[i].real THEN heard'[i].data = FrameBytes(RealBefore(i)') ELSE setup.fec
  BY <1>12, <1>15
<1>25. \A i \in 1..Len(heard') : FrameBytes(RealBefore(i))' = FrameBytes(RealBefore(i)')
  BY <1>1 DEF FrameBytes, width
<1>26. \A q \in Data : q.seq = Unheard' => FirstFrame(q) = RealBefore(Len(heard) + 1)'
  BY <1>17, <1>20, <1>21
<1>27. Unheard' = sequence => RealBefore(Len(heard) + 1)' = timestamp + offset
  BY <1>17, <1>20, <1>22
<1>28. \A i \in 1..Len(out') : NextData(out[i].seq)' = NextData(out'[i].seq)
  BY <1>1 DEF NextData
<1> QED
  BY <1>1, <1>16, <1>17, <1>18, <1>19, <1>23, <1>24, <1>25, <1>26, <1>27, <1>28 DEF LossFree

-----------------------------------------------------------------------------
(* Steps that neither emit nor write. *)

(* Steps that leave the receiver's history alone. *)
LEMMA IdleKeepsOut ==
    ASSUME SenderInv, NetInv, HeardInv, OutInv, HeardSent, Grows, out' = out, UNCHANGED emitVars
    PROVE  HeardInv' /\ OutInv' /\ HeardSent'
<1>1. /\ book' = book /\ lastFrame' = lastFrame /\ heard' = heard /\ out' = out /\ setup' = setup
      /\ Data \subseteq Data' /\ dropped \subseteq dropped'
      /\ Arrived \in Nat /\ Arrived' \in Nat /\ Arrived <= Arrived'
  BY DEF emitVars, Grows
<1>2. Exact' => Exact
  BY <1>1 DEF Exact, SameLength
<1>3. HeardInv'
  BY <1>1 DEF HeardInv, FromLast
<1>4. HeardSent'
  BY <1>1, <1>2, SetupKept DEF HeardSent, Frames
<1>5. OutInv'
  <2>1. \A i \in 1..Len(out) : out[i].seq \in Nat
    <3>1. out \in Seq(EmissionType)
      BY DEF OutInv
    <3>2. \A i \in 1..Len(out) : out[i] \in EmissionType
      BY <3>1, ElementOfSeq
    <3> QED
      BY <3>2 DEF EmissionType
  <2>2. \A i \in 1..Len(out) : out[i].seq < Arrived'
    BY <1>1, <2>1 DEF OutInv
  <2>3. book \in BookType /\ (book.have => book.last < Arrived')
    <3>1. book \in BookType /\ (book.have => book.last < Arrived)
      BY DEF OutInv
    <3>2. book.last \in Nat
      BY <3>1 DEF BookType
    <3> QED
      BY <1>1, <3>1, <3>2
  <2>4. \A i \in 1..Len(out) : \A p : Match(out[i], p)' <=> Match(out[i], p)
    BY <1>1, SetupKept DEF Match, First
  <2>5. Exact' => \A i \in 1..Len(out) : out[i].pl # Lost => \E p \in Data' : Match(out[i], p)
    BY <1>1, <1>2 DEF OutInv
  <2> QED
    BY <1>1, <2>2, <2>3, <2>4, <2>5 DEF OutInv
<1> QED
  BY <1>3, <1>4, <1>5

(* A piece given up ends the claim. *)
LEMMA FailKeepsLossFree ==
    ASSUME SenderInv, SendFails
    PROVE  LossFree' /\ failures' # 0
<1>1. failures \in Nat /\ failures' = failures + 1
  BY DEF SenderInv, Counters, SendFails
<1> QED
  BY <1>1 DEF LossFree

(* Nothing sent, nothing lost. *)
LEMMA StillKeepsLossFree ==
    ASSUME SenderInv, LossFree, setup' = setup, out' = out, UNCHANGED emitVars,
           dropped' = {} => FirstFree' = FirstFree,
           Data' = Data, sequence' = sequence, dropped \subseteq dropped',
           timestamp' + offset' = timestamp + offset, failures' = failures
    PROVE  LossFree'
<1> SUFFICES ASSUME dropped' = {}, failures' = 0 PROVE LossFree'
  BY DEF LossFree
<1>1. /\ book' = book /\ heard' = heard /\ out' = out /\ setup' = setup
      /\ dropped = {} /\ failures = 0
  BY DEF emitVars
<1>2. /\ FirstFree' = FirstFree /\ \A i : RealBefore(i)' = RealBefore(i)
      /\ \A s : NextData(s)' = NextData(s)
  BY <1>1, SetupKept DEF RealBefore
<1>3. Unheard' = Unheard
  BY <1>1, <1>2 DEF Unheard
<1>4. RealBefore(Len(heard) + 1)' = RealBefore(Len(heard) + 1)
  BY <1>1 DEF RealBefore
<1>5. \A i \in 1..Len(heard) : FrameBytes(RealBefore(i))' = FrameBytes(RealBefore(i))
  BY <1>1 DEF FrameBytes, RealBefore, width
<1>6. \A i \in 1..Len(out) : NextData(out[i].seq)' = NextData(out[i].seq)
  BY <1>1 DEF NextData
<1> QED
  BY <1>1, <1>2, <1>3, <1>4, <1>5, <1>6 DEF LossFree

(* The piece that is sent is the next to be heard. *)
LEMMA PieceKeepsLossFree ==
    ASSUME SenderInv, NetInv, LossFree, SendPiece
    PROVE  LossFree'
<1> SUFFICES ASSUME dropped' = {}, failures' = 0 PROVE LossFree'
  BY DEF LossFree
<1>1. /\ book' = book /\ heard' = heard /\ out' = out /\ head' = head /\ setup' = setup
      /\ out = << >> /\ dropped = {} /\ failures = 0
  BY DEF SendPiece, fecVars, emitVars
<1>2. Arrived' = Arrived /\ Arrived = sequence /\ sequence \in Nat
  BY SendKeepsNet, NetTypes
<1>3. /\ DataPacket.seq = sequence /\ FirstFrame(DataPacket) = timestamp + offset
      /\ Data' = Data \cup {DataPacket} /\ (sequence' = sequence + 1 \/ sequence' = sequence + 2)
  BY PieceSent, PacketsSent
<1> DEFINE d == DataPacket
<1> HIDE DEF d
<1>4. FirstFree' = FirstFree
  BY <1>1, <1>2, SetupKept DEF FirstFree
<1>5. Unheard' = Unheard /\ Unheard \in Nat /\ Unheard <= sequence
  BY <1>1, <1>4 DEF Unheard, LossFree
<1>6. Unheard <= sequence' /\ Unheard # sequence'
  BY <1>2, <1>3, <1>5
<1>7. RealBefore(Len(heard) + 1)' = RealBefore(Len(heard) + 1)
  BY <1>1 DEF RealBefore
<1>8. \A p \in Data' : p.seq = Unheard => FirstFrame(p) = RealBefore(Len(heard) + 1)
  BY <1>1, <1>3 DEF LossFree
<1>9. \A i \in 1..Len(heard) :
          /\ FrameBytes(RealBefore(i))' = FrameBytes(RealBefore(i))
  BY <1>1 DEF FrameBytes, RealBefore, width
<1>10. Len(out) = 0
  BY <1>1
<1> QED
  BY <1>1, <1>5, <1>6, <1>7, <1>8, <1>9, <1>10 DEF LossFree

-----------------------------------------------------------------------------
(* The stream without FEC. *)

(* The frame heard at i is the b + i-th of the stream, if it was received. *)
Aligned(b) ==
    /\ \A i \in 1..Len(heard) : heard[i].real => heard[i].data = FrameBytes(b + i - 1)
    /\ book.have => \E p \in Data : p.seq = book.last /\ Len(heard) + b = FirstFrame(p) + p.ns

PlainInv ==
    ~ setup.fec =>
        /\ started = FALSE /\ pkt = NoPacket /\ Len(out) <= 1
        /\ \A i \in 1..Len(out) : out[i].pl # Lost
        /\ SameLength /\ failures = 0 => \E b \in Nat : Aligned(b)

(* Steps that leave the receiver alone, without FEC. *)
LEMMA IdleKeepsPlain ==
    ASSUME PlainInv, Grows, UNCHANGED <<fecVars, emitVars>>, failures' = 0 => failures = 0
    PROVE  PlainInv'
<1>1. /\ book' = book /\ heard' = heard /\ out' = out /\ setup' = setup
      /\ started' = started /\ pkt' = pkt /\ Data \subseteq Data'
  BY DEF fecVars, emitVars, Grows
<1>2. SameLength' => SameLength
  BY <1>1 DEF SameLength
<1>3. ASSUME NEW b, Aligned(b)
      PROVE  Aligned(b)'
  <2>1. \A i \in 1..Len(heard) : FrameBytes(b + i - 1)' = FrameBytes(b + i - 1)
    BY <1>1 DEF FrameBytes, width
  <2> QED
    BY <1>1, <1>3, <2>1 DEF Aligned
<1> QED
  BY <1>1, <1>2, <1>3 DEF PlainInv

(* A packet is emitted with what it left of the last ones in the buffer. *)
LEMMA ReceivedMatches ==
    ASSUME SenderInv, NetInv, NEW p \in sent, packetBuf' = Received(p), packetBuf' \in SUBSET Cells
    PROVE  First(packetBuf', p.ns * width) = p.pl
<1>1. p \in PacketType /\ \A c \in p.pl : c[1] < p.ns * width
  BY DEF SenderInv, SentType
<1> DEFINE m == p.ns * width
<1>2. m \in Nat
  <2>1. p.ns \in Nat /\ width \in Nat
    BY <1>1, Widths DEF PacketType, SenderInv, Counters
  <2> DEFINE w == width
  <2> HIDE DEF w
  <2>2. p.ns * w \in Nat
    BY <2>1 DEF w
  <2> QED
    BY <2>2 DEF w
<1>3. packetBuf' = p.pl \cup {c \in packetBuf : c[1] >= m}
  BY DEF Received, Beyond
<1>4. \A c \in p.pl : c[1] < m
  BY <1>1
<1>5. \A c \in packetBuf' : c[1] \in Int
  BY DEF Cells
<1> HIDE DEF m
<1>6. {c \in packetBuf' : c[1] < m} = p.pl
  <2>1. ASSUME NEW c \in packetBuf', c[1] >= m
        PROVE  ~ (c[1] < m)
    <3> DEFINE x == c[1]
    <3>1. x \in Int /\ x >= m
      BY <1>5, <2>1
    <3> HIDE DEF x
    <3>2. ~ (x < m)
      BY <1>2, <3>1
    <3> QED
      BY <3>2 DEF x
  <2> QED
    BY <1>3, <1>4, <2>1
<1> QED
  BY <1>6 DEF First, m

(* Without FEC a data packet is emitted as soon as it is received. *)
LEMMA PlainPacket ==
    ASSUME SenderInv, NetInv, Receive, ~ setup.fec
    PROVE  /\ Head(wire) \in Data /\ Head(wire).seq = Arrived /\ Arrived' = Arrived + 1
           /\ Arrived \in Nat /\ Data' = Data /\ out = << >>
           /\ UNCHANGED <<setup, senderVars, started, head, slot, expected, pkt, emitVars, dropped>>
           /\ out'[1] \in EmissionType /\ Len(out') = 1 /\ out' \in Seq(EmissionType)
           /\ out'[1].pl \in SUBSET Cells /\ Match(out'[1], Head(wire))
<1> DEFINE p == Head(wire)
           e == [seq |-> p.seq, ns |-> p.ns, pl |-> packetBuf']
<1>1. /\ wire # << >> /\ out = << >> /\ packetBuf' = Received(p) /\ wire' = Tail(wire)
      /\ UNCHANGED <<setup, senderVars, emitVars, dropped>>
      /\ ReceivePlain(p)
  BY DEF Receive, ReceiveFec
<1>2. p \in sent /\ p.seq = Arrived /\ Arrived \in Nat
  BY <1>1, WireHead, NetTypes
<1>3. p \in PacketType /\ ~ p.parity
  BY <1>2 DEF SenderInv, SentType
<1>4. p \in Data
  BY <1>2, <1>3 DEF Data
<1>5. NetInv' /\ Arrived' = Arrived + 1
  BY <1>1, TakeKeepsNet
<1>6. packetBuf' \in SUBSET Cells
  BY <1>5 DEF NetInv
<1>7. First(packetBuf', p.ns * width) = p.pl
  BY <1>1, <1>2, <1>6, ReceivedMatches
<1>8. out' = <<e>> /\ UNCHANGED <<started, head, slot, expected, pkt>>
  BY <1>1, <1>3 DEF ReceivePlain
<1>9. e \in EmissionType
  BY <1>3, <1>6 DEF EmissionType, PacketType
<1>10. Data' = Data
  BY <1>1 DEF Data, senderVars
<1>11. Match(e, p)
  BY <1>7 DEF Match
<1> HIDE DEF p
<1>12. e.pl = packetBuf'
  OBVIOUS
<1> HIDE DEF e
<1>13. out'[1] = e /\ Len(out') = 1 /\ out' \in Seq(EmissionType)
  BY <1>8, <1>9
<1> QED
  BY <1>1, <1>2, <1>4, <1>5, <1>6, <1>8, <1>9, <1>10, <1>11, <1>12, <1>13 DEF p

(* Without FEC a packet received is the next emission, byte for byte. *)
LEMMA ReceiveKeepsPlain ==
    ASSUME LostIsNoPayload, SenderInv, NetInv, HeardInv, OutInv, HeardSent, LossFree, PlainInv,
           Receive, ~ setup.fec
    PROVE  HeardInv' /\ OutInv' /\ HeardSent' /\ LossFree' /\ PlainInv'
<1>1. PICK p \in Data, e \in EmissionType :
      /\ e = out'[1] /\ p.seq = Arrived /\ Arrived' = Arrived + 1 /\ Arrived \in Nat /\ Data' = Data
      /\ out = << >> /\ UNCHANGED <<setup, senderVars, started, head, slot, expected, pkt, emitVars, dropped>>
      /\ Len(out') = 1 /\ out' \in Seq(EmissionType)
      /\ e.pl \in SUBSET Cells /\ Match(e, p)
  BY PlainPacket
<1>2. /\ setup' = setup /\ sequence' = sequence /\ timestamp' = timestamp /\ offset' = offset
      /\ started' = started /\ pkt' = pkt /\ dropped' = dropped /\ failures' = failures
      /\ book' = book /\ lastFrame' = lastFrame /\ heard' = heard
  BY <1>1 DEF senderVars, emitVars
<1>3. e.pl # Lost
  BY <1>1 DEF LostIsNoPayload, Cells
<1>4. p.seq \in Nat /\ p.seq < sequence /\ e.seq = p.seq
  BY <1>1, DataIs DEF Match
<1>5. (Exact' <=> Exact) /\ SameLength' = SameLength
  BY <1>1, <1>2 DEF Exact, SameLength
<1>6. HeardInv'
  BY <1>2 DEF HeardInv, FromLast
<1>7. HeardSent'
  BY <1>2, <1>5, SetupKept DEF HeardSent, Frames
<1>8. OutInv'
  <2>1. book \in BookType /\ (book.have => book.last < Arrived /\ book.last \in Nat)
    BY DEF OutInv, BookType
  <2>2. \A i \in 1..Len(out') : out'[i] = e
    BY <1>1
  <2>3. \A i \in 1..Len(out') : out'[i].seq < Arrived' /\ (book.have => book.last < out'[i].seq)
    BY <1>1, <1>4, <2>1, <2>2
  <2>4. \A i, j \in 1..Len(out') : ~ (i < j)
    BY <1>1
  <2>5. (book.have => book.last < Arrived') /\ (~ book.have => heard = << >>)
    BY <1>1, <2>1 DEF OutInv
  <2>6. \A i \in 1..Len(out') : Match(out[i], p)'
    <3>1. Match(e, p)'
      BY <1>1, <1>2, SetupKept DEF Match, First
    <3> QED
      BY <2>2, <3>1 DEF Match
  <2> QED
    BY <1>1, <1>2, <2>1, <2>3, <2>4, <2>5, <2>6 DEF OutInv
<1>9. LossFree'
  <2> SUFFICES ASSUME dropped' = {}, failures' = 0 PROVE LossFree'
    BY DEF LossFree
  <2>1. Unheard = Arrived
    BY <1>1 DEF Unheard, FirstFree
  <2>2. FirstFree' = Arrived + 1
    BY <1>1, <1>2 DEF FirstFree
  <2>3. Unheard' = Arrived
    <3>1. out' # << >>
      <4>1. Len(out') # 0
        BY <1>1
      <4> QED
        BY <4>1
    <3> QED
      BY <1>1, <1>4, <3>1 DEF Unheard
  <2>4. \A i \in 1..Len(out') : i = Len(out') /\ out'[i].pl # Lost /\ out'[i].seq = Arrived
    BY <1>1, <1>3, <1>4
  <2>5. \A s : NextData(s)' = s + 1
    BY <1>2 DEF NextData
  <2>6. \A i \in 1..Len(heard) : FrameBytes(RealBefore(i))' = FrameBytes(RealBefore(i))
    BY <1>2 DEF FrameBytes, RealBefore, width
  <2>7. RealBefore(Len(heard) + 1)' = RealBefore(Len(heard) + 1)
    BY <1>2 DEF RealBefore
  <2>8. \A i \in 1..Len(out') : NextData(out[i].seq)' = Arrived + 1
    BY <2>4, <2>5 DEF NextData
  <2> QED
    BY <1>1, <1>2, <2>1, <2>2, <2>3, <2>4, <2>6, <2>7, <2>8 DEF LossFree
<1>10. PlainInv'
  <2>1. \A i \in 1..Len(out') : out'[i].pl # Lost
    BY <1>1, <1>3
  <2>2. ASSUME NEW b, Aligned(b)
        PROVE  Aligned(b)'
    <3>1. \A i \in 1..Len(heard) : FrameBytes(b + i - 1)' = FrameBytes(b + i - 1)
      BY <1>2 DEF FrameBytes, width
    <3> QED
      BY <1>1, <1>2, <2>2, <3>1 DEF Aligned
  <2> QED
    BY <1>1, <1>2, <1>5, <2>1, <2>2 DEF PlainInv
<1> QED
  BY <1>6, <1>7, <1>8, <1>9, <1>10

(* Concealment is as long as what was lost, so what is heard stays where   *)
(* it was captured.                                                        *)
LEMMA EmitKeepsPlain ==
    ASSUME Roomy, SenderInv, NetInv, HeardInv, OutInv, PlainInv, Emit
    PROVE  PlainInv'
<1> SUFFICES ASSUME ~ setup.fec PROVE PlainInv'
  <2>1. setup' = setup
    BY DEF Emit
  <2> QED
    BY <2>1 DEF PlainInv
<1>1. /\ out # << >> /\ out' = Tail(out) /\ setup' = setup /\ started' = started /\ pkt' = pkt
      /\ Data' = Data /\ failures' = failures
  BY DEF Emit, senderVars, Data
<1> DEFINE e == out[1]
<1>2. e \in EmissionType /\ Len(out) = 1 /\ Len(out') = 0 /\ e.pl # Lost
  <2>1. out \in Seq(EmissionType)
    BY DEF OutInv
  <2>2. Len(out) \in Nat \ {0} /\ out[1] \in EmissionType /\ Len(Tail(out)) = Len(out) - 1
    BY <1>1, <2>1, TailIs
  <2>3. Len(out) = 1 /\ 1 \in 1..Len(out)
    BY <2>2 DEF PlainInv
  <2> QED
    BY <1>1, <2>2, <2>3 DEF PlainInv
<1>3. Exact
  BY DEF Exact
<1>4. PICK p \in Data : Match(e, p)
  <2>1. 1 \in 1..Len(out)
    BY <1>2
  <2> QED
    BY <1>2, <1>3, <2>1 DEF OutInv
<1>5. /\ p.ns \in Nat \ {0} /\ p.seq = e.seq /\ p.seq \in Nat /\ FirstFrame(p) \in Nat
      /\ UnpackedLength(e.ns) = p.ns /\ FillLength(e.ns) = p.ns
      /\ PcmUnpack(e.pl, p.ns) = [j \in 1..p.ns |-> FrameBytes(FirstFrame(p) + j - 1)]
  BY <1>2, <1>4, DataIs, MatchUnpacks DEF Match
<1>6. PICK g \in Nat, k \in Nat : \E fr \in [1..k -> SUBSET Cells] :
              /\ Written(g, k, fr)
              /\ k = UnpackedLength(e.ns) /\ fr = PcmUnpack(e.pl, k)
              /\ g = GapBefore * FillLength(e.ns)
  BY <1>2, EmitWrites
<1>7. PICK fr : /\ Written(g, k, fr) /\ k = p.ns /\ g = GapBefore * p.ns
                /\ fr = [j \in 1..k |-> FrameBytes(FirstFrame(p) + j - 1)]
  BY <1>5, <1>6
<1>8. PICK n \in Nat : n = Len(heard)
  BY LenProperties DEF HeardInv
<1>9. /\ Len(heard') = n + g + k
      /\ \A i \in 1..n : heard'[i] = heard[i]
      /\ \A i \in n + 1..n + g : ~ heard'[i].real
      /\ \A j \in 1..k : heard'[n + g + j].real /\ heard'[n + g + j].data = fr[j]
  BY <1>7, <1>8 DEF Written
<1>10. book'.have = TRUE /\ book'.last = p.seq
  BY <1>5, BookAfter
<1>11. ASSUME NEW b \in Nat, n + g + b = FirstFrame(p),
              \A i \in 1..n : heard[i].real => heard[i].data = FrameBytes(b + i - 1)
       PROVE  Aligned(b)'
  <2>1. ASSUME NEW i \in 1..n + g + k, heard'[i].real
        PROVE  heard'[i].data = FrameBytes(b + i - 1)
    <3>1. CASE i \in 1..n
      BY <1>9, <1>11, <2>1, <3>1
    <3>2. CASE i \in n + 1..n + g
      BY <1>9, <2>1, <3>2
    <3>3. CASE i \in n + g + 1..n + g + k
      <4>1. PICK j \in 1..k : i = n + g + j
        <5>1. i - (n + g) \in 1..k /\ n + g + (i - (n + g)) = i
          BY <3>3
        <5> QED
          BY <5>1
      <4>2. heard'[i].data = FrameBytes(FirstFrame(p) + j - 1)
        BY <1>7, <1>9, <4>1
      <4> DEFINE f == FirstFrame(p)
      <4>3. f \in Nat /\ f = n + g + b
        BY <1>5, <1>11
      <4> HIDE DEF f
      <4>4. f + j - 1 = b + i - 1
        BY <4>1, <4>3
      <4> QED
        BY <4>2, <4>4 DEF f
    <3> QED
      BY <3>1, <3>2, <3>3
  <2>2. n + g + k + b = FirstFrame(p) + p.ns
    <3> DEFINE f == FirstFrame(p)
    <3>1. f \in Nat /\ f = n + g + b /\ p.ns \in Nat /\ k = p.ns
      BY <1>5, <1>7, <1>11
    <3> HIDE DEF f
    <3>2. n + g + k + b = f + p.ns
      BY <3>1
    <3> QED
      BY <3>2 DEF f
  <2>3. \A i : FrameBytes(b + i - 1)' = FrameBytes(b + i - 1)
    BY <1>1, SetupKept
  <2>4. \E q \in Data : q.seq = book'.last /\ Len(heard') + b = FirstFrame(q) + q.ns
    BY <1>9, <1>10, <2>2
  <2>5. \A i \in 1..Len(heard') : heard'[i].real => heard'[i].data = FrameBytes(b + i - 1)'
    BY <1>9, <2>1, <2>3
  <2> QED
    BY <1>1, <2>4, <2>5 DEF Aligned
<1>12. ASSUME SameLength, failures = 0
       PROVE  \E b \in Nat : Aligned(b)'
  <2>1. PICK b \in Nat : Aligned(b)
    BY <1>12 DEF PlainInv
  <2>2. CASE ~ book.have
    <3>1. n = 0
      BY <1>8, <2>2, EmptySeq DEF OutInv
    <3>2. g = 0
      <4>1. GapBefore = 0
        BY <2>2 DEF GapBefore
      <4> QED
        BY <1>5, <1>7, <4>1
    <3>3. FirstFrame(p) \in Nat /\ n + g + FirstFrame(p) = FirstFrame(p)
      BY <1>5, <3>1, <3>2
    <3>4. \A i \in 1..n : FALSE
      BY <3>1
    <3> QED
      BY <1>11, <3>3, <3>4
  <2>3. CASE book.have
    <3>1. PICK q \in Data : q.seq = book.last /\ n + b = FirstFrame(q) + q.ns
      BY <1>8, <2>1, <2>3 DEF Aligned
    <3>2. /\ q.ns = p.ns /\ FirstFrame(q) = q.seq * q.ns /\ FirstFrame(p) = p.seq * p.ns
          /\ q.seq \in Nat /\ GapBefore = (p.seq - q.seq) - 1
      BY <1>5, <1>12, <2>3, <3>1, DataIs DEF SenderInv, EvenlyCut, SameLength, GapBefore
    <3> DEFINE m == p.ns
               s == p.seq
               t == q.seq
    <3>3. m \in Nat /\ s \in Nat /\ t \in Nat /\ n + b = t * m + m /\ g = ((s - t) - 1) * m
      BY <1>5, <1>7, <3>1, <3>2
    <3>4. FirstFrame(p) = s * m
      BY <3>2
    <3> HIDE DEF m, s, t
    <3>5. ((s - t) - 1) * m = s * m - t * m - m
      BY <3>3
    <3>6. s * m \in Int /\ t * m \in Int
      BY <3>3
    <3>7. n + g + b = s * m
      BY <3>3, <3>5, <3>6
    <3>8. \A i \in 1..n : heard[i].real => heard[i].data = FrameBytes(b + i - 1)
      BY <1>8, <2>1 DEF Aligned
    <3> QED
      BY <1>11, <3>4, <3>7, <3>8
  <2> QED
    BY <2>2, <2>3
<1>13. SameLength' = SameLength /\ failures' = failures
  BY <1>1 DEF SameLength
<1>14. started' = FALSE /\ pkt' = NoPacket
  BY <1>1 DEF PlainInv
<1>15. SameLength' /\ failures' = 0 => \E b \in Nat : Aligned(b)'
  BY <1>12, <1>13
<1>16. Len(out') <= 1 /\ \A i \in 1..Len(out') : out'[i].pl # Lost
  BY <1>2
<1> QED
  BY <1>14, <1>15, <1>16 DEF PlainInv
=============================================================================

-------------------------- MODULE RingBufferProofs --------------------------
(***************************************************************************)
(* What is proved of the frame ring for every capacity, request size and   *)
(* length of run: its inductive invariant, and from it the properties the  *)
(* run of RingBuffer.cfg checks on four slots.                             *)
(***************************************************************************)
EXTENDS RingBuffer, SequenceTheorems, TLAPS

-----------------------------------------------------------------------------
(* Arithmetic modulo the capacity. *)

(* Quotient and remainder by the capacity. *)
LEMMA DivMod ==
    ASSUME NEW a \in Nat
    PROVE  /\ a \div Cap \in Nat
           /\ a % Cap \in 0..Cap - 1
           /\ a = Cap * (a \div Cap) + (a % Cap)
BY CapAssumption, SMT

(* The remainder is the only decomposition below the capacity. *)
LEMMA ModUnique ==
    ASSUME NEW q \in Nat, NEW r \in 0..Cap - 1
    PROVE  (Cap * q + r) % Cap = r
BY CapAssumption, SMT

(* The contiguous chunk of a block: no wrap before the end of the buffer. *)
LEMMA ModChunk ==
    ASSUME NEW a \in Nat, NEW i \in Nat, (a % Cap) + i < Cap
    PROVE  (a + i) % Cap = (a % Cap) + i
<1> DEFINE q == a \div Cap
           r == a % Cap
<1>1. q \in Nat /\ r \in 0..Cap - 1 /\ a = Cap * q + r
  BY DivMod
<1>2. r + i \in 0..Cap - 1
  BY <1>1, CapAssumption
<1>3. (Cap * q + (r + i)) % Cap = r + i
  BY <1>1, <1>2, ModUnique
<1>4. Cap * q \in Nat
  BY <1>1, CapAssumption
<1> HIDE DEF q, r
<1>5. a + i = Cap * q + (r + i)
  BY <1>1, <1>2, <1>4
<1> QED
  BY <1>3, <1>5 DEF r

(* The wrapped tail of a block: one lap less. *)
LEMMA ModTail ==
    ASSUME NEW a \in Nat, NEW i \in Nat, i <= Cap, Cap <= (a % Cap) + i
    PROVE  (a + i) % Cap = (a % Cap) + i - Cap
<1> DEFINE q == a \div Cap
           r == a % Cap
<1>1. q \in Nat /\ r \in 0..Cap - 1 /\ a = Cap * q + r
  BY DivMod
<1>2. r + i - Cap \in 0..Cap - 1 /\ q + 1 \in Nat
  BY <1>1, CapAssumption
<1>3. (Cap * (q + 1) + (r + i - Cap)) % Cap = r + i - Cap
  BY <1>2, ModUnique
<1>4. Cap * q \in Nat
  BY <1>1, CapAssumption
<1>5. Cap * (q + 1) = Cap * q + Cap
  BY <1>1, CapAssumption
<1> HIDE DEF q, r
<1>6. a + i = Cap * (q + 1) + (r + i - Cap)
  BY <1>1, <1>2, <1>4, <1>5, CapAssumption
<1> QED
  BY <1>3, <1>6 DEF r

(* Two indices less than a lap apart have different slots. *)
LEMMA ModInjective ==
    ASSUME NEW a \in Nat, NEW b \in Nat, a < b, b < a + Cap
    PROVE  a % Cap # b % Cap
<1> DEFINE i == b - a
<1>1. i \in Nat /\ 0 < i /\ i < Cap /\ b = a + i
  BY CapAssumption
<1>2. a % Cap \in 0..Cap - 1
  BY DivMod
<1> HIDE DEF i
<1>3. CASE (a % Cap) + i < Cap
  <2>1. b % Cap = (a % Cap) + i
    BY <1>1, <1>3, ModChunk
  <2> QED
    BY <1>1, <1>2, <2>1
<1>4. CASE Cap <= (a % Cap) + i
  <2>0. i \in Nat /\ i <= Cap
    BY <1>1, CapAssumption
  <2>1. (a + i) % Cap = (a % Cap) + i - Cap
    BY <2>0, <1>4, ModTail, Zenon
  <2> QED
    BY <1>1, <1>2, <2>1, CapAssumption
<1> QED
  BY <1>1, <1>2, <1>3, <1>4, CapAssumption

(* Copying a block as a contiguous chunk and a wrapped tail puts frame i   *)
(* of the block where the index arithmetic says it goes.                   *)
LEMMA SlotOfFrame ==
    ASSUME NEW a \in Nat, NEW i \in Nat, i < Cap
    PROVE  /\ WriteSlot(a, i) = (a + i) % Cap
           /\ ReadSlot(a, i) = (a + i) % Cap
           /\ (a + i) % Cap \in 0..Cap - 1
<1>1. a % Cap \in 0..Cap - 1 /\ a + i \in Nat
  BY DivMod
<1>2. (a + i) % Cap \in 0..Cap - 1
  BY <1>1, DivMod
<1>3. CASE (a % Cap) + i < Cap
  <2>1. (a + i) % Cap = (a % Cap) + i
    BY <1>3, ModChunk
  <2>2. i < Cap - (a % Cap)
    BY <1>1, <1>3, CapAssumption
  <2> QED
    BY <1>2, <2>1, <2>2 DEF WriteSlot, ReadSlot
<1>4. CASE Cap <= (a % Cap) + i
  <2>0. i <= Cap
    BY CapAssumption
  <2>1. (a + i) % Cap = (a % Cap) + i - Cap
    BY <2>0, <1>4, ModTail, Zenon
  <2>2. ~ (i < Cap - (a % Cap)) /\ i - (Cap - (a % Cap)) = (a % Cap) + i - Cap
    BY <1>1, <1>4, CapAssumption
  <2> QED
    BY <1>2, <2>1, <2>2 DEF WriteSlot, ReadSlot
<1> QED
  BY <1>1, <1>3, <1>4, CapAssumption

-----------------------------------------------------------------------------
(* A write's clamp leaves room for everything unread. *)
LEMMA WriteClamp ==
    ASSUME NEW n \in Nat, TypeOK, IndexOrder
    PROVE  /\ AtMost(n, Writable(write, read)) \in 0..Cap
           /\ write + AtMost(n, Writable(write, read)) <= read + Cap
<1>1. Writable(write, read) = Cap - (write - read)
  BY CapAssumption DEF Writable, Diff, TypeOK, IndexOrder
<1>2. Cap - (write - read) \in Nat /\ Cap - (write - read) <= Cap
  BY CapAssumption DEF TypeOK, IndexOrder
<1> QED
  BY <1>1, <1>2, CapAssumption DEF AtMost, TypeOK

(* A read's clamp, taken with the write index of a moment ago, claims only *)
(* what is published now.                                                  *)
LEMMA ReadClampFacts ==
    ASSUME TypeOK, read <= cw, cw <= write
    PROVE  /\ AtMost(cn, Readable(cw, read)) \in Nat
           /\ read + AtMost(cn, Readable(cw, read)) <= write
BY DEF AtMost, Readable, Diff, TypeOK

-----------------------------------------------------------------------------

(* The ring starts in its invariant. *)
LEMMA InitRingInv == Init => RingInv
BY CapAssumption DEF Init, RingInv, TypeOK, IndexOrder, ProducerClaim, ConsumerClaim,
   StoredIntact, Stored, CopiedIntact

(* No step of either thread leaves the invariant. *)
LEMMA NextRingInv == RingInv /\ [Next]_vars => RingInv'
<1> SUFFICES ASSUME RingInv, [Next]_vars
             PROVE  RingInv'
  OBVIOUS
<1> USE DEF RingInv
<1>1. ASSUME NEW n \in 1..MaxRequest, WriteBegin(n)
      PROVE  RingInv'
  <2>1. n \in Nat
    BY RequestAssumption
  <2>2. pn' \in 0..Cap /\ write + pn' <= read + Cap /\ 0 < pn'
    BY <1>1, <2>1, WriteClamp DEF WriteBegin
  <2>3. TypeOK'
    BY <1>1, <2>2, CapAssumption DEF WriteBegin, consVars, TypeOK
  <2>4. ProducerClaim'
    BY <1>1, <2>2 DEF WriteBegin, ProducerClaim
  <2>5. StoredIntact'
    BY <1>1 DEF WriteBegin, StoredIntact, Stored, TypeOK
  <2>6. IndexOrder' /\ ConsumerClaim' /\ CopiedIntact'
    BY <1>1 DEF WriteBegin, consVars, IndexOrder, ConsumerClaim, CopiedIntact
  <2> QED
    BY <2>3, <2>4, <2>5, <2>6
<1>2. ASSUME WriteFrame
      PROVE  RingInv'
  <2> DEFINE s == WriteSlot(write, pi)
  <2>1. /\ write \in Nat /\ read \in Nat /\ pi \in Nat /\ pn \in Nat
        /\ pi < pn /\ write + pn <= read + Cap /\ pi < Cap
    BY <1>2, CapAssumption DEF WriteFrame, ProducerClaim, TypeOK
  <2>2. s = (write + pi) % Cap /\ s \in 0..Cap - 1
    BY <2>1, SlotOfFrame
  <2> HIDE DEF s
  <2>3. slots' = [slots EXCEPT ![s] = write + pi]
    BY <1>2 DEF WriteFrame, s
  <2>4. TypeOK'
    <3>0. slots \in [0..Cap - 1 -> Nat \cup {NoFrame}] /\ write + pi \in Nat \cup {NoFrame}
      BY <2>1 DEF TypeOK
    <3>1. slots' \in [0..Cap - 1 -> Nat \cup {NoFrame}]
      BY <2>2, <2>3, <3>0, Zenon
    <3> QED
      BY <1>2, <2>1, <3>1, CapAssumption DEF WriteFrame, consVars, TypeOK
  <2>5. StoredIntact'
    <3> SUFFICES ASSUME NEW k \in read..write + pi
                 PROVE  slots'[k % Cap] = k
      BY <1>2, <2>1 DEF WriteFrame, StoredIntact, Stored
    <3>1. k \in Nat /\ write + pi \in Nat /\ write + pi < k + Cap
      BY <2>1, CapAssumption
    <3>2. k % Cap \in 0..Cap - 1
      BY <3>1, DivMod
    <3>3. CASE k = write + pi
      BY <2>2, <2>3, <3>3 DEF TypeOK
    <3>4. CASE k < write + pi
      <4>1. slots[k % Cap] = k
        BY <1>2, <2>1, <3>1, <3>4 DEF WriteFrame, StoredIntact, Stored
      <4>2. k % Cap # s
        BY <2>2, <3>1, <3>4, ModInjective
      <4> QED
        BY <2>3, <3>2, <4>1, <4>2 DEF TypeOK
    <3> QED
      BY <2>1, <3>3, <3>4
  <2>6. ProducerClaim'
    BY <1>2, <2>1 DEF WriteFrame, ProducerClaim
  <2>7. IndexOrder' /\ ConsumerClaim' /\ CopiedIntact'
    BY <1>2 DEF WriteFrame, consVars, IndexOrder, ConsumerClaim, CopiedIntact
  <2> QED
    BY <2>4, <2>5, <2>6, <2>7
<1>3. ASSUME WritePublish
      PROVE  RingInv'
  <2>1. TypeOK'
    BY <1>3 DEF WritePublish, consVars, TypeOK
  <2>2. IndexOrder' /\ ProducerClaim'
    BY <1>3 DEF WritePublish, ProducerClaim, IndexOrder, TypeOK
  <2>3. ConsumerClaim'
    BY <1>3 DEF WritePublish, consVars, ConsumerClaim, TypeOK
  <2>4. StoredIntact' /\ CopiedIntact'
    BY <1>3 DEF WritePublish, consVars, StoredIntact, Stored, CopiedIntact
  <2> QED
    BY <2>1, <2>2, <2>3, <2>4
<1>4. ASSUME NEW n \in 1..MaxRequest, ReadBegin(n)
      PROVE  RingInv'
  <2>1. TypeOK'
    BY <1>4, RequestAssumption DEF ReadBegin, prodVars, TypeOK
  <2>2. ConsumerClaim'
    BY <1>4 DEF ReadBegin, ConsumerClaim, IndexOrder, TypeOK
  <2>3. IndexOrder' /\ ProducerClaim' /\ StoredIntact' /\ CopiedIntact'
    BY <1>4 DEF ReadBegin, prodVars, IndexOrder, ProducerClaim, StoredIntact, Stored, CopiedIntact
  <2> QED
    BY <2>1, <2>2, <2>3
<1>5. ASSUME ReadClamp
      PROVE  RingInv'
  <2>1. cn' \in Nat /\ read + cn' <= write
    BY <1>5, ReadClampFacts DEF ReadClamp, ConsumerClaim
  <2>2. TypeOK'
    BY <1>5, <2>1 DEF ReadClamp, prodVars, TypeOK
  <2>3. ConsumerClaim'
    <3>1. cpc' = IF cn' = 0 THEN "idle" ELSE "index"
      BY <1>5 DEF ReadClamp
    <3> QED
      BY <1>5, <2>1, <3>1 DEF ReadClamp, ConsumerClaim
  <2>4. IndexOrder' /\ ProducerClaim' /\ StoredIntact' /\ CopiedIntact'
    BY <1>5 DEF ReadClamp, prodVars, IndexOrder, ProducerClaim, StoredIntact, Stored, CopiedIntact
  <2> QED
    BY <2>2, <2>3, <2>4
<1>6. ASSUME ReadIndex
      PROVE  RingInv'
  <2>1. TypeOK'
    BY <1>6 DEF ReadIndex, prodVars, TypeOK
  <2>2. ConsumerClaim' /\ CopiedIntact'
    BY <1>6 DEF ReadIndex, ConsumerClaim, CopiedIntact, TypeOK
  <2>3. IndexOrder' /\ ProducerClaim' /\ StoredIntact'
    BY <1>6 DEF ReadIndex, prodVars, IndexOrder, ProducerClaim, StoredIntact, Stored
  <2> QED
    BY <2>1, <2>2, <2>3
<1>7. ASSUME ReadFrame
      PROVE  RingInv'
  <2> DEFINE i == Len(dst)
             s == ReadSlot(cr, i)
  <2>1. /\ i \in Nat /\ i < cn /\ cn \in Nat /\ cr \in Nat /\ cr = read
        /\ write \in Nat /\ read + cn <= write /\ write <= read + Cap
    BY <1>7 DEF ReadFrame, ConsumerClaim, IndexOrder, TypeOK
  <2>2. i < Cap
    BY <2>1, CapAssumption
  <2>3. s = (cr + i) % Cap /\ s \in 0..Cap - 1
    BY <2>1, <2>2, SlotOfFrame
  <2> HIDE DEF s
  <2>4. dst' = Append(dst, slots[s])
    BY <1>7 DEF ReadFrame, s
  <2>5. slots[s] = cr + i
    <3>1. cr + i \in read..Stored - 1
      BY <2>1, CapAssumption DEF Stored, TypeOK
    <3> QED
      BY <2>3, <3>1 DEF StoredIntact
  <2>6. TypeOK'
    <3>1. dst' \in Seq(Nat \cup {NoFrame})
      BY <2>1, <2>4, <2>5 DEF TypeOK
    <3> QED
      BY <1>7, <3>1 DEF ReadFrame, prodVars, TypeOK
  <2>7. Len(dst') = i + 1 /\ \A j \in 1..i + 1 : dst'[j] = IF j = i + 1 THEN cr + i ELSE dst[j]
    BY <2>4, <2>5 DEF TypeOK
  <2>8. ConsumerClaim'
    BY <1>7, <2>1, <2>7 DEF ReadFrame, ConsumerClaim
  <2>9. CopiedIntact'
    <3> SUFFICES ASSUME NEW j \in 1..i + 1
                 PROVE  dst'[j] = cr + j - 1
      BY <1>7, <2>7 DEF ReadFrame, CopiedIntact
    <3>1. CASE j = i + 1
      BY <2>1, <2>7, <3>1
    <3>2. CASE j # i + 1
      <4>1. j \in 1..Len(dst)
        BY <2>1, <3>2
      <4>2. dst[j] = cr + j - 1
        BY <1>7, <4>1 DEF ReadFrame, CopiedIntact
      <4> QED
        BY <2>7, <3>2, <4>2
    <3> QED
      BY <3>1, <3>2
  <2>10. IndexOrder' /\ ProducerClaim' /\ StoredIntact'
    BY <1>7 DEF ReadFrame, prodVars, IndexOrder, ProducerClaim, StoredIntact, Stored
  <2> QED
    BY <2>6, <2>8, <2>9, <2>10
<1>8. ASSUME ReadPublish
      PROVE  RingInv'
  <2>1. read' \in Nat /\ read <= read' /\ read' <= write
    BY <1>8 DEF ReadPublish, ConsumerClaim, TypeOK
  <2>2. TypeOK'
    BY <1>8, <2>1 DEF ReadPublish, prodVars, TypeOK
  <2>3. IndexOrder' /\ ProducerClaim'
    BY <1>8, <2>1, CapAssumption DEF ReadPublish, prodVars, IndexOrder, ProducerClaim, TypeOK
  <2>4. StoredIntact'
    <3>1. Stored' = Stored /\ Stored \in Nat /\ slots' = slots
      BY <1>8 DEF ReadPublish, prodVars, Stored, TypeOK
    <3> QED
      BY <2>1, <3>1 DEF StoredIntact, TypeOK
  <2>5. ConsumerClaim' /\ CopiedIntact'
    BY <1>8 DEF ReadPublish, ConsumerClaim, CopiedIntact
  <2> QED
    BY <2>2, <2>3, <2>4, <2>5
<1>9. ASSUME QuietReset
      PROVE  RingInv'
  <2>1. TypeOK'
    BY <1>9 DEF QuietReset, Reset, prodVars, consVars, TypeOK
  <2>2. IndexOrder' /\ ProducerClaim'
    BY <1>9, CapAssumption DEF QuietReset, Reset, prodVars, IndexOrder, ProducerClaim, TypeOK
  <2>3. ConsumerClaim' /\ CopiedIntact'
    BY <1>9 DEF QuietReset, Reset, consVars, ConsumerClaim, CopiedIntact
  <2>4. StoredIntact'
    BY <1>9 DEF QuietReset, Reset, prodVars, StoredIntact, Stored, TypeOK
  <2> QED
    BY <2>1, <2>2, <2>3, <2>4
<1>10. CASE UNCHANGED vars
  BY <1>10 DEF vars, prodVars, consVars, TypeOK, IndexOrder, ProducerClaim, ConsumerClaim,
     StoredIntact, Stored, CopiedIntact
<1> QED
  BY <1>1, <1>2, <1>3, <1>4, <1>5, <1>6, <1>7, <1>8, <1>9, <1>10 DEF Next, Producer, Consumer

(* The invariant holds in every reachable state of the ring. *)
THEOREM RingInvariant == Spec => []RingInv
BY InitRingInv, NextRingInv, PTL DEF Spec

(* No step of rb_write or rb_read takes a variable out of its type: no      *)
(* block exceeds the ring and no copied frame is one never written.        *)
THEOREM TypeCorrect == Spec => []TypeOK
<1>1. RingInv => TypeOK
  BY DEF RingInv
<1> QED
  BY <1>1, RingInvariant, PTL

(* Neither index overtakes the other by more than the ring holds, whatever *)
(* stale value of the other index each thread clamped with.                *)
THEOREM IndexOrderHolds == Spec => []IndexOrder
<1>1. RingInv => IndexOrder
  BY DEF RingInv
<1> QED
  BY <1>1, RingInvariant, PTL

(* Two copies in flight never touch one slot. *)
THEOREM NoSharedSlotHolds == Spec => []NoSharedSlot
<1>1. RingInv => NoSharedSlot
  <2> SUFFICES ASSUME RingInv, ppc = "copy", cpc = "copy",
                      NEW i \in 0..pn - 1, NEW j \in 0..cn - 1
               PROVE  WriteSlot(write, i) # ReadSlot(cr, j)
    BY DEF NoSharedSlot, Storing, Loading
  <2>1. /\ write \in Nat /\ read \in Nat /\ pn \in Nat /\ cn \in Nat /\ cr = read
        /\ write + pn <= read + Cap /\ read + cn <= write
    BY DEF RingInv, TypeOK, ProducerClaim, ConsumerClaim
  <2>2. i \in Nat /\ j \in Nat /\ i < Cap /\ j < Cap
    BY <2>1, CapAssumption
  <2>3. WriteSlot(write, i) = (write + i) % Cap /\ ReadSlot(cr, j) = (read + j) % Cap
    BY <2>1, <2>2, SlotOfFrame
  <2>4. /\ read + j \in Nat /\ write + i \in Nat
        /\ read + j < write + i /\ write + i < read + j + Cap
    BY <2>1, <2>2, CapAssumption
  <2> QED
    BY <2>3, <2>4, ModInjective
<1> QED
  BY <1>1, RingInvariant, PTL

-----------------------------------------------------------------------------
(* The ring implements the queue.  In a state of the invariant the queued  *)
(* frames are the span of positions from read to write.                    *)

Span(a, m) == [i \in 1..m |-> a + i - 1]

(* A span is the numbers from a on. *)
LEMMA SpanSeq ==
    ASSUME NEW a \in Nat, NEW m \in Nat
    PROVE  /\ Span(a, m) \in Seq(Nat)
           /\ Len(Span(a, m)) = m
           /\ \A i \in 1..m : Span(a, m)[i] = a + i - 1
<1>1. \A i \in 1..m : a + i - 1 \in Nat
  OBVIOUS
<1> QED
  BY <1>1 DEF Span

(* A span of no numbers is empty. *)
LEMMA SpanEmpty ==
    ASSUME NEW a \in Nat
    PROVE  Span(a, 0) = << >>
<1>1. Span(a, 0) \in Seq(Nat) /\ Len(Span(a, 0)) = 0
  BY SpanSeq
<1> QED
  BY <1>1, EmptySeq

(* Adjacent spans are one. *)
LEMMA SpanConcat ==
    ASSUME NEW a \in Nat, NEW m \in Nat, NEW k \in Nat
    PROVE  Span(a, m) \o Span(a + m, k) = Span(a, m + k)
<1> DEFINE s == Span(a, m)
           t == Span(a + m, k)
           u == Span(a, m + k)
<1>1. s \in Seq(Nat) /\ Len(s) = m /\ \A i \in 1..m : s[i] = a + i - 1
  BY SpanSeq
<1>2. t \in Seq(Nat) /\ Len(t) = k /\ \A i \in 1..k : t[i] = a + m + i - 1
  <2>1. a + m \in Nat
    OBVIOUS
  <2> QED
    BY <2>1, SpanSeq
<1>3. u \in Seq(Nat) /\ Len(u) = m + k /\ \A i \in 1..m + k : u[i] = a + i - 1
  <2>1. m + k \in Nat
    OBVIOUS
  <2> QED
    BY <2>1, SpanSeq
<1> HIDE DEF s, t, u
<1>4. /\ s \o t \in Seq(Nat)
      /\ Len(s \o t) = m + k
      /\ \A i \in 1..m + k : (s \o t)[i] = IF i <= m THEN s[i] ELSE t[i - m]
  <2>1. /\ s \o t \in Seq(Nat)
        /\ Len(s \o t) = Len(s) + Len(t)
        /\ \A i \in 1..Len(s) + Len(t) : (s \o t)[i] = IF i <= Len(s) THEN s[i] ELSE t[i - Len(s)]
    BY <1>1, <1>2, ConcatProperties
  <2> QED
    BY <1>1, <1>2, <2>1
<1>5. \A i \in 1..m + k : (s \o t)[i] = u[i]
  <2> SUFFICES ASSUME NEW i \in 1..m + k
               PROVE  (s \o t)[i] = u[i]
    OBVIOUS
  <2>1. u[i] = a + i - 1
    BY <1>3
  <2>2. CASE i <= m
    <3>1. i \in 1..m
      BY <2>2
    <3> QED
      BY <1>1, <1>4, <2>1, <2>2, <3>1
  <2>3. CASE ~ (i <= m)
    <3>1. i - m \in 1..k
      BY <2>3
    <3>2. t[i - m] = a + m + (i - m) - 1
      BY <1>2, <3>1
    <3>3. a + m + (i - m) - 1 = a + i - 1
      OBVIOUS
    <3> QED
      BY <1>4, <2>1, <2>3, <3>2, <3>3
  <2> QED
    BY <2>2, <2>3
<1>6. s \o t = u
  BY <1>3, <1>4, <1>5, SeqEqual
<1> QED
  BY <1>6 DEF s, t, u

(* A piece of a span is a span. *)
LEMMA SpanSub ==
    ASSUME NEW a \in Nat, NEW m \in Nat, NEW p \in 1..m + 1, NEW q \in p - 1..m
    PROVE  SubSeq(Span(a, m), p, q) = Span(a + p - 1, q - p + 1)
<1> DEFINE s == Span(a, m)
           v == SubSeq(s, p, q)
           u == Span(a + p - 1, q - p + 1)
<1>1. s \in Seq(Nat) /\ Len(s) = m /\ \A i \in 1..m : s[i] = a + i - 1
  BY SpanSeq
<1>2. /\ u \in Seq(Nat) /\ Len(u) = q - p + 1
      /\ \A i \in 1..q - p + 1 : u[i] = a + p - 1 + i - 1
  <2>1. a + p - 1 \in Nat /\ q - p + 1 \in Nat
    OBVIOUS
  <2> QED
    BY <2>1, SpanSeq
<1> HIDE DEF s, u
<1>3. \A i \in p..q : s[i] \in Nat
  BY <1>1
<1>4. /\ v \in Seq(Nat)
      /\ Len(v) = q - p + 1
      /\ \A i \in 1..q - p + 1 : v[i] = s[p + i - 1]
  BY <1>3, SubSeqProperties
<1> HIDE DEF v
<1>5. \A i \in 1..q - p + 1 : v[i] = u[i]
  BY <1>1, <1>2, <1>4
<1>6. v = u
  BY <1>2, <1>4, <1>5, SeqEqual
<1> QED
  BY <1>6 DEF v, s, u

(* What is queued, in a state of the invariant. *)
LEMMA QueuedIsSpan == RingInv => Queued = Span(read, write - read)
<1> SUFFICES ASSUME RingInv
             PROVE  Queued = Span(read, write - read)
  OBVIOUS
<1>1. ASSUME NEW i \in 1..write - read
      PROVE  slots[(read + i - 1) % Cap] = read + i - 1
  <2>1. read + i - 1 \in read..Stored - 1
    BY DEF RingInv, TypeOK, Stored
  <2> QED
    BY <2>1 DEF RingInv, StoredIntact
<1> QED
  BY <1>1 DEF Queued, Span

(* The bounds the refinement needs. *)
LEMMA IndexBounds ==
    RingInv => write \in Nat /\ read \in Nat /\ write - read \in 0..Cap
BY CapAssumption DEF RingInv, TypeOK, IndexOrder

(* Every step of the ring is a step of the queue or a stutter. *)
LEMMA StepRefines == RingInv /\ RingInv' /\ [Next]_vars => [Abstract!Next]_(Abstract!vars)
<1> SUFFICES ASSUME RingInv, RingInv', [Next]_vars
             PROVE  [Abstract!Next]_(Abstract!vars)
  OBVIOUS
<1>1. /\ write \in Nat /\ read \in Nat /\ write - read \in 0..Cap
      /\ write' \in Nat /\ read' \in Nat /\ write' - read' \in 0..Cap
  <2>1. (write \in Nat /\ read \in Nat /\ write - read \in 0..Cap)'
    BY IndexBounds, PTL
  <2> QED
    BY <2>1, IndexBounds
<1>2. Queued = Span(read, write - read) /\ Queued' = Span(read', write' - read')
  <2>1. (Queued = Span(read, write - read))'
    BY QueuedIsSpan, PTL
  <2>2. (Span(read, write - read))' = Span(read', write' - read')
    BY DEF Span
  <2> QED
    BY <2>1, <2>2, QueuedIsSpan
<1>3. Len(Queued) = write - read
  <2>1. write - read \in Nat
    BY <1>1, CapAssumption
  <2>2. Len(Span(read, write - read)) = write - read
    BY <1>1, <2>1, SpanSeq
  <2> QED
    BY <1>2, <2>2
<1>4. ASSUME UNCHANGED <<write, read, got>>
      PROVE  UNCHANGED Abstract!vars
  BY <1>2, <1>4 DEF Abstract!vars
<1>5. ASSUME WritePublish
      PROVE  Abstract!Next
  <2>1. /\ write' = write + pn /\ read' = read /\ got' = got
        /\ pn \in 1..Cap /\ write + pn <= read + Cap
    BY <1>5, CapAssumption DEF WritePublish, consVars, RingInv, TypeOK, ProducerClaim
  <2>2. Queued' = Queued \o Span(write, pn)
    <3>1. write - read \in Nat /\ pn \in Nat /\ read + (write - read) = write
      BY <1>1, <2>1, CapAssumption
    <3>2. Span(read, write - read) \o Span(read + (write - read), pn) = Span(read, (write - read) + pn)
      <4> DEFINE m == write - read
      <4>1. read \in Nat /\ m \in Nat
        BY <1>1, <3>1
      <4> HIDE DEF m
      <4>2. Span(read, m) \o Span(read + m, pn) = Span(read, m + pn)
        BY <3>1, <4>1, SpanConcat
      <4> QED
        BY <4>2 DEF m
    <3>3. write' - read' = (write - read) + pn
      BY <1>1, <2>1, <3>1
    <3> QED
      BY <1>2, <2>1, <3>1, <3>2, <3>3
  <2>3. Abstract!Put(pn)
    BY <1>1, <1>3, <2>1, <2>2, CapAssumption DEF Abstract!Put, Span
  <2> QED
    BY <2>1, <2>3 DEF Abstract!Next
<1>6. ASSUME ReadPublish
      PROVE  Abstract!Next
  <2>1. /\ read' = read + cn /\ write' = write /\ got' = dst
        /\ cn \in 1..write - read
        /\ dst \in Seq(Nat \cup {NoFrame}) /\ Len(dst) = cn
        /\ \A i \in 1..cn : dst[i] = read + i - 1
    BY <1>6 DEF ReadPublish, RingInv, TypeOK, ConsumerClaim, CopiedIntact
  <2>2. got' = SubSeq(Queued, 1, cn)
    <3>1. cn \in Nat /\ read + 1 - 1 = read /\ cn - 1 + 1 = cn
      BY <1>1, <2>1
    <3>2. SubSeq(Span(read, write - read), 1, cn) = Span(read + 1 - 1, cn - 1 + 1)
      <4>1. write - read \in Nat /\ 1 \in 1..(write - read) + 1 /\ cn \in 1 - 1..write - read
        BY <1>1, <2>1
      <4> QED
        BY <1>1, <4>1, SpanSub
    <3>3. /\ Span(read, cn) \in Seq(Nat) /\ Len(Span(read, cn)) = cn
          /\ \A i \in 1..cn : Span(read, cn)[i] = read + i - 1
      BY <1>1, <3>1, SpanSeq
    <3>4. Span(read, cn) \in Seq(Nat \cup {NoFrame})
      BY <3>3, SeqMonotonic
    <3>5. dst = Span(read, cn)
      BY <2>1, <3>3, <3>4, SeqEqual
    <3> QED
      BY <1>2, <2>1, <3>1, <3>2, <3>5
  <2>3. Queued' = SubSeq(Queued, cn + 1, Len(Queued))
    <3>1. /\ write - read \in Nat /\ cn + 1 \in 1..(write - read) + 1
          /\ write - read \in (cn + 1) - 1..write - read
      BY <1>1, <2>1
    <3>2. SubSeq(Span(read, write - read), cn + 1, write - read)
            = Span(read + (cn + 1) - 1, (write - read) - (cn + 1) + 1)
      BY <1>1, <3>1, SpanSub
    <3>3. read + (cn + 1) - 1 = read' /\ (write - read) - (cn + 1) + 1 = write' - read'
      BY <1>1, <2>1
    <3> QED
      BY <1>2, <1>3, <3>2, <3>3
  <2>4. Abstract!Take(cn)
    BY <2>1, <2>2, <2>3 DEF Abstract!Take
  <2> QED
    BY <1>3, <2>1, <2>4 DEF Abstract!Next
<1>7. ASSUME QuietReset
      PROVE  Abstract!Next
  <2>1. read' = write /\ write' = write /\ got' = got
    BY <1>7 DEF QuietReset, Reset, consVars
  <2>2. Queued' = << >>
    BY <1>1, <1>2, <2>1, SpanEmpty
  <2> QED
    BY <2>1, <2>2 DEF Abstract!Next, Abstract!Drop
<1>8. ASSUME \/ \E n \in 1..MaxRequest : WriteBegin(n)
             \/ WriteFrame
             \/ \E n \in 1..MaxRequest : ReadBegin(n)
             \/ ReadClamp
             \/ ReadIndex
             \/ ReadFrame
             \/ UNCHANGED vars
      PROVE  UNCHANGED <<write, read, got>>
  BY <1>8 DEF WriteBegin, WriteFrame, ReadBegin, ReadClamp, ReadIndex, ReadFrame, consVars, vars
<1> QED
  BY <1>4, <1>5, <1>6, <1>7, <1>8 DEF Next, Producer, Consumer

(* The ring is the bounded queue of FrameQueue. *)
THEOREM RingIsFrameQueue == Spec => IsFrameQueue
<1>1. Init => Abstract!Init
  <2> SUFFICES ASSUME Init
               PROVE  Abstract!Init
    OBVIOUS
  <2>1. RingInv
    BY InitRingInv
  <2>2. Queued = << >>
    BY <2>1, QueuedIsSpan, SpanEmpty DEF Init
  <2> QED
    BY <2>2 DEF Init, Abstract!Init
<1> QED
  BY <1>1, StepRefines, RingInvariant, PTL DEF Spec, IsFrameQueue, Abstract!Spec
=============================================================================

----------------------------- MODULE DriftProofs -----------------------------
(***************************************************************************)
(* What is proved of the drift-compensated callback for every number of    *)
(* taps, FIFO, ring, device buffer, jitter target and packet length, and   *)
(* for every step the controller may choose in each callback.              *)
(***************************************************************************)
EXTENDS Drift, TLAPS

-----------------------------------------------------------------------------
(* Arithmetic. *)

(* Quotients round down. *)
LEMMA DivBounds ==
    ASSUME NEW a \in Int, NEW b \in Nat \ {0}
    PROVE  /\ a \div b \in Int
           /\ b * (a \div b) <= a
           /\ a < b * (a \div b) + b
BY SMT

(* A product decides the order of its factors. *)
LEMMA MulOrder ==
    ASSUME NEW a \in Int, NEW b \in Int, NEW u \in Nat \ {0}
    PROVE  /\ u * a < u * b + u => a <= b
           /\ a <= b => u * a <= u * b
BY SMT

(* The quotient is the only such number. *)
LEMMA DivAtMost ==
    ASSUME NEW a \in Int, NEW b \in Nat \ {0}, NEW q \in Int, a <= b * q
    PROVE  a \div b <= q
<1>1. a \div b \in Int /\ b * (a \div b) <= a
  BY DivBounds
<1>2. b * (a \div b) < b * q + b
  BY <1>1, SMT
<1> QED
  BY <1>1, <1>2, MulOrder

(* A quotient is at least every number whose product with the divisor fits. *)
LEMMA DivAtLeast ==
    ASSUME NEW a \in Int, NEW b \in Nat \ {0}, NEW q \in Int, b * q <= a
    PROVE  q <= a \div b
<1>1. a \div b \in Int /\ a < b * (a \div b) + b
  BY DivBounds
<1> QED
  BY <1>1, MulOrder, SMT

-----------------------------------------------------------------------------
(* The converter. *)

(* Half the taps lie before the read position. *)
LEMMA HalfTheTaps ==
    Taps \div 2 \in Nat \ {0} /\ Taps \div 2 <= Taps /\ Leftmost \in Nat
BY TapsAssumption DEF Leftmost

(* A step deviates from the nominal one by Bend at most. *)
LEMMA StepBounds ==
    ASSUME NEW step \in Steps
    PROVE  step \in Nat \ {0} /\ Unit - Bend <= step /\ step <= Unit + Bend
BY UnitAssumption, BendAssumption DEF Steps

(* How much is produced: as long as the taps stay within the FIFO, and no  *)
(* less than that.                                                         *)
LEMMA Production ==
    ASSUME NEW s, s.avail \in Nat, s.frac \in 0..Unit - 1, Taps <= s.avail,
           NEW outFrames \in Nat, NEW step \in Steps
    PROVE  LET n    == Produced(s, outFrames, step)
               room == (s.avail - Taps) * Unit
           IN  /\ n \in 0..outFrames
               /\ n > 0 => s.frac + n * step <= room
               /\ n < outFrames => room < s.frac + n * step + step
<1> DEFINE room == (s.avail - Taps) * Unit
           q == (room - s.frac) \div step
           n == Produced(s, outFrames, step)
<1>1. step \in Nat \ {0} /\ room \in Int /\ room - s.frac \in Int /\ s.frac \in Nat
  BY StepBounds, TapsAssumption, UnitAssumption
<1>2. n = AtMost(AtLeast(q, 0), outFrames)
  BY TapsAssumption DEF Produced, Allowed
<1> HIDE DEF room
<1>3. q \in Int /\ step * q <= room - s.frac /\ room - s.frac < step * q + step
  BY <1>1, DivBounds
<1> HIDE DEF q, n
<1>4. /\ n \in 0..outFrames
      /\ n > 0 => n <= q
      /\ n < outFrames => q <= n
  BY <1>2, <1>3 DEF AtMost, AtLeast
<1>5. /\ n > 0 => step * n <= step * q
      /\ n < outFrames => step * q <= step * n
  BY <1>1, <1>3, <1>4, MulOrder
<1>6. n * step = step * n /\ step * n \in Int /\ step * q \in Int
  BY <1>1, <1>3, <1>4
<1> QED
  BY <1>1, <1>3, <1>4, <1>5, <1>6 DEF room, n

(* What a production consumes leaves the taps in the FIFO, and a read      *)
(* position within a frame.                                                *)
LEMMA Consumption ==
    ASSUME NEW s, s.avail \in Nat, s.frac \in 0..Unit - 1, Taps <= s.avail,
           NEW outFrames \in Nat, NEW step \in Steps,
           Produced(s, outFrames, step) > 0
    PROVE  LET n == Produced(s, outFrames, step)
               a == Advance(s, n, step)
               c == Consumed(s, outFrames, step)
           IN  /\ n \in Nat /\ a \in Nat /\ a = s.frac + n * step
               /\ c = a \div Unit
               /\ c \in 0..s.avail - Taps
               /\ Unit * c <= a /\ a < Unit * c + Unit
<1> DEFINE n == Produced(s, outFrames, step)
           a == s.frac + n * step
           c == Consumed(s, outFrames, step)
<1>1. n \in Nat /\ n > 0 /\ a <= (s.avail - Taps) * Unit
  BY Production
<1> HIDE DEF n
<1>2. a \in Nat
  BY <1>1, StepBounds
<1>3. (s.avail - Taps) * Unit = Unit * (s.avail - Taps) /\ s.avail - Taps \in Nat
  BY TapsAssumption, UnitAssumption
<1>4. c = AtMost(a \div Unit, s.avail)
  BY DEF Consumed, Advance, n
<1> HIDE DEF a, c
<1>5. a \div Unit \in Int /\ Unit * (a \div Unit) <= a /\ a < Unit * (a \div Unit) + Unit
  BY <1>2, UnitAssumption, DivBounds
<1>6. a \div Unit <= s.avail - Taps
  BY <1>1, <1>2, <1>3, UnitAssumption, DivAtMost
<1>7. 0 <= a \div Unit
  BY <1>2, UnitAssumption, DivAtLeast
<1>8. c = a \div Unit
  BY <1>3, <1>4, <1>5, <1>6, TapsAssumption DEF AtMost
<1> QED
  BY <1>1, <1>2, <1>3, <1>5, <1>6, <1>7, <1>8 DEF Advance, a, c, n

SrcType == [frac : 0..Unit - 1, avail : 0..FifoCap]

(* The three outcomes of a callback. *)
LEMMA ProcessCases ==
    ASSUME NEW s \in SrcType, NEW outFrames \in Nat, NEW step \in Steps
    PROVE  LET n == Produced(s, outFrames, step)
               c == Consumed(s, outFrames, step)
               t == Process(s, outFrames, step)
           IN  /\ s.avail < Taps => t = [s EXCEPT !.frac = 0]
               /\ ~ (s.avail < Taps) /\ n = 0 => t = s
               /\ ~ (s.avail < Taps) /\ n # 0 =>
                    t = [avail |-> s.avail - c, frac |-> Advance(s, n, step) - c * Unit]
BY Zenon DEF Process

(* Between two callbacks the position is within a frame and the FIFO       *)
(* within its capacity; a callback only takes frames out of it.            *)
LEMMA ProcessType ==
    ASSUME NEW s \in SrcType, NEW outFrames \in Nat, NEW step \in Steps
    PROVE  /\ Process(s, outFrames, step) \in SrcType
           /\ Process(s, outFrames, step).avail <= s.avail
<1> DEFINE t == Process(s, outFrames, step)
           n == Produced(s, outFrames, step)
           c == Consumed(s, outFrames, step)
<1>1. s.avail \in Nat /\ s.avail <= FifoCap /\ s.frac \in 0..Unit - 1
  BY FifoAssumption DEF SrcType
<1>2. CASE s.avail < Taps
  BY <1>1, <1>2, UnitAssumption, ProcessCases DEF SrcType
<1>3. CASE Taps <= s.avail /\ n = 0
  BY <1>1, <1>3, TapsAssumption, ProcessCases
<1>4. CASE Taps <= s.avail /\ n # 0
  <2>1. n > 0
    BY <1>1, <1>4, Production
  <2>2. /\ Advance(s, n, step) \in Nat
        /\ c \in 0..s.avail - Taps
        /\ Unit * c <= Advance(s, n, step) /\ Advance(s, n, step) < Unit * c + Unit
    BY <1>1, <1>4, <2>1, Consumption
  <2>3. t = [avail |-> s.avail - c, frac |-> Advance(s, n, step) - c * Unit]
    BY <1>1, <1>4, <2>1, TapsAssumption, ProcessCases
  <2>4. c * Unit = Unit * c /\ Unit * c \in Int
    BY <2>2, UnitAssumption
  <2>5. Advance(s, n, step) - c * Unit \in 0..Unit - 1
    BY <2>2, <2>4, UnitAssumption
  <2>6. s.avail - c \in 0..FifoCap /\ s.avail - c <= s.avail
    BY <1>1, <2>2, TapsAssumption, FifoAssumption
  <2> HIDE DEF t, n, c
  <2> QED
    BY <2>3, <2>5, <2>6 DEF SrcType, t
<1> QED
  BY <1>1, <1>2, <1>3, <1>4, TapsAssumption

(* The steps of a whole block stay within a frame of its length. *)
LEMMA BlockSteps ==
    ASSUME NEW n \in Nat, n * Bend <= Unit, NEW step \in Steps
    PROVE  /\ n * step \in Int
           /\ Unit * n - Unit <= n * step
           /\ n * step <= Unit * n + Unit
<1>1. step \in Nat /\ Unit - Bend <= step /\ step <= Unit + Bend
  BY StepBounds
<1>2. /\ n * (Unit - Bend) <= n * step /\ n * step <= n * (Unit + Bend)
  BY <1>1, UnitAssumption, BendAssumption, SMT
<1>3. /\ n * (Unit - Bend) = Unit * n - n * Bend
      /\ n * (Unit + Bend) = Unit * n + n * Bend
  BY UnitAssumption, BendAssumption, SMT
<1>4. n * step \in Int /\ n * Bend \in Int /\ Unit * n \in Int
  BY <1>1, UnitAssumption, BendAssumption
<1> QED
  BY <1>2, <1>3, <1>4, UnitAssumption

(* With two frames more than the block and the taps, the whole block is    *)
(* produced.                                                               *)
LEMMA FullBlock ==
    ASSUME NEW s \in SrcType, NEW n \in Nat, n * Bend <= Unit, NEW step \in Steps,
           Taps + n + 2 <= s.avail
    PROVE  Produced(s, n, step) = n
<1> DEFINE k == Produced(s, n, step)
           room == (s.avail - Taps) * Unit
<1>1. s.avail \in Nat /\ s.frac \in 0..Unit - 1 /\ Taps <= s.avail
  BY FifoAssumption, TapsAssumption DEF SrcType
<1>2. k \in 0..n /\ (k < n => room < s.frac + k * step + step)
  BY <1>1, Production
<1>3. Unit * n + 2 * Unit <= room /\ room \in Int
  <2>1. Unit * (n + 2) <= Unit * (s.avail - Taps)
    BY <1>1, UnitAssumption, TapsAssumption, MulOrder
  <2>2. Unit * (n + 2) = Unit * n + 2 * Unit /\ Unit * (s.avail - Taps) = room
    BY <1>1, UnitAssumption, TapsAssumption
  <2> QED
    BY <1>1, <2>1, <2>2, UnitAssumption, TapsAssumption
<1>4. n * step \in Int /\ n * step <= Unit * n + Unit
  BY BlockSteps
<1> HIDE DEF k, room
<1>5. ASSUME k < n PROVE FALSE
  <2>1. step \in Nat \ {0} /\ Unit * n \in Int
    BY StepBounds, UnitAssumption
  <2>2. step * (k + 1) <= step * n
    BY <1>2, <1>5, <2>1, MulOrder
  <2>3. step * (k + 1) = k * step + step /\ step * n = n * step /\ k * step \in Int
    BY <1>2, <2>1
  <2> QED
    BY <1>1, <1>2, <1>3, <1>4, <1>5, <2>1, <2>2, <2>3, UnitAssumption
<1> QED
  BY <1>2, <1>5 DEF k

(* A whole block takes its length from the FIFO, give or take a frame.     *)
LEMMA FullBlockConsumes ==
    ASSUME NEW s \in SrcType, NEW n \in Nat \ {0}, n * Bend <= Unit, NEW step \in Steps,
           Taps <= s.avail, Produced(s, n, step) = n
    PROVE  Consumed(s, n, step) \in n - 1..n + 1
<1> DEFINE c == Consumed(s, n, step)
           a == Advance(s, n, step)
<1>1. s.avail \in Nat /\ s.frac \in 0..Unit - 1
  BY FifoAssumption DEF SrcType
<1>2. /\ a \in Nat /\ a = s.frac + n * step
      /\ c \in Nat /\ Unit * c <= a /\ a < Unit * c + Unit
  BY <1>1, Consumption
<1>3. /\ n * step \in Int
      /\ Unit * n - Unit <= n * step
      /\ n * step <= Unit * n + Unit
  BY BlockSteps
<1>4. Unit * (n - 1) = Unit * n - Unit /\ Unit * (n + 1) = Unit * n + Unit /\ Unit * n \in Int
  BY UnitAssumption
<1> HIDE DEF a, c
<1>5. Unit * c < Unit * (n + 1) + Unit /\ Unit * (n - 1) < Unit * c + Unit
  BY <1>1, <1>2, <1>3, <1>4, UnitAssumption
<1>6. c <= n + 1 /\ n - 1 <= c
  BY <1>2, <1>5, UnitAssumption, MulOrder
<1> QED
  BY <1>2, <1>6 DEF c

(* What falls short of a block leaves little more than the taps.           *)
LEMMA ShortBlock ==
    ASSUME NEW s \in SrcType, NEW n \in Nat, NEW step \in Steps,
           Produced(s, n, step) < n
    PROVE  Process(s, n, step).avail <= Taps + 2
<1> DEFINE k == Produced(s, n, step)
           c == Consumed(s, n, step)
           a == Advance(s, k, step)
           room == (s.avail - Taps) * Unit
<1>1. s.avail \in Nat /\ s.frac \in 0..Unit - 1 /\ step \in Nat /\ step < 2 * Unit
  BY FifoAssumption, StepBounds, UnitAssumption, BendAssumption DEF SrcType
<1>2. CASE s.avail < Taps
  BY <1>1, <1>2, TapsAssumption, ProcessCases DEF SrcType
<1>3. ASSUME Taps <= s.avail
      PROVE  k \in Nat /\ room < s.frac + k * step + step /\ room = Unit * (s.avail - Taps)
  BY <1>1, <1>3, Production, UnitAssumption, TapsAssumption
<1>4. CASE Taps <= s.avail /\ k = 0
  <2>1. k * step = 0
    BY <1>1, <1>4
  <2>2. room < s.frac + step /\ room = Unit * (s.avail - Taps) /\ room \in Int
    BY <1>1, <1>3, <1>4, <2>1, UnitAssumption, TapsAssumption
  <2> HIDE DEF room
  <2>3. Unit * (s.avail - Taps) < Unit * 2 + Unit
    BY <1>1, <2>2, UnitAssumption
  <2>4. s.avail - Taps <= 2
    BY <1>1, <2>3, UnitAssumption, TapsAssumption, MulOrder
  <2>5. Process(s, n, step) = s
    BY <1>1, <1>4, ProcessCases, TapsAssumption
  <2> QED
    BY <1>1, <2>4, <2>5, TapsAssumption
<1>5. CASE Taps <= s.avail /\ k # 0
  <2>1. /\ a \in Nat /\ a = s.frac + k * step
        /\ c \in 0..s.avail - Taps /\ a < Unit * c + Unit
    BY <1>1, <1>3, <1>5, Consumption
  <2>2. Unit * (c + 2) = Unit * c + 2 * Unit /\ Unit * c \in Int
    BY <2>1, UnitAssumption
  <2>3. Process(s, n, step) = [avail |-> s.avail - c, frac |-> a - c * Unit]
    BY <1>1, <1>5, ProcessCases, TapsAssumption
  <2>4. room < s.frac + k * step + step /\ room = Unit * (s.avail - Taps) /\ room \in Int
    BY <1>1, <1>3, <1>5, UnitAssumption, TapsAssumption
  <2> HIDE DEF a, c, k, room
  <2>5. Unit * (s.avail - Taps) < Unit * (c + 2) + Unit
    BY <1>1, <2>1, <2>2, <2>4, UnitAssumption
  <2>6. s.avail - Taps <= c + 2
    BY <1>1, <2>1, <2>5, UnitAssumption, TapsAssumption, MulOrder
  <2> QED
    BY <1>1, <2>1, <2>3, <2>6, TapsAssumption
<1> QED
  BY <1>1, <1>2, <1>4, <1>5, TapsAssumption

(* A push adds what it is given, up to the FIFO's room. *)
LEMMA PushAdds ==
    ASSUME NEW s \in SrcType, NEW frames \in Nat
    PROVE  /\ Push(s, frames) \in SrcType
           /\ Push(s, frames).avail = s.avail + AtMost(frames, FifoCap - s.avail)
<1> DEFINE k == AtMost(frames, PushRoom(s))
<1>1. s.avail \in Nat /\ s.avail <= FifoCap /\ s = [frac |-> s.frac, avail |-> s.avail]
  BY FifoAssumption DEF SrcType
<1>2. PushRoom(s) = FifoCap - s.avail
  BY <1>1, FifoAssumption DEF PushRoom, AtLeast
<1>3. k \in Nat /\ s.avail + k <= FifoCap
  BY <1>1, <1>2, FifoAssumption DEF AtMost
<1> HIDE DEF k
<1>4. Push(s, frames) = [s EXCEPT !.avail = s.avail + k]
  BY DEF Push, k
<1>5. [s EXCEPT !.avail = s.avail + k] \in SrcType
      /\ [s EXCEPT !.avail = s.avail + k].avail = s.avail + k
  BY <1>1, <1>3, FifoAssumption DEF SrcType
<1> QED
  BY <1>2, <1>4, <1>5 DEF k

-----------------------------------------------------------------------------
(* The inductive invariant. *)

(* What the difference of two indices is, and when it is the plain one. *)
LEMMA UnsignedIs ==
    ASSUME NEW n \in Int
    PROVE  /\ Unsigned(n) \in 0..IndexMod - 1 /\ Unsigned(n) \in Nat
           /\ 0 <= n /\ n <= RingCap => Unsigned(n) = n
<1>1. IndexMod \in Nat \ {0} /\ RingCap \in Nat /\ RingCap < IndexMod
  BY RingAssumption
<1>2. n % IndexMod \in 0..IndexMod - 1
  BY <1>1, SMT
<1>3. 0 <= n /\ n <= RingCap => n % IndexMod = n
  BY <1>1, SMT
<1> QED
  BY <1>1, <1>2, <1>3 DEF Unsigned

SrcInRange == src \in SrcType

(* What the FIFO holds and what the callback will ask the ring for next    *)
(* make up for each other: a callback drains what the last one consumed.   *)
FifoNearTarget ==
    Tracks =>
        IF cpc = "process"
        THEN src.avail <= FifoTarget + block + 1
        ELSE src.avail + Predicted <= FifoTarget + block + 1

(* Fed from the ring, the FIFO has a whole block beyond the taps. *)
Supplied == Tracks /\ BlockFits /\ fed /\ cpc = "process" => Taps + block + 2 <= src.avail

(* While old frames are in the FIFO its reset is requested or about to be; *)
(* between the reset and the clearing of the request the FIFO is empty.    *)
OldLeave ==
    /\ old > 0 => resetPending \/ npc \in {"stop", "request"}
    /\ cpc = "clear" => src.avail = 0

(* A read takes no more than the callback wanted and, unless a reset fell  *)
(* inside it, no more than the ring holds.                                 *)
ReadClaim ==
    /\ cpc \in {"index", "copy"} => cn \in Nat /\ cn <= Wanted
    /\ ~ raced =>
         /\ cpc = "clamp" => seen <= ring
         /\ cpc \in {"index", "copy"} => cn <= ring
         /\ cpc = "copy" => moved = 0

DriftInv ==
    /\ TypeOK /\ SrcInRange /\ FifoNearTarget /\ Supplied /\ NeverStarves /\ OldLeave
    /\ ReadClaim

(* The device's block. *)
LEMMA BlockType ==
    ASSUME setup \in Setups
    PROVE  block \in Nat /\ block > 1
BY SetupsAssumption DEF block

(* The drain the callback predicts is its block, give or take a frame. *)
LEMMA PredictedBounds ==
    ASSUME setup \in Setups, lastConsumed \in Nat
    PROVE  Predicted \in Nat /\ block - 1 <= Predicted /\ Predicted <= block + 1
BY BlockType DEF Predicted, AtMost, AtLeast

(* What a callback drains: something, never more than src_buf or than      *)
(* keeps the FIFO near its target; and what it wants fills a block.        *)
LEMMA NeededBounds ==
    ASSUME setup \in Setups, lastConsumed \in Nat, avail \in Nat, SrcInRange
    PROVE  /\ Wanted \in Nat /\ Wanted <= SrcBufFrames
           /\ Needed \in Nat /\ Needed <= Wanted
           /\ src.avail + Predicted <= FifoTarget + block + 1 =>
                src.avail + Wanted <= FifoTarget + block + 1
           /\ BlockFits => FifoTarget + block - 1 <= src.avail + Wanted
<1>1. block \in Nat /\ block > 1
  BY BlockType
<1>2. Predicted \in Nat /\ block - 1 <= Predicted /\ Predicted <= block + 1
  BY PredictedBounds
<1>3. Base \in Nat /\ block - 1 <= Base /\ Base <= Predicted /\ 1 <= Base
  BY <1>1, <1>2 DEF Base
<1>4. src.avail \in Nat /\ FifoTarget \in Nat /\ SrcBufFrames \in Nat /\ 1 <= SrcBufFrames
  BY TargetAssumption, FifoAssumption DEF SrcInRange, SrcType
<1>5. /\ TopUp \in Nat
      /\ src.avail < FifoTarget => TopUp = FifoTarget - src.avail
      /\ ~ (src.avail < FifoTarget) => TopUp = 0
  BY <1>4 DEF TopUp
<1>6. /\ Wanted \in Nat /\ 1 <= Wanted /\ Wanted <= SrcBufFrames /\ Wanted <= Base + TopUp
      /\ Wanted = Base + TopUp \/ Wanted = SrcBufFrames
  BY <1>3, <1>4, <1>5 DEF Wanted, AtMost
<1>7. Needed \in Nat /\ Needed <= Wanted
  BY <1>6 DEF Needed, AtMost, AtLeast
<1>8. ASSUME src.avail + Predicted <= FifoTarget + block + 1
      PROVE  src.avail + Wanted <= FifoTarget + block + 1
  BY <1>1, <1>2, <1>3, <1>4, <1>5, <1>6, <1>8
<1>9. ASSUME BlockFits
      PROVE  FifoTarget + block - 1 <= src.avail + Wanted
  BY <1>1, <1>3, <1>4, <1>5, <1>6, <1>9 DEF BlockFits
<1> QED
  BY <1>6, <1>7, <1>8, <1>9

(* An empty FIFO and an empty ring satisfy the invariant. *)
LEMMA InitDriftInv == Init => DriftInv
<1> SUFFICES ASSUME Init
             PROVE  DriftInv
  OBVIOUS
<1>1. block \in Nat /\ block > 1
  BY BlockType DEF Init
<1>2. SrcEmpty \in SrcType /\ SrcEmpty.avail = 0
  BY FifoAssumption, UnitAssumption DEF SrcEmpty, SrcType
<1>3. Predicted = block
  BY <1>1 DEF Init, Predicted, AtMost, AtLeast
<1>4. TypeOK
  <2>1. {started, resetPending, fed, starved, raced} \subseteq BOOLEAN
    BY Zenon DEF Init
  <2>2. /\ src.avail \in 0..FifoCap /\ src.frac \in 0..Unit - 1
        /\ lastConsumed \in Nat /\ old \in 0..src.avail
    BY <1>1, FifoAssumption, UnitAssumption DEF Init, SrcEmpty
  <2>3. {ring, avail, seen, moved} \subseteq 0..IndexMod - 1 /\ ring <= RingCap /\ cn \in 0..SrcBufFrames
    BY RingAssumption, TargetAssumption DEF Init
  <2> QED
    BY <2>1, <2>2, <2>3 DEF Init, TypeOK
<1>5. cpc = "idle"
  BY DEF Init
<1> QED
  BY <1>1, <1>2, <1>3, <1>4, <1>5, TargetAssumption
  DEF Init, DriftInv, SrcInRange, FifoNearTarget, Supplied, NeverStarves, OldLeave, ReadClaim

(* Steps of either thread that neither move frames of the FIFO nor enter   *)
(* or leave the conversion.                                                *)
LEMMA OutsideConversion ==
    ASSUME DriftInv, UNCHANGED <<setup, src, lastConsumed, fed, starved>>,
           (cpc = "process") <=> (cpc' = "process")
    PROVE  SrcInRange' /\ FifoNearTarget' /\ Supplied' /\ NeverStarves'
<1>1. block' = block /\ Tracks' = Tracks /\ BlockFits' = BlockFits /\ Predicted' = Predicted
  BY DEF block, Tracks, BlockFits, Predicted
<1>2. SrcInRange'
  BY DEF DriftInv, SrcInRange
<1>3. FifoNearTarget'
  BY <1>1 DEF DriftInv, FifoNearTarget
<1>4. Supplied'
  BY <1>1 DEF DriftInv, Supplied
<1>5. NeverStarves'
  BY <1>1 DEF DriftInv, NeverStarves
<1> QED
  BY <1>2, <1>3, <1>4, <1>5

(* What the callback wants is settled when it has sampled the ring. *)
LEMMA WantedUnchanged ==
    ASSUME UNCHANGED <<setup, src, lastConsumed, avail>>
    PROVE  Wanted' = Wanted
BY DEF Wanted, Base, Predicted, TopUp, block

(* Packets delivered and ring resets, between any two steps of a callback. *)
LEMMA NetworkKeepsInv == DriftInv /\ Network => DriftInv'
<1> SUFFICES ASSUME DriftInv, Network
             PROVE  DriftInv'
  OBVIOUS
<1> USE DEF DriftInv
<1>1. src.avail \in Nat /\ RingCap \in Nat /\ ring \in Int /\ seen \in Int /\ moved \in Int
  BY FifoAssumption, RingAssumption DEF TypeOK
<1>2. ASSUME NEW n \in Packets, Deliver(n)
      PROVE  DriftInv'
  <2> DEFINE room == Unsigned(RingCap - ring)
  <2>1. n \in Nat /\ room \in Nat
    BY <1>1, PacketsAssumption, UnsignedIs
  <2>2. ~ raced => room = RingCap - ring
    <3>1. ~ raced => 0 <= RingCap - ring /\ RingCap - ring <= RingCap
      BY <1>1, RingAssumption DEF TypeOK
    <3> QED
      BY <1>1, <3>1, UnsignedIs
  <2> HIDE DEF room
  <2>3. AtMost(n, room) \in Nat /\ AtMost(n, room) <= room
    BY <2>1 DEF AtMost
  <2>4. ring' = Unsigned(ring + AtMost(n, room))
    BY <1>2 DEF Deliver, room
  <2>5. ring' \in 0..IndexMod - 1
    BY <1>1, <2>3, <2>4, UnsignedIs
  <2>6. ~ raced => ring' <= RingCap /\ ring <= ring'
    <3>1. ASSUME ~ raced
          PROVE  ring + AtMost(n, room) \in Nat /\ ring + AtMost(n, room) <= RingCap
      BY <1>1, <2>2, <2>3, <3>1, RingAssumption DEF TypeOK
    <3>2. ~ raced => ring' = ring + AtMost(n, room)
      BY <2>4, <3>1, UnsignedIs
    <3> QED
      BY <1>1, <2>3, <3>1, <3>2
  <2>7. UNCHANGED <<setup, started, resetPending, cpc, avail, seen, cn, moved, src, lastConsumed,
                    fed, starved, old, raced>>
        /\ npc \in {"recv", "write"} /\ npc' = "recv"
    BY <1>2 DEF Deliver, callbackState, reading, converter
  <2>8. TypeOK'
    BY <2>5, <2>6, <2>7 DEF TypeOK
  <2>9. OldLeave'
    BY <2>7 DEF OldLeave
  <2>10. ReadClaim'
    <3>1. Wanted' = Wanted
      BY <2>7, WantedUnchanged
    <3>2. ring' \in Int /\ cn \in Int
      BY <2>5, RingAssumption, TargetAssumption DEF TypeOK
    <3> QED
      BY <1>1, <2>6, <2>7, <3>1, <3>2 DEF ReadClaim
  <2> QED
    BY <2>7, <2>8, <2>9, <2>10, OutsideConversion
<1>3. CASE RestartRing
  <2>1. /\ npc = "recv" /\ npc' = "stop" /\ ring' = 0 /\ old' = src.avail
        /\ raced' = (cpc \in {"clamp", "index", "copy"})
        /\ UNCHANGED <<setup, started, resetPending, cpc, avail, cn, src, lastConsumed, fed, starved>>
    BY <1>3 DEF RestartRing, converter
  <2>2. seen' \in 0..IndexMod - 1 /\ moved' \in 0..IndexMod - 1
    <3>1. Unsigned(seen - ring) \in 0..IndexMod - 1 /\ Unsigned(moved + ring) \in 0..IndexMod - 1
      BY <1>1, UnsignedIs
    <3> QED
      BY <1>3, <3>1 DEF RestartRing, TypeOK
  <2>3. TypeOK'
    <3>1. raced' \in BOOLEAN
      BY <2>1
    <3>2. ring' \in 0..IndexMod - 1 /\ ring' <= RingCap /\ old' \in 0..src.avail
      BY <1>1, <2>1, RingAssumption
    <3>3. {started', resetPending', fed', starved', raced'} \subseteq BOOLEAN
      BY <2>1, <3>1 DEF TypeOK
    <3> QED
      BY <2>1, <2>2, <3>2, <3>3 DEF TypeOK
  <2>4. OldLeave'
    BY <2>1 DEF OldLeave
  <2>5. ReadClaim'
    <3>1. Wanted' = Wanted
      BY <2>1, WantedUnchanged
    <3> QED
      BY <2>1, <3>1 DEF ReadClaim
  <2> QED
    BY <2>1, <2>3, <2>4, <2>5, OutsideConversion
<1>4. CASE RestartStop \/ RestartRequest
  <2>1. /\ npc \in {"stop", "request"}
        /\ npc' = (IF npc = "stop" THEN "request" ELSE "write")
        /\ npc = "stop" => started' = FALSE /\ resetPending' = resetPending
        /\ npc = "request" => resetPending' = TRUE /\ started' = started
        /\ UNCHANGED <<setup, ring, cpc, avail, seen, cn, moved, src, lastConsumed, fed, starved,
                       old, raced>>
    BY <1>4 DEF RestartStop, RestartRequest, callbackState, reading, converter
  <2>2. TypeOK'
    <3>1. npc' \in {"recv", "stop", "request", "write"}
      BY <2>1
    <3>2. started' \in BOOLEAN /\ resetPending' \in BOOLEAN
      BY <2>1 DEF TypeOK
    <3>3. {started', resetPending', fed', starved', raced'} \subseteq BOOLEAN
      BY <2>1, <3>2 DEF TypeOK
    <3> QED
      BY <2>1, <3>1, <3>3 DEF TypeOK
  <2>3. OldLeave'
    BY <2>1 DEF OldLeave
  <2>4. ReadClaim'
    <3>1. Wanted' = Wanted
      BY <2>1, WantedUnchanged
    <3> QED
      BY <2>1, <3>1 DEF ReadClaim
  <2> QED
    BY <2>1, <2>2, <2>3, <2>4, OutsideConversion
<1> QED
  BY <1>2, <1>3, <1>4 DEF Network

(* The callback before its read. *)
LEMMA BeforeReadKeepsInv ==
    ASSUME DriftInv,
           \/ CallbackLevel \/ CallbackSample \/ CallbackSilent \/ CallbackPlay
           \/ CallbackNoReset \/ CallbackClear
    PROVE  DriftInv'
<1> USE DEF DriftInv
<1>1. /\ UNCHANGED <<setup, npc, ring, cn, moved, src, lastConsumed, fed, starved, old, raced>>
      /\ cpc \notin {"clamp", "index", "copy", "process"}
      /\ cpc' \in {"idle", "level", "check", "drift", "read"}
      /\ started' \in BOOLEAN /\ resetPending' \in BOOLEAN
      /\ resetPending' = resetPending \/ (cpc = "clear" /\ cpc' = "read")
  BY DEF CallbackLevel, CallbackSample, CallbackSilent, CallbackPlay, CallbackNoReset,
         CallbackClear, reading, converter, TypeOK
<1>2. avail' \in 0..IndexMod - 1 /\ seen' \in 0..IndexMod - 1
  BY RingAssumption
  DEF CallbackLevel, CallbackSample, CallbackSilent, CallbackPlay, CallbackNoReset,
      CallbackClear, reading, TypeOK
<1>3. TypeOK'
  <2>1. {started', resetPending', fed', starved', raced'} \subseteq BOOLEAN
    BY <1>1 DEF TypeOK
  <2> QED
    BY <1>1, <1>2, <2>1 DEF TypeOK
<1>4. OldLeave'
  BY <1>1 DEF OldLeave, TypeOK
<1>5. ReadClaim'
  BY <1>1 DEF ReadClaim
<1> QED
  BY <1>1, <1>3, <1>4, <1>5, OutsideConversion

(* The loads of a read: its clamp leaves no more than the callback wanted, *)
(* and no more than the ring holds.                                        *)
LEMMA LoadsKeepInv ==
    ASSUME DriftInv, CallbackRead \/ CallbackClamp \/ CallbackIndex
    PROVE  DriftInv'
<1> USE DEF DriftInv
<1>1. /\ UNCHANGED <<setup, npc, ring, started, resetPending, avail, src, lastConsumed, fed,
                     starved, old, raced>>
      /\ cpc \in {"read", "clamp", "index"} /\ cpc' \in {"clamp", "index", "copy"}
  BY DEF CallbackRead, CallbackClamp, CallbackIndex, converter
<1>2. Wanted' = Wanted
  BY <1>1, WantedUnchanged
<1>3. /\ Wanted \in Nat /\ Wanted <= SrcBufFrames /\ Needed \in Nat /\ Needed <= Wanted
      /\ seen \in Nat /\ ring \in Nat /\ SrcBufFrames \in Nat
  BY NeededBounds, RingAssumption, TargetAssumption DEF TypeOK
<1>4. /\ seen' \in 0..IndexMod - 1 /\ moved' \in 0..IndexMod - 1 /\ cn' \in 0..SrcBufFrames
      /\ ReadClaim'
  <2>1. CASE CallbackRead
    <3>1. cpc' = "clamp" /\ seen' = ring /\ UNCHANGED <<cn, moved>>
      BY <2>1 DEF CallbackRead
    <3> QED
      BY <1>1, <1>3, <3>1 DEF ReadClaim, TypeOK
  <2>2. CASE CallbackClamp
    <3>1. /\ cpc = "clamp" /\ cpc' = "index" /\ cn' = AtMost(Needed, seen) /\ seen' = 0
          /\ moved' = moved
      BY <2>2 DEF CallbackClamp
    <3>2. cn' \in Nat /\ cn' <= Wanted /\ cn' <= seen
      BY <1>3, <3>1 DEF AtMost
    <3> QED
      BY <1>1, <1>2, <1>3, <3>1, <3>2, RingAssumption DEF ReadClaim, TypeOK
  <2>3. CASE CallbackIndex
    <3>1. cpc = "index" /\ cpc' = "copy" /\ moved' = 0 /\ UNCHANGED <<seen, cn>>
      BY <2>3 DEF CallbackIndex
    <3> QED
      BY <1>1, <1>2, <3>1, RingAssumption DEF ReadClaim, TypeOK
  <2> QED
    BY <2>1, <2>2, <2>3
<1>5. TypeOK'
  BY <1>1, <1>4 DEF TypeOK
<1>6. OldLeave'
  BY <1>1 DEF OldLeave
<1> QED
  BY <1>1, <1>4, <1>5, <1>6, OutsideConversion

(* The callback carries out the reset it was asked for. *)
LEMMA ResetKeepsInv == ASSUME DriftInv, CallbackReset PROVE DriftInv'
<1>1. /\ cpc = "drift" /\ cpc' = "clear" /\ src' = SrcEmpty /\ lastConsumed' = block /\ old' = 0
      /\ UNCHANGED <<setup, npc, ring, started, resetPending, avail, seen, cn, moved, fed, starved,
                     raced>>
  BY DEF CallbackReset, ResetSrc, reading
<1>2. block \in Nat /\ block > 1 /\ block' = block
  BY <1>1, BlockType DEF DriftInv, TypeOK, block
<1>3. SrcEmpty \in SrcType /\ SrcEmpty.avail = 0 /\ SrcEmpty.frac = 0
  BY FifoAssumption, UnitAssumption DEF SrcEmpty, SrcType
<1>4. Predicted' = block
  BY <1>1, <1>2 DEF Predicted, AtMost, AtLeast
<1>5. TypeOK'
  BY <1>1, <1>2, <1>3, FifoAssumption, UnitAssumption DEF DriftInv, TypeOK
<1>6. SrcInRange' /\ FifoNearTarget' /\ Supplied' /\ OldLeave' /\ ReadClaim'
  BY <1>1, <1>2, <1>3, <1>4, TargetAssumption
  DEF SrcInRange, FifoNearTarget, Supplied, OldLeave, ReadClaim
<1>7. NeverStarves'
  BY <1>1, <1>2 DEF DriftInv, NeverStarves, Tracks, BlockFits
<1> QED
  BY <1>5, <1>6, <1>7 DEF DriftInv

(* The end of a read: what was read is pushed, no frame is dropped, and    *)
(* what the callback wanted makes up a block.                              *)
LEMMA PublishKeepsInv ==
    ASSUME DriftInv, CallbackDry \/ CallbackPublish
    PROVE  DriftInv'
<1> DEFINE read == IF cpc = "copy" THEN cn ELSE 0
<1>1. /\ cpc \in {"clamp", "copy"} /\ cpc' = "process"
      /\ cpc = "clamp" => src' = src /\ fed' = FALSE /\ UNCHANGED <<ring, seen, cn, moved>>
      /\ cpc = "copy" => /\ src' = Push(src, cn) /\ fed' = (cn >= Wanted)
                         /\ ring' = Unsigned(ring + moved - cn)
                         /\ seen' = seen /\ cn' = 0 /\ moved' = 0
      /\ UNCHANGED <<setup, npc, started, resetPending, avail, lastConsumed, starved, old, raced>>
  BY DEF CallbackDry, CallbackPublish, reading
<1>2. block \in Nat /\ block > 1 /\ block' = block
  BY <1>1, BlockType DEF DriftInv, TypeOK, block
<1>3. /\ Tracks' = Tracks /\ BlockFits' = BlockFits
      /\ src \in SrcType /\ src.avail \in Nat /\ src.avail <= FifoCap
      /\ ring \in Int /\ moved \in Int /\ cn \in Int /\ old \in 0..src.avail
  BY <1>2, FifoAssumption DEF DriftInv, TypeOK, SrcInRange, SrcType, Tracks, BlockFits
<1>4. /\ Wanted \in Nat /\ Wanted <= SrcBufFrames
      /\ src.avail + Predicted <= FifoTarget + block + 1 =>
           src.avail + Wanted <= FifoTarget + block + 1
      /\ BlockFits => FifoTarget + block - 1 <= src.avail + Wanted
  BY NeededBounds, RingAssumption DEF DriftInv, TypeOK
<1>5. /\ read \in Nat /\ read <= Wanted
      /\ cpc = "clamp" => read = 0
      /\ cpc = "copy" => read = cn
  BY <1>4 DEF DriftInv, ReadClaim
<1> HIDE DEF read
<1>6. /\ src' \in SrcType
      /\ src'.avail = src.avail + AtMost(read, FifoCap - src.avail)
      /\ fed' \in BOOLEAN /\ (fed' => read >= Wanted)
  <2>1. CASE cpc = "clamp"
    <3>1. AtMost(read, FifoCap - src.avail) = 0 /\ src' = src
      BY <1>1, <1>3, <1>5, <2>1, FifoAssumption DEF AtMost
    <3>2. fed' \in BOOLEAN /\ ~ fed'
      BY <1>1, <2>1, Zenon
    <3> QED
      BY <1>3, <3>1, <3>2
  <2>2. CASE cpc = "copy"
    <3>1. src' = Push(src, read) /\ fed' = (read >= Wanted)
      BY <1>1, <1>5, <2>2
    <3>2. /\ Push(src, read) \in SrcType
          /\ Push(src, read).avail = src.avail + AtMost(read, FifoCap - src.avail)
      BY <1>3, <1>5, PushAdds
    <3>3. fed' \in BOOLEAN
      BY <3>1
    <3> QED
      BY <3>1, <3>2, <3>3
  <2> QED
    BY <1>1, <2>1, <2>2
<1>7. /\ src'.avail <= src.avail + read /\ src.avail <= src'.avail
      /\ src.avail + read <= FifoCap => src'.avail = src.avail + read
      /\ src'.avail \in 0..FifoCap /\ src'.frac \in 0..Unit - 1
  BY <1>3, <1>5, <1>6, FifoAssumption DEF AtMost, SrcType
<1>8. TypeOK'
  <2>1. ring' \in 0..IndexMod - 1 /\ (~ raced => ring' <= RingCap)
    <3>1. CASE cpc = "clamp"
      BY <1>1, <3>1 DEF DriftInv, TypeOK
    <3>2. CASE cpc = "copy"
      <4>1. ring + moved - cn \in Int
        BY <1>3
      <4>2. ~ raced => 0 <= ring + moved - cn /\ ring + moved - cn <= RingCap
        BY <1>3, <3>2, RingAssumption DEF DriftInv, TypeOK, ReadClaim
      <4>3. ring' = Unsigned(ring + moved - cn)
        BY <1>1, <3>2
      <4> QED
        BY <4>1, <4>2, <4>3, UnsignedIs
    <3> QED
      BY <1>1, <3>1, <3>2
  <2>2. /\ seen' \in 0..IndexMod - 1 /\ moved' \in 0..IndexMod - 1 /\ cn' \in 0..SrcBufFrames
        /\ old' \in 0..src'.avail
    BY <1>1, <1>3, <1>7, RingAssumption, TargetAssumption DEF DriftInv, TypeOK
  <2>3. {started', resetPending', fed', starved', raced'} \subseteq BOOLEAN
    BY <1>1, <1>6 DEF DriftInv, TypeOK
  <2> QED
    BY <1>1, <1>7, <2>1, <2>2, <2>3 DEF DriftInv, TypeOK
<1>9. SrcInRange' /\ NeverStarves'
  BY <1>1, <1>6 DEF SrcInRange, NeverStarves
<1>10. ASSUME Tracks
       PROVE  /\ src.avail + Wanted <= FifoTarget + block + 1
              /\ src.avail <= FifoTarget + 2
  <2>1. src.avail + Predicted <= FifoTarget + block + 1
    BY <1>1, <1>10 DEF DriftInv, FifoNearTarget
  <2>2. Predicted \in Nat /\ block - 1 <= Predicted
    BY PredictedBounds DEF DriftInv, TypeOK
  <2> QED
    BY <1>2, <1>3, <1>4, <2>1, <2>2, TargetAssumption
<1>11. FifoNearTarget'
  <2>1. Tracks => src'.avail <= FifoTarget + block + 1
    BY <1>2, <1>3, <1>4, <1>5, <1>7, <1>10, TargetAssumption
  <2> QED
    BY <1>1, <1>2, <1>3, <2>1 DEF FifoNearTarget
<1>12. Supplied'
  <2>1. ASSUME Tracks, BlockFits, read >= Wanted
        PROVE  Taps + block + 2 <= src'.avail
    <3>1. read = Wanted /\ FifoTarget + block - 1 <= src.avail + Wanted
      BY <1>4, <1>5, <2>1
    <3>2. src.avail + read <= FifoCap
      BY <1>3, <1>4, <1>10, <2>1, <3>1, HalfTheTaps, ReserveAssumption, TargetAssumption,
         FifoAssumption
    <3> QED
      BY <1>2, <1>3, <1>4, <1>7, <3>1, <3>2, ReserveAssumption, TargetAssumption, TapsAssumption
  <2> QED
    BY <1>1, <1>2, <1>3, <1>6, <2>1 DEF Supplied
<1>13. OldLeave' /\ ReadClaim'
  BY <1>1 DEF DriftInv, OldLeave, ReadClaim
<1> QED
  BY <1>8, <1>9, <1>11, <1>12, <1>13 DEF DriftInv

(* The conversion: a whole block takes out of the FIFO what the next       *)
(* callback will ask the ring for; a short one leaves little in the FIFO,  *)
(* and the ring was short before it.                                       *)
LEMMA ProcessKeepsInv == ASSUME DriftInv, CallbackProcess PROVE DriftInv'
<1>1. PICK step \in Steps :
        /\ cpc = "process" /\ cpc' = "idle" /\ avail' = 0
        /\ src' = Process(src, block, step)
        /\ lastConsumed' = src.avail - src'.avail
        /\ starved' = (Produced(src, block, step) < block)
        /\ old' = AtLeast(old - lastConsumed', 0)
        /\ UNCHANGED <<setup, npc, ring, started, resetPending, seen, cn, moved, fed, raced>>
  BY DEF CallbackProcess, reading
<1> DEFINE n == Produced(src, block, step)
           c == Consumed(src, block, step)
<1>2. block \in Nat /\ block > 1 /\ block' = block /\ Tracks' = Tracks /\ BlockFits' = BlockFits
  BY <1>1, BlockType DEF DriftInv, TypeOK, block, Tracks, BlockFits
<1>3. src \in SrcType /\ src.avail \in Nat /\ src.frac \in 0..Unit - 1 /\ old \in 0..src.avail
  BY FifoAssumption DEF DriftInv, TypeOK, SrcInRange, SrcType
<1>4. src' \in SrcType /\ src'.avail <= src.avail
  BY <1>1, <1>2, <1>3, ProcessType
<1>5. src'.avail \in 0..FifoCap /\ src'.avail \in Nat /\ src'.frac \in 0..Unit - 1
  BY <1>4, FifoAssumption DEF SrcType
<1>6. lastConsumed' \in Nat /\ old' \in 0..src'.avail /\ old' <= old
  BY <1>1, <1>3, <1>4, <1>5 DEF AtLeast
<1>7. TypeOK'
  <2>1. starved' \in BOOLEAN
    BY <1>1
  <2>2. {started', resetPending', fed', starved', raced'} \subseteq BOOLEAN
    BY <1>1, <2>1 DEF DriftInv, TypeOK
  <2>3. avail' \in 0..IndexMod - 1
    BY <1>1, RingAssumption
  <2> QED
    BY <1>1, <1>5, <1>6, <2>2, <2>3 DEF DriftInv, TypeOK
<1>8. SrcInRange' /\ Supplied' /\ OldLeave' /\ ReadClaim'
  BY <1>1, <1>3, <1>4, <1>6 DEF DriftInv, SrcInRange, Supplied, OldLeave, ReadClaim
<1>9. n \in Nat /\ n <= block
  <2>1. CASE Taps <= src.avail
    BY <1>2, <1>3, <2>1, Production
  <2>2. CASE ~ (Taps <= src.avail)
    BY <1>2, <1>3, <2>2, TapsAssumption DEF Produced
  <2> QED
    BY <2>1, <2>2
<1>10. ASSUME n < block
       PROVE  src'.avail <= Taps + 2
  BY <1>1, <1>2, <1>3, <1>10, ShortBlock
<1>11. ASSUME Tracks, ~ (n < block)
       PROVE  lastConsumed' \in block - 1..block + 1
  <2>1. n = block /\ n # 0
    BY <1>2, <1>9, <1>11
  <2>2. Taps <= src.avail
    BY <1>2, <1>3, <2>1, TapsAssumption DEF Produced
  <2>3. block * Bend <= Unit
    BY <1>11 DEF Tracks
  <2>4. c \in block - 1..block + 1
    BY <1>2, <1>3, <2>1, <2>2, <2>3, FullBlockConsumes
  <2>5. src'.avail = src.avail - c
    <3>1. src' = [avail |-> src.avail - c, frac |-> Advance(src, n, step) - c * Unit]
      BY <1>1, <1>2, <1>3, <2>1, <2>2, TapsAssumption, ProcessCases
    <3> HIDE DEF n, c
    <3> QED
      BY <3>1
  <2> HIDE DEF n, c
  <2> QED
    BY <1>1, <1>2, <1>3, <2>4, <2>5
<1>12. FifoNearTarget'
  <2>1. Predicted' = AtLeast(AtMost(lastConsumed', block + 1), block - 1)
    BY <1>2 DEF Predicted
  <2>2. Predicted' \in Nat /\ Predicted' <= block + 1
    BY <1>2, <1>6, <2>1 DEF AtLeast, AtMost
  <2>3. ASSUME Tracks, n < block
        PROVE  src'.avail + Predicted' <= FifoTarget + block + 1
    BY <1>2, <1>5, <1>10, <2>2, <2>3, ReserveAssumption, TargetAssumption, TapsAssumption
  <2>4. ASSUME Tracks, ~ (n < block)
        PROVE  src'.avail + Predicted' <= FifoTarget + block + 1
    <3>1. Predicted' = lastConsumed'
      BY <1>2, <1>6, <1>11, <2>1, <2>4 DEF AtLeast, AtMost
    <3>2. src.avail <= FifoTarget + block + 1
      BY <1>1, <2>4 DEF DriftInv, FifoNearTarget
    <3> QED
      BY <1>1, <1>3, <1>5, <3>1, <3>2
  <2> QED
    BY <1>1, <1>2, <2>3, <2>4 DEF FifoNearTarget
<1>13. NeverStarves'
  <2>1. ASSUME Tracks, BlockFits, fed
        PROVE  n = block
    <3>1. Taps + block + 2 <= src.avail
      BY <1>1, <2>1 DEF DriftInv, Supplied
    <3>2. block * Bend <= Unit
      BY <2>1 DEF Tracks
    <3> QED
      BY <1>2, <1>3, <3>1, <3>2, FullBlock
  <2> HIDE DEF n
  <2>2. starved' => n < block
    BY <1>1 DEF n
  <2> QED
    BY <1>1, <1>2, <2>1, <2>2 DEF NeverStarves
<1> QED
  BY <1>7, <1>8, <1>12, <1>13 DEF DriftInv

(* Every step of either thread keeps the invariant. *)
LEMMA NextKeepsDriftInv == DriftInv /\ [Next]_vars => DriftInv'
<1> SUFFICES ASSUME DriftInv, [Next]_vars
             PROVE  DriftInv'
  OBVIOUS
<1>1. CASE Network
  BY <1>1, NetworkKeepsInv
<1>2. CASE Callback
  BY <1>2, BeforeReadKeepsInv, ResetKeepsInv, LoadsKeepInv, PublishKeepsInv, ProcessKeepsInv
  DEF Callback, Read
<1>3. CASE UNCHANGED vars
  <2>1. UNCHANGED <<setup, npc, ring, started, resetPending, cpc, avail, seen, cn, moved, src,
                    lastConsumed, fed, starved, old, raced>>
    BY <1>3 DEF vars, callbackState, reading, converter
  <2>2. TypeOK' /\ OldLeave'
    BY <2>1 DEF DriftInv, TypeOK, OldLeave
  <2>3. ReadClaim'
    BY <2>1, WantedUnchanged DEF DriftInv, ReadClaim
  <2> QED
    BY <2>1, <2>2, <2>3, OutsideConversion DEF DriftInv
<1> QED
  BY <1>1, <1>2, <1>3 DEF Next

-----------------------------------------------------------------------------
(* The theorems. *)

(* In every reachable state the FIFO and the callback's next demand make   *)
(* up for each other, a callback fed from the ring has its block, and old  *)
(* frames are about to leave.                                              *)
THEOREM DriftInvariant == Spec => []DriftInv
<1>1. Init => DriftInv
  BY InitDriftInv
<1>2. DriftInv /\ [Next]_vars => DriftInv'
  BY NextKeepsDriftInv
<1> QED
  BY <1>1, <1>2, PTL DEF Spec

(* The read position, the FIFO and the ring stay within their bounds.      *)
THEOREM DriftTypeCorrect == Spec => []TypeOK
<1>1. DriftInv => TypeOK
  BY DEF DriftInv
<1> QED
  BY <1>1, DriftInvariant, PTL

(* The converter reads and consumes valid frames only, whatever the        *)
(* controller's step.                                                      *)
THEOREM DriftNeverPastData == Spec => []NeverPastData
<1>1. DriftInv => NeverPastData
  <2> SUFFICES ASSUME DriftInv,
                      NEW step \in Steps, Produced(src, block, step) > 0
               PROVE  LET n == Produced(src, block, step) IN
                      /\ NewestTap(src, n, step) < src.avail
                      /\ Advance(src, n, step) \div Unit <= src.avail
    BY DEF NeverPastData
  <2> DEFINE n == Produced(src, block, step)
             c == Consumed(src, block, step)
             room == (src.avail - Taps) * Unit
  <2>1. src.avail \in Nat /\ src.frac \in 0..Unit - 1 /\ block \in Nat
    BY FifoAssumption, BlockType DEF DriftInv, TypeOK
  <2>2. Taps <= src.avail
    BY <2>1, TapsAssumption DEF Produced
  <2>3. /\ n \in Nat /\ Advance(src, n, step) = src.frac + n * step
        /\ c = Advance(src, n, step) \div Unit /\ c \in 0..src.avail - Taps
    BY <2>1, <2>2, Consumption
  <2>4. src.frac + n * step <= room
    BY <2>1, <2>2, Production
  <2>5. step \in Nat \ {0} /\ n \in Nat \ {0}
    BY <2>3, StepBounds
  <2>6. Advance(src, n - 1, step) \div Unit <= src.avail - Taps
    <3>1. Advance(src, n - 1, step) = src.frac + (n - 1) * step
      BY DEF Advance
    <3> HIDE DEF n
    <3>2. (n - 1) * step = n * step - step /\ n * step \in Int
      BY <2>5
    <3>3. room = Unit * (src.avail - Taps) /\ room \in Int
      BY <2>1, UnitAssumption, TapsAssumption
    <3> HIDE DEF room
    <3>4. Advance(src, n - 1, step) \in Int /\ Advance(src, n - 1, step) <= Unit * (src.avail - Taps)
      BY <2>1, <2>4, <2>5, <3>1, <3>2, <3>3, UnitAssumption
    <3> QED
      BY <2>1, <3>4, UnitAssumption, TapsAssumption, DivAtMost
  <2>7. Advance(src, n - 1, step) \div Unit \in Int
    <3>1. Advance(src, n - 1, step) \in Int
      BY <2>1, <2>5, UnitAssumption DEF Advance
    <3> QED
      BY <3>1, UnitAssumption, DivBounds
  <2>8. NewestTap(src, n, step)
          = Advance(src, n - 1, step) \div Unit - (Taps \div 2 - 1) + Taps - 1
    BY DEF NewestTap, Leftmost
  <2> HIDE DEF n, c, room
  <2>9. NewestTap(src, n, step) < src.avail
    BY <2>1, <2>6, <2>7, <2>8, HalfTheTaps, TapsAssumption
  <2>10. Advance(src, n, step) \div Unit <= src.avail
    BY <2>1, <2>3, TapsAssumption
  <2> QED
    BY <2>9, <2>10 DEF n
<1> QED
  BY <1>1, DriftInvariant, PTL

(* Between callbacks the FIFO holds at most its target and two frames, and *)
(* has room for all the next callback may push.                            *)
THEOREM DriftFifoBounded == Spec => []FifoBounded
<1>1. DriftInv => FifoBounded
  <2> SUFFICES ASSUME DriftInv, Tracks, cpc # "process"
               PROVE  /\ src.avail <= FifoTarget + 2
                      /\ Leftmost + src.avail + Wanted <= FifoCap
    BY DEF FifoBounded
  <2>1. /\ block \in Nat /\ block > 1 /\ src.avail \in Nat
        /\ Predicted \in Nat /\ block - 1 <= Predicted
    BY BlockType, PredictedBounds, FifoAssumption DEF DriftInv, TypeOK
  <2>2. src.avail + Predicted <= FifoTarget + block + 1
    BY DEF DriftInv, FifoNearTarget
  <2>3. src.avail <= FifoTarget + 2
    BY <2>1, <2>2, TargetAssumption
  <2>4. Wanted \in Nat /\ Wanted <= SrcBufFrames
    BY NeededBounds, RingAssumption DEF DriftInv, TypeOK
  <2> QED
    BY <2>1, <2>3, <2>4, HalfTheTaps, ReserveAssumption, TargetAssumption, FifoAssumption, TapsAssumption
<1> QED
  BY <1>1, DriftInvariant, PTL

(* A converter that produced less than a block was not fed: the ring ran   *)
(* short, not the FIFO.                                                    *)
THEOREM DriftNeverStarves == Spec => []NeverStarves
<1>1. DriftInv => NeverStarves
  BY DEF DriftInv
<1> QED
  BY <1>1, DriftInvariant, PTL

(* Unless the ring's reset fell inside a read, no callback after the       *)
(* request for a reset plays frames of the stream from before the restart. *)
THEOREM DriftNoOldFrames == Spec => NoOldFrames
<1>1. DriftInv /\ [Next]_vars =>
        [cpc = "drift" /\ npc \in {"recv", "write"} /\ ~ raced => old' = 0 \/ cpc' = cpc]_vars
  <2> SUFFICES ASSUME DriftInv, Next, cpc = "drift", npc \in {"recv", "write"}
               PROVE  old' = 0 \/ cpc' = cpc
    OBVIOUS
  <2>1. CASE Network
    BY <2>1 DEF Network, Deliver, RestartRing, RestartStop, RestartRequest, callbackState
  <2>2. CASE Callback
    <3>1. CASE CallbackNoReset
      <4>1. old \in Nat /\ ~ (old > 0)
        BY <3>1, FifoAssumption DEF CallbackNoReset, DriftInv, TypeOK, OldLeave
      <4> QED
        BY <3>1, <4>1 DEF CallbackNoReset
    <3>2. CASE CallbackReset
      BY <3>2 DEF CallbackReset, ResetSrc
    <3> QED
      BY <2>2, <3>1, <3>2
      DEF Callback, CallbackLevel, CallbackSample, CallbackSilent, CallbackPlay, CallbackClear,
          Read, CallbackRead, CallbackDry, CallbackClamp, CallbackIndex, CallbackPublish,
          CallbackProcess
  <2> QED
    BY <2>1, <2>2 DEF Next
<1> QED
  BY <1>1, DriftInvariant, PTL DEF Spec, NoOldFrames
=============================================================================

-------------------------- MODULE Scheduler_proofs --------------------------
(* geo_exec, proved for every geometry of the frame, all dividers and all     *)
(* instruction costs: its counters stay in their ranges, the processors stay  *)
(* in step, the samples of a frame are bounded, the beam is exact, and so is  *)
(* the interval timer.                                                        *)
EXTENDS Scheduler, WellFoundedInduction, TLAPS

-----------------------------------------------------------------------------
(* Arithmetic.  The products and remainders of constants are stated once, so  *)
(* that the steps of the program need only sums.                              *)

LEMMA Units ==
  /\ FrameMcycs \in Nat /\ FrameMcycs > 0
  /\ CpuStep \in Nat /\ CpuStep > 0 /\ CpuStep < DivM68k * LineCycles
  /\ Z80Step \in Nat /\ Z80Step > 0
  /\ SampleMcycs \in Nat /\ SampleMcycs > 0
<1>1. /\ LineCycles \in Nat /\ LineCycles > 0 /\ Lines \in Nat /\ Lines > 0
      /\ MaxCpuCost \in Nat /\ MaxCpuCost > 0 /\ MaxCpuCost < LineCycles
      /\ DivZ80 \in Nat /\ DivZ80 > 0 /\ DivYm \in Nat /\ DivYm > 0
      /\ MaxZ80Cost \in Nat /\ MaxZ80Cost > 0
  BY GeometryAssumption, CostAssumption
<1>2. \A a, b \in Nat : a > 0 /\ b > 0 => a * b \in Nat /\ a * b > 0
  OBVIOUS
<1>3. DivM68k * LineCycles \in Nat /\ DivM68k * LineCycles > 0
  BY <1>1 DEF DivM68k
<1>4. FrameMcycs \in Nat /\ FrameMcycs > 0
  BY <1>1, <1>2, <1>3 DEF FrameMcycs
<1>5. CpuStep \in Nat /\ CpuStep > 0 /\ CpuStep < DivM68k * LineCycles
  BY <1>1 DEF CpuStep, DivM68k
<1>6. Z80Step \in Nat /\ Z80Step > 0 /\ SampleMcycs \in Nat /\ SampleMcycs > 0
  BY <1>1, <1>2 DEF Z80Step, SampleMcycs
<1> QED
  BY <1>4, <1>5, <1>6

(* The end of a frame takes one frame off a counter that is beyond it.        *)
LEMMA OneFrameOff ==
  ASSUME NEW F \in Nat, F > 0, NEW t \in Nat, t < 2 * F
  PROVE  t % F = IF t < F THEN t ELSE t - F
  OBVIOUS

(* An instruction takes some time, and no more than the longest one. *)
LEMMA CpuTimeBounds ==
  ASSUME NEW c \in CpuCosts, oc \in {0, 1}
  PROVE  /\ c \in Nat /\ c > 0 /\ c < LineCycles
         /\ CpuTime(c) \in Nat /\ CpuTime(c) > 0 /\ CpuTime(c) <= CpuStep
<1>1. c \in Nat /\ c > 0 /\ c <= MaxCpuCost /\ MaxCpuCost \in Nat
  BY CostAssumption, GeometryAssumption
<1> QED
  BY <1>1, CostAssumption, GeometryAssumption
     DEF CpuTime, Halved, CpuStep, DivM68k

LEMMA Z80TimeBounds ==
  ASSUME NEW s \in Z80Costs
  PROVE  /\ s \in Nat /\ s > 0 /\ s <= DivYm
         /\ s * DivZ80 \in Nat /\ s * DivZ80 > 0 /\ s * DivZ80 <= Z80Step
<1>1. /\ s \in Nat /\ s > 0 /\ s <= MaxZ80Cost /\ MaxZ80Cost \in Nat
      /\ DivZ80 \in Nat /\ DivZ80 > 0 /\ MaxZ80Cost <= DivYm /\ DivYm \in Nat
  BY CostAssumption
<1>2. s * DivZ80 \in Nat /\ s * DivZ80 > 0
  BY <1>1
<1>3. s * DivZ80 <= MaxZ80Cost * DivZ80
  BY <1>1
<1> QED
  BY <1>1, <1>2, <1>3 DEF Z80Step
-----------------------------------------------------------------------------
(* The beam. *)

BeamType == [line : 0 .. Lines - 1, cyc : 0 .. LineCycles - 1,
             vbl : BOOLEAN, latch : BOOLEAN]

LEMMA LineIncrement ==
  ASSUME NEW l \in 0 .. Lines - 1
  PROVE  (l + 1) % Lines = IF l = Lines - 1 THEN 0 ELSE l + 1
<1>1. Lines \in Nat /\ Lines > 0
  BY GeometryAssumption
<1> QED
  BY <1>1

LEMMA LineDecrement ==
  ASSUME NEW l \in 0 .. Lines - 1
  PROVE  (l - 1) % Lines = IF l = 0 THEN Lines - 1 ELSE l - 1
<1>1. Lines \in Nat /\ Lines > 0
  BY GeometryAssumption
<1> QED
  BY <1>1

(* The line whose cycles are counted, and the position in the frame.          *)
TrueLine(l, c) == IF c > NextCycle THEN (l - 1) % Lines ELSE l
Pos(l, c) == TrueLine(l, c) * LineCycles + c
FrameCycles == LineCycles * Lines

LEMMA PosType ==
  ASSUME NEW l \in 0 .. Lines - 1, NEW c \in 0 .. LineCycles - 1
  PROVE  /\ TrueLine(l, c) \in 0 .. Lines - 1
         /\ FrameCycles \in Nat /\ FrameCycles > 0
         /\ TrueLine(l, c) * LineCycles \in Nat
         /\ TrueLine(l, c) * LineCycles + LineCycles <= FrameCycles
         /\ Pos(l, c) \in 0 .. FrameCycles - 1
<1>1. LineCycles \in Nat /\ Lines \in Nat /\ LineCycles > 0 /\ Lines > 0
      /\ NextCycle \in 0 .. LineCycles - 1
  BY GeometryAssumption
<1>2. TrueLine(l, c) \in 0 .. Lines - 1
  BY <1>1, LineDecrement DEF TrueLine
<1>3. \A t \in 0 .. Lines - 1 :
        /\ t * LineCycles \in Nat
        /\ t * LineCycles + LineCycles <= LineCycles * Lines
  <2>1. TAKE t \in 0 .. Lines - 1
  <2>2. t * LineCycles + LineCycles = (t + 1) * LineCycles
    BY <1>1
  <2>3. (t + 1) * LineCycles <= Lines * LineCycles
    BY <1>1
  <2> QED
    BY <1>1, <2>2, <2>3
<1>4. FrameCycles \in Nat /\ FrameCycles > 0
  BY <1>1 DEF FrameCycles
<1>5. /\ TrueLine(l, c) * LineCycles \in Nat
      /\ TrueLine(l, c) * LineCycles + LineCycles <= FrameCycles
  BY <1>2, <1>3 DEF FrameCycles
<1>6. Pos(l, c) \in 0 .. FrameCycles - 1
  BY <1>1, <1>4, <1>5 DEF Pos
<1> QED
  BY <1>2, <1>4, <1>5, <1>6

(* Where the vertical blank is in the frame. *)
VblPos == (BorderBottom + 1) * LineCycles + VblCycle

(* A position determines its line. *)
LEMMA SameLine ==
  ASSUME NEW t \in 0 .. Lines - 1, NEW u \in 0 .. Lines - 1,
         NEW x \in 0 .. LineCycles - 1, NEW p \in Nat,
         t * LineCycles <= p, p < t * LineCycles + LineCycles,
         p = u * LineCycles + x
  PROVE  t = u
<1>1. LineCycles \in Nat /\ LineCycles > 0 /\ Lines \in Nat
  BY GeometryAssumption
<1>2. \A a, b \in Nat : a < b => a * LineCycles + LineCycles <= b * LineCycles
  <2>1. TAKE a, b \in Nat
  <2>2. a * LineCycles + LineCycles = (a + 1) * LineCycles
    BY <1>1
  <2>3. ASSUME a < b
        PROVE  (a + 1) * LineCycles <= b * LineCycles
    BY <1>1, <2>3
  <2> QED
    BY <2>2, <2>3
<1>3. t \in Nat /\ u \in Nat /\ t * LineCycles \in Nat /\ u * LineCycles \in Nat
  BY <1>1
<1>4. ~(t < u)
  BY <1>1, <1>2, <1>3
<1>5. ~(u < t)
  BY <1>1, <1>2, <1>3
<1> QED
  BY <1>3, <1>4, <1>5

LEMMA VblInFrame ==
  /\ VblPos \in Nat /\ VblPos >= LineCycles /\ VblPos < FrameCycles
  /\ BorderBottom + 1 \in 0 .. Lines - 1
<1>1. /\ LineCycles \in Nat /\ LineCycles > 0 /\ Lines \in Nat
      /\ BorderBottom \in Nat /\ BorderBottom + 1 <= Lines - 1
      /\ VblCycle \in Nat /\ VblCycle < LineCycles
  BY GeometryAssumption
<1>2. (BorderBottom + 1) * LineCycles >= LineCycles
  BY <1>1
<1>3. (BorderBottom + 2) * LineCycles <= Lines * LineCycles
  BY <1>1
<1>4. (BorderBottom + 2) * LineCycles = (BorderBottom + 1) * LineCycles + LineCycles
  BY <1>1
<1>5. (BorderBottom + 1) * LineCycles \in Nat /\ FrameCycles = Lines * LineCycles
  BY <1>1 DEF FrameCycles
<1>6. FrameCycles \in Nat
  BY <1>1 DEF FrameCycles
<1> QED
  BY <1>1, <1>2, <1>3, <1>4, <1>5, <1>6 DEF VblPos

(* Within a line the beam moves as many cycles as it is run, the line counter *)
(* following when NextCycle is crossed, and it delivers the vertical blank    *)
(* when it passes its place.                                                  *)
LEMMA SegmentMoves ==
  ASSUME NEW b \in BeamType, NEW n \in Nat, b.cyc + n <= LineCycles,
         NEW p, p = Pos(b.line, b.cyc), NEW s, s = Segment(b, n)
  PROVE  /\ s \in BeamType
         /\ p + n <= FrameCycles
         /\ Pos(s.line, s.cyc) = IF p + n < FrameCycles THEN p + n ELSE 0
         /\ s.vbl <=> b.vbl \/ (p <= VblPos /\ VblPos < p + n)
<1> DEFINE t == TrueLine(b.line, b.cyc)
           end == b.cyc + n
<1>1. /\ LineCycles \in Nat /\ LineCycles > 0 /\ Lines \in Nat /\ Lines > 0
      /\ NextCycle \in 0 .. LineCycles - 1 /\ VblCycle \in 0 .. LineCycles - 1
      /\ ScanCycle \in 0 .. LineCycles - 1
      /\ VblCycle < NextCycle /\ BorderBottom \in Nat
  BY GeometryAssumption
<1>2. b.line \in 0 .. Lines - 1 /\ b.cyc \in 0 .. LineCycles - 1
      /\ b.vbl \in BOOLEAN /\ b.latch \in BOOLEAN
  BY DEF BeamType
<1>3. /\ t \in 0 .. Lines - 1 /\ t * LineCycles \in Nat
      /\ t * LineCycles + LineCycles <= FrameCycles /\ FrameCycles \in Nat
      /\ p = t * LineCycles + b.cyc
  BY <1>2, PosType DEF Pos
<1>4. /\ s.line = IF b.cyc <= NextCycle /\ NextCycle < end
                  THEN (b.line + 1) % Lines ELSE b.line
      /\ s.cyc = end % LineCycles
      /\ s.vbl = (b.vbl \/ (b.cyc <= VblCycle /\ VblCycle < end
                              /\ b.line = BorderBottom + 1))
      /\ s.latch = (b.latch \/ (b.cyc <= ScanCycle /\ ScanCycle < end
                                  /\ b.line = BorderBottom))
      /\ s = [line |-> s.line, cyc |-> s.cyc, vbl |-> s.vbl, latch |-> s.latch]
  BY DEF Segment, Crosses
<1>5. end % LineCycles = IF end = LineCycles THEN 0 ELSE end
  BY <1>1, <1>2
<1>6. s.line \in 0 .. Lines - 1 /\ s.cyc \in 0 .. LineCycles - 1
  BY <1>1, <1>2, <1>4, <1>5, LineIncrement
<1>7. s \in BeamType
  BY <1>2, <1>4, <1>6 DEF BeamType
<1>8. p + n <= FrameCycles
  BY <1>1, <1>2, <1>3
<1>9. Pos(s.line, s.cyc) = IF p + n < FrameCycles THEN p + n ELSE 0
  <2>1. CASE end < LineCycles
    <3>1. TrueLine(s.line, s.cyc) = t
      <4>1. CASE b.cyc <= NextCycle /\ NextCycle < end
        <5>1. s.line = (b.line + 1) % Lines /\ s.cyc = end /\ t = b.line
          BY <1>1, <1>2, <1>4, <1>5, <2>1, <4>1 DEF TrueLine
        <5>2. (s.line - 1) % Lines = b.line
          BY <1>1, <1>2, <1>6, <5>1, LineIncrement, LineDecrement
        <5> QED
          BY <4>1, <5>1, <5>2 DEF TrueLine
      <4>2. CASE ~(b.cyc <= NextCycle /\ NextCycle < end)
        BY <1>1, <1>2, <1>4, <1>5, <2>1, <4>2 DEF TrueLine
      <4> QED
        BY <4>1, <4>2
    <3>2. s.cyc = end
      BY <1>1, <1>2, <1>4, <1>5, <2>1
    <3>3. p + n < FrameCycles
      BY <1>1, <1>2, <1>3, <2>1
    <3> HIDE DEF t
    <3> QED
      BY <1>2, <1>3, <3>1, <3>2, <3>3 DEF Pos
  <2>2. CASE end = LineCycles
    <3>1. s.cyc = 0 /\ p + n = t * LineCycles + LineCycles
      BY <1>1, <1>2, <1>3, <1>4, <1>5, <2>2
    <3>2. s.line = (t + 1) % Lines
      <4>1. CASE b.cyc <= NextCycle
        <5>1. s.line = (b.line + 1) % Lines
          BY <1>1, <1>2, <1>4, <2>2, <4>1
        <5>2. t = b.line
          BY <1>1, <1>2, <4>1 DEF TrueLine
        <5> QED
          BY <5>1, <5>2
      <4>2. CASE b.cyc > NextCycle
        <5>1. s.line = b.line /\ t = (b.line - 1) % Lines
          BY <1>1, <1>2, <1>4, <4>2 DEF TrueLine
        <5>2. t = IF b.line = 0 THEN Lines - 1 ELSE b.line - 1
          BY <1>2, <5>1, LineDecrement
        <5>3. (t + 1) % Lines = IF t = Lines - 1 THEN 0 ELSE t + 1
          BY <1>3, LineIncrement
        <5> HIDE DEF t
        <5> QED
          BY <1>1, <1>2, <5>1, <5>2, <5>3
      <4> QED
        BY <1>1, <1>2, <4>1, <4>2
    <3>3. TrueLine(s.line, s.cyc) = s.line
      BY <1>1, <3>1 DEF TrueLine
    <3>4. s.line = IF t = Lines - 1 THEN 0 ELSE t + 1
      BY <1>3, <3>2, LineIncrement
    <3>5. CASE t = Lines - 1
      <4>1. t * LineCycles + LineCycles = FrameCycles
        <5> HIDE DEF t
        <5> QED
          BY <1>1, <3>5 DEF FrameCycles
      <4> QED
        BY <1>1, <1>3, <3>1, <3>3, <3>4, <3>5, <4>1 DEF Pos
    <3>6. CASE t # Lines - 1
      <4> HIDE DEF t
      <4>1. (t + 1) * LineCycles = t * LineCycles + LineCycles
        BY <1>1, <1>3
      <4>2. (t + 2) * LineCycles <= Lines * LineCycles
        BY <1>1, <1>3, <3>6
      <4>3. (t + 2) * LineCycles = t * LineCycles + LineCycles + LineCycles
        BY <1>1, <1>3
      <4>4. p + n < FrameCycles
        BY <1>1, <1>3, <3>1, <4>2, <4>3 DEF FrameCycles
      <4> QED
        BY <3>1, <3>3, <3>4, <3>6, <4>1, <4>4, <1>3, <1>1 DEF Pos
    <3> QED
      BY <3>5, <3>6
  <2> QED
    BY <1>1, <1>2, <2>1, <2>2
<1>10. s.vbl <=> b.vbl \/ (p <= VblPos /\ VblPos < p + n)
  <2>1. ASSUME b.cyc <= VblCycle, VblCycle < end, b.line = BorderBottom + 1
        PROVE  p <= VblPos /\ VblPos < p + n
    <3>1. t = BorderBottom + 1
      BY <1>1, <1>2, <2>1 DEF TrueLine
    <3> HIDE DEF t
    <3> QED
      BY <1>1, <1>2, <1>3, <2>1, <3>1 DEF VblPos
  <2>2. ASSUME p <= VblPos, VblPos < p + n
        PROVE  /\ b.cyc <= VblCycle /\ VblCycle < end
               /\ b.line = BorderBottom + 1
    <3>0. t * LineCycles <= VblPos /\ VblPos < t * LineCycles + LineCycles
      BY <1>1, <1>2, <1>3, <2>2, VblInFrame
    <3>1. t = BorderBottom + 1
      <4> HIDE DEF t
      <4> QED
        BY <1>1, <1>3, <3>0, VblInFrame, SameLine DEF VblPos
    <3>2. b.cyc <= VblCycle /\ VblCycle < end
      <4>1. t * LineCycles = (BorderBottom + 1) * LineCycles
        BY <3>1
      <4>2. VblPos = t * LineCycles + VblCycle
        BY <4>1 DEF VblPos
      <4> HIDE DEF t
      <4> QED
        BY <1>1, <1>2, <1>3, <2>2, <4>2
    <3>3. b.line = BorderBottom + 1
      BY <1>1, <1>2, <3>1, <3>2 DEF TrueLine
    <3> QED
      BY <3>2, <3>3
  <2> QED
    BY <1>4, <2>1, <2>2
<1> QED
  BY <1>7, <1>8, <1>9, <1>10

(* An instruction moves the beam as many cycles, around the frame, whether or *)
(* not it crosses a line's end.                                               *)
LEMMA LspcRunMoves ==
  ASSUME NEW b \in BeamType, NEW n \in 0 .. LineCycles - 1,
         NEW p, p = Pos(b.line, b.cyc), NEW r, r = LspcRun(b, n)
  PROVE  /\ r \in BeamType
         /\ Pos(r.line, r.cyc) = IF p + n < FrameCycles THEN p + n
                                 ELSE p + n - FrameCycles
         /\ r.vbl <=> b.vbl \/ (p <= VblPos /\ VblPos < p + n)
<1> DEFINE left == LineCycles - b.cyc
           m == Segment(b, left)
           q == Pos(m.line, m.cyc)
<1>1. /\ LineCycles \in Nat /\ LineCycles > 0
      /\ b.cyc \in 0 .. LineCycles - 1 /\ b.line \in 0 .. Lines - 1
      /\ left \in Nat /\ n \in Nat /\ n < LineCycles
      /\ b.cyc + left = LineCycles
  BY GeometryAssumption DEF BeamType
<1>2. p \in 0 .. FrameCycles - 1 /\ FrameCycles \in Nat
  BY <1>1, PosType
<1>3. CASE n <= left
  <2>1. r = Segment(b, n) /\ b.cyc + n <= LineCycles
    BY <1>1, <1>3 DEF LspcRun
  <2>2. /\ r \in BeamType /\ p + n <= FrameCycles
        /\ Pos(r.line, r.cyc) = IF p + n < FrameCycles THEN p + n ELSE 0
        /\ r.vbl <=> b.vbl \/ (p <= VblPos /\ VblPos < p + n)
    BY <1>1, <2>1, SegmentMoves
  <2> QED
    BY <1>1, <1>2, <2>2
<1>4. CASE n > left
  <2>1. r = Segment(m, n - left)
    BY <1>1, <1>4 DEF LspcRun
  <2>2. /\ m \in BeamType /\ p + left <= FrameCycles
        /\ q = IF p + left < FrameCycles THEN p + left ELSE 0
        /\ m.vbl <=> b.vbl \/ (p <= VblPos /\ VblPos < p + left)
    BY <1>1, SegmentMoves
  <2>3. m.cyc = 0
    BY <1>1 DEF Segment
  <2>4. n - left \in Nat /\ m.cyc + (n - left) <= LineCycles
    BY <1>1, <1>4, <2>3
  <2>5. /\ r \in BeamType /\ q + (n - left) <= FrameCycles
        /\ Pos(r.line, r.cyc) = IF q + (n - left) < FrameCycles
                                THEN q + (n - left) ELSE 0
        /\ r.vbl <=> m.vbl \/ (q <= VblPos /\ VblPos < q + (n - left))
    <3> HIDE DEF m, left
    <3> QED
      BY <2>1, <2>2, <2>4, SegmentMoves DEF q
  <2>6. VblPos \in Nat /\ VblPos >= LineCycles /\ VblPos < FrameCycles
    BY VblInFrame
  <2>7. q + (n - left) < FrameCycles
    <3>1. CASE q = 0
      BY <1>1, <1>2, <1>4, <2>6, <3>1
    <3>2. CASE q # 0
      <4>1. m.line \in 0 .. Lines - 1 /\ q = m.line * LineCycles
        <5>1. m.line \in 0 .. Lines - 1
          BY <2>2 DEF BeamType
        <5> HIDE DEF m
        <5>2. TrueLine(m.line, m.cyc) = m.line
          BY <2>3, GeometryAssumption DEF TrueLine
        <5>3. m.line * LineCycles \in Nat
          BY <1>1, <5>1, GeometryAssumption
        <5> QED
          BY <2>3, <5>1, <5>2, <5>3 DEF Pos
      <4>2. q + LineCycles <= FrameCycles
        <5> HIDE DEF m
        <5>1. TrueLine(m.line, 0) = m.line
          BY GeometryAssumption DEF TrueLine
        <5>2. m.line * LineCycles + LineCycles <= FrameCycles
          BY <1>1, <4>1, <5>1, PosType
        <5> QED
          BY <4>1, <5>2
      <4> HIDE DEF q, left
      <4>3. q \in Nat
        BY <1>1, <1>2, <2>2
      <4> QED
        BY <1>1, <1>2, <1>4, <4>2, <4>3
    <3> QED
      BY <3>1, <3>2
  <2> HIDE DEF q, m, left
  <2>8. CASE p + left < FrameCycles
    BY <1>1, <1>2, <1>4, <2>2, <2>5, <2>6, <2>7, <2>8
  <2>9. CASE p + left = FrameCycles
    <3>1. q = 0 /\ p + n - FrameCycles = n - left /\ p + n >= FrameCycles
      <4>1. q = 0
        BY <1>1, <1>2, <2>2, <2>9
      <4>2. p \in Nat /\ p + n = FrameCycles + (n - left)
        BY <1>1, <1>2, <2>9
      <4> QED
        BY <1>1, <1>2, <1>4, <4>1, <4>2
    <3>2. ~(VblPos < n - left)
      BY <1>1, <1>4, <2>6
    <3> QED
      BY <1>1, <1>2, <1>4, <2>2, <2>5, <2>6, <2>7, <2>9, <3>1, <3>2
  <2> QED
    BY <1>1, <1>2, <2>2, <2>8, <2>9
<1> QED
  BY <1>1, <1>3, <1>4
-----------------------------------------------------------------------------
(* The inductive invariant.  To the properties it adds what the samples of a  *)
(* frame have to do with its time: the divider gives one for every            *)
(* SampleMcycs master cycles, and has kept less than one from the frame       *)
(* before.                                                                    *)
SamplesPaid ==
  SampleMcycs * ymsamps + DivZ80 * ymcycs <= zcycs + (SampleMcycs - DivZ80)

IInv == TypeOK /\ InStep /\ SamplesPaid /\ BeamInStep /\ OneVblPerFrame

LEMMA LineBehind ==
  ASSUME NEW l \in 0 .. Lines - 1, NEW c \in 0 .. LineCycles - 1
  PROVE  (l - (IF c > NextCycle THEN 1 ELSE 0)) % Lines = TrueLine(l, c)
<1>1. Lines \in Nat /\ Lines > 0 /\ NextCycle \in Nat
  BY GeometryAssumption
<1>2. CASE c > NextCycle
  BY <1>2 DEF TrueLine
<1>3. CASE ~(c > NextCycle)
  BY <1>1, <1>3 DEF TrueLine
<1> QED
  BY <1>2, <1>3

LEMMA BeamPosIsPos ==
  ASSUME line \in 0 .. Lines - 1, cyc \in 0 .. LineCycles - 1
  PROVE  BeamPos = Pos(line, cyc)
BY LineBehind DEF BeamPos, Pos

LEMMA FrameUnits == FrameMcycs = 2 * FrameCycles /\ FrameCycles \in Nat
<1>1. LineCycles \in Nat /\ Lines \in Nat
  BY GeometryAssumption
<1>2. FrameCycles \in Nat
  BY <1>1 DEF FrameCycles
<1>3. (2 * LineCycles) * Lines = 2 * (LineCycles * Lines)
  BY <1>1
<1> QED
  BY <1>2, <1>3 DEF FrameMcycs, FrameCycles, DivM68k

LEMMA InitInv == Init => IInv
<1> SUFFICES ASSUME Init PROVE IInv
  OBVIOUS
<1> USE DEF Init
<1>1. TypeOK
  BY Units, GeometryAssumption, CostAssumption, WatchdogAssumption DEF TypeOK
<1>2. InStep
  BY Units DEF InStep
<1>3. SamplesPaid
  <2>1. DivZ80 \in Nat /\ DivYm \in Nat \ {0}
    BY CostAssumption
  <2>2. DivZ80 * DivYm >= DivZ80
    BY <2>1
  <2> QED
    BY <2>1, <2>2, Units DEF SamplesPaid, SampleMcycs
<1>4. BeamPos = 0
  <2>1. Pos(0, 0) = 0
    BY GeometryAssumption DEF Pos, TrueLine
  <2> QED
    BY <1>1, <2>1, BeamPosIsPos DEF TypeOK
<1>5. BeamInStep
  BY <1>4, Units, OneFrameOff DEF BeamInStep, DivM68k
<1>6. OneVblPerFrame
  BY VblInFrame DEF OneVblPerFrame, VblPos, DivM68k
<1> QED
  BY <1>1, <1>2, <1>3, <1>5, <1>6 DEF IInv

(* An instruction of the 68K, biting watchdog included. *)
LEMMA M68kRunInv ==
  ASSUME IInv, NEW c \in CpuCosts, NEW w \in program \cup {NoWrite},
         M68kRun(c, w)
  PROVE  IInv'
<1> DEFINE b == IF Bites(w, c) THEN Beam(0, 0) ELSE Beam(line, cyc)
           r == LspcRun(b, Halved(c))
           p == Pos(b.line, b.cyc)
           n == Halved(c)
<1>1. TypeOK /\ InStep /\ SamplesPaid /\ BeamInStep /\ OneVblPerFrame
  BY DEF IInv
<1>2. /\ c \in Nat /\ c > 0 /\ c < LineCycles
      /\ CpuTime(c) \in Nat /\ CpuTime(c) > 0 /\ CpuTime(c) <= CpuStep
  BY <1>1, CpuTimeBounds DEF TypeOK
<1>3. /\ mcycs' = mcycs + CpuTime(c) /\ ~(zcycs < mcycs) /\ mcycs < FrameMcycs
      /\ UNCHANGED <<zcycs, ymcycs, ymsamps, oc, program>>
  BY DEF M68kRun, Behind, settings
<1>4. /\ line' = r.line /\ cyc' = r.cyc
      /\ vbls' = vbls + (IF r.vbl THEN 1 ELSE 0)
      /\ aligned' = (aligned /\ ~Bites(w, c))
  BY DEF M68kRun
<1>5. n \in 0 .. LineCycles - 1
  BY <1>1, <1>2, GeometryAssumption DEF TypeOK, Halved
<1>6. b \in BeamType
  BY <1>1, GeometryAssumption DEF TypeOK, BeamType, Beam
<1>7. /\ r \in BeamType
      /\ Pos(r.line, r.cyc) = IF p + n < FrameCycles THEN p + n
                              ELSE p + n - FrameCycles
      /\ r.vbl <=> b.vbl \/ (p <= VblPos /\ VblPos < p + n)
  BY <1>5, <1>6, LspcRunMoves
<1>8. TypeOK'
  <2>1. mcycs' \in 0 .. FrameMcycs + CpuStep - 1 /\ (zcycs \in Nat)'
    BY <1>1, <1>2, <1>3, Units DEF TypeOK
  <2>2. line' \in 0 .. Lines - 1 /\ cyc' \in 0 .. LineCycles - 1
    BY <1>4, <1>7 DEF BeamType
  <2>3. WatchdogOn(w) \in BOOLEAN /\ WatchdogLeft(w) \in 0 .. WatchdogCycs - 1
    BY <1>1, WatchdogAssumption DEF TypeOK, WatchdogOn, WatchdogLeft
  <2>4. watchdog' \in 0 .. WatchdogCycs - 1 /\ watchdogOn' \in BOOLEAN
    <3>1. /\ watchdog' = IF Bites(w, c) THEN 0 ELSE WatchdogSum(w, c)
          /\ watchdogOn' = WatchdogOn(w)
      BY DEF M68kRun
    <3> QED
      BY <1>2, <2>3, <3>1, WatchdogAssumption DEF Bites, WatchdogSum, DivM68k
  <2>5. last' \in {"none", "kick", "guard", "unguard", "reset"}
    BY DEF M68kRun
  <2>6. aligned' \in BOOLEAN /\ vbls' \in Nat
    BY <1>1, <1>4 DEF TypeOK
  <2> QED
    BY <1>1, <1>3, <2>1, <2>2, <2>4, <2>5, <2>6 DEF TypeOK
<1>9. InStep'
  BY <1>1, <1>2, <1>3, Units DEF TypeOK, InStep
<1>10. SamplesPaid'
  BY <1>1, <1>3 DEF SamplesPaid
<1>11. ASSUME oc = 0, ~Bites(w, c), aligned
       PROVE  /\ 2 * p = mcycs /\ CpuTime(c) = 2 * n
              /\ b.vbl = FALSE /\ p \in Nat
              /\ BeamPos' = Pos(r.line, r.cyc)
  <2>1. b = Beam(line, cyc) /\ b.line = line /\ b.cyc = cyc /\ b.vbl = FALSE
    BY <1>11 DEF Beam
  <2>2. p = BeamPos /\ p \in Nat
    BY <1>1, <2>1, BeamPosIsPos, PosType DEF TypeOK
  <2>3. mcycs % FrameMcycs = mcycs
    BY <1>1, <1>3, Units, OneFrameOff DEF TypeOK
  <2>4. 2 * BeamPos = mcycs
    BY <1>1, <1>11, <2>3 DEF BeamInStep, DivM68k
  <2>5. CpuTime(c) = 2 * n
    BY <1>2, <1>11 DEF CpuTime, Halved, DivM68k
  <2>6. BeamPos' = Pos(r.line, r.cyc)
    <3>1. line' \in 0 .. Lines - 1 /\ cyc' \in 0 .. LineCycles - 1
      BY <1>8 DEF TypeOK
    <3>2. BeamPos' = Pos(line', cyc')
      BY <3>1, LineBehind DEF BeamPos, Pos
    <3> QED
      BY <1>4, <3>2
  <2> QED
    BY <2>1, <2>2, <2>4, <2>5, <2>6
<1> HIDE DEF b, r, p, n
<1>12. n \in Nat /\ mcycs \in Nat /\ FrameMcycs = 2 * FrameCycles
       /\ FrameCycles \in Nat /\ CpuStep \in Nat /\ CpuStep <= FrameMcycs
  BY <1>1, <1>5, FrameUnits, Units, CostAssumption, GeometryAssumption
     DEF TypeOK
<1>13. BeamInStep'
  <2> SUFFICES ASSUME oc = 0, aligned, ~Bites(w, c)
               PROVE  2 * BeamPos' = mcycs' % FrameMcycs
    BY <1>3, <1>4 DEF BeamInStep, DivM68k, FrameMcycs
  <2>1. mcycs' = mcycs + 2 * n /\ mcycs' \in Nat /\ mcycs' < 2 * FrameMcycs
    BY <1>2, <1>3, <1>11, <1>12
  <2>2. mcycs' % FrameMcycs = IF mcycs' < FrameMcycs THEN mcycs'
                              ELSE mcycs' - FrameMcycs
    BY <2>1, Units, OneFrameOff
  <2> QED
    BY <1>7, <1>11, <1>12, <2>1, <2>2
<1>14. OneVblPerFrame'
  <2> SUFFICES ASSUME oc = 0, aligned, ~Bites(w, c)
               PROVE  vbls' = IF mcycs' > 2 * VblPos THEN 1 ELSE 0
    BY <1>3, <1>4 DEF OneVblPerFrame, DivM68k, VblPos
  <2>1. mcycs' = mcycs + 2 * n /\ 2 * p = mcycs /\ p \in Nat
    BY <1>3, <1>11
  <2>2. vbls = IF mcycs > 2 * VblPos THEN 1 ELSE 0
    BY <1>1 DEF OneVblPerFrame, DivM68k, VblPos
  <2>3. r.vbl <=> mcycs <= 2 * VblPos /\ 2 * VblPos < mcycs'
    <3>1. r.vbl <=> p <= VblPos /\ VblPos < p + n
      BY <1>7, <1>11
    <3>2. /\ p <= VblPos <=> mcycs <= 2 * VblPos
          /\ VblPos < p + n <=> 2 * VblPos < mcycs'
      BY <1>12, <2>1, VblInFrame
    <3> QED
      BY <3>1, <3>2
  <2> QED
    BY <1>4, <1>12, <2>1, <2>2, <2>3, VblInFrame
<1> QED
  BY <1>8, <1>9, <1>10, <1>13, <1>14 DEF IInv

LEMMA Z80RunInv ==
  ASSUME IInv, NEW s \in Z80Costs, Z80Run(s)
  PROVE  IInv'
<1>1. TypeOK /\ InStep /\ SamplesPaid /\ BeamInStep /\ OneVblPerFrame
  BY DEF IInv
<1>2. /\ s \in Nat /\ s > 0 /\ s <= DivYm
      /\ s * DivZ80 \in Nat /\ s * DivZ80 > 0 /\ s * DivZ80 <= Z80Step
  BY Z80TimeBounds
<1>3. /\ zcycs < mcycs /\ zcycs' = zcycs + s * DivZ80
      /\ ymcycs' = Sample(s)[1] /\ ymsamps' = ymsamps + Sample(s)[2]
      /\ UNCHANGED <<mcycs, line, cyc, watchdog, watchdogOn, oc, program, last,
                     aligned, vbls>>
  BY DEF Z80Run, Behind, beam, settings
<1>4. DivYm \in Nat /\ DivYm > 0 /\ DivZ80 \in Nat /\ ymcycs \in 0 .. DivYm - 1
      /\ ymsamps \in Nat /\ zcycs \in Nat
  BY <1>1, CostAssumption, Units DEF TypeOK
<1>5. \/ ymcycs + s >= DivYm /\ ymcycs' = ymcycs + s - DivYm
         /\ ymsamps' = ymsamps + 1
      \/ ymcycs + s < DivYm /\ ymcycs' = ymcycs + s /\ ymsamps' = ymsamps
  BY <1>2, <1>3, <1>4 DEF Sample
<1>6. TypeOK'
  <2>1. zcycs' \in 0 .. FrameMcycs + CpuStep + Z80Step - 1
    BY <1>1, <1>2, <1>3, Units DEF TypeOK
  <2>2. ymcycs' \in 0 .. DivYm - 1 /\ ymsamps' \in Nat
    BY <1>2, <1>4, <1>5
  <2> QED
    BY <1>1, <1>3, <2>1, <2>2 DEF TypeOK
<1>7. InStep'
  BY <1>1, <1>2, <1>3, Units DEF TypeOK, InStep
<1>8. SamplesPaid'
  <2>1. SampleMcycs \in Nat /\ SampleMcycs = DivZ80 * DivYm
    BY Units DEF SampleMcycs
  <2>2. SampleMcycs * ymsamps \in Nat /\ DivZ80 * ymcycs \in Nat
    BY <1>4, <2>1
  <2>3. CASE ymcycs + s < DivYm
    <3>1. DivZ80 * ymcycs' = DivZ80 * ymcycs + s * DivZ80 /\ ymsamps' = ymsamps
      BY <1>2, <1>4, <1>5, <2>3
    <3> QED
      BY <1>1, <1>2, <1>3, <1>4, <2>1, <2>2, <3>1 DEF SamplesPaid
  <2>4. CASE ymcycs + s >= DivYm
    <3>1. ymcycs' = ymcycs + s - DivYm /\ ymsamps' = ymsamps + 1
      BY <1>2, <1>4, <1>5, <2>4
    <3>2. DivZ80 * ymcycs' = DivZ80 * ymcycs + s * DivZ80 - SampleMcycs
      BY <1>2, <1>4, <2>1, <3>1
    <3>3. SampleMcycs * ymsamps' = SampleMcycs * ymsamps + SampleMcycs
      BY <1>4, <2>1, <3>1
    <3> QED
      BY <1>1, <1>2, <1>3, <1>4, <2>1, <2>2, <3>2, <3>3 DEF SamplesPaid
  <2> QED
    BY <1>2, <1>4, <2>3, <2>4
<1>9. BeamInStep' /\ OneVblPerFrame'
  BY <1>1, <1>3 DEF BeamInStep, BeamPos, OneVblPerFrame
<1> QED
  BY <1>6, <1>7, <1>8, <1>9 DEF IInv

LEMMA FrameEndInv ==
  ASSUME IInv, FrameEnd
  PROVE  IInv'
<1>1. TypeOK /\ InStep /\ SamplesPaid /\ BeamInStep /\ OneVblPerFrame
  BY DEF IInv
<1>2. /\ ~(zcycs < mcycs) /\ mcycs >= FrameMcycs
      /\ mcycs' = mcycs % FrameMcycs /\ zcycs' = zcycs % FrameMcycs
      /\ ymsamps' = 0 /\ vbls' = 0
      /\ UNCHANGED <<ymcycs, line, cyc, watchdog, watchdogOn, oc, program, last,
                     aligned>>
  BY DEF FrameEnd, Behind, Wrapped, beam, settings
<1>3. /\ FrameMcycs \in Nat /\ FrameMcycs > 0 /\ CpuStep \in Nat
      /\ Z80Step \in Nat /\ CpuStep + Z80Step <= FrameMcycs
      /\ mcycs \in 0 .. FrameMcycs + CpuStep - 1
      /\ zcycs \in 0 .. FrameMcycs + CpuStep + Z80Step - 1
  BY <1>1, Units, CostAssumption DEF TypeOK
<1>4. mcycs' = mcycs - FrameMcycs /\ zcycs' = zcycs - FrameMcycs
  BY <1>2, <1>3, OneFrameOff
<1>5. TypeOK'
  BY <1>1, <1>2, <1>3, <1>4 DEF TypeOK
<1>6. InStep'
  BY <1>1, <1>3, <1>4 DEF InStep
<1>7. SamplesPaid'
  <2>1. DivYm \in Nat /\ DivYm > 0 /\ DivZ80 \in Nat /\ ymcycs \in 0 .. DivYm - 1
    BY <1>1, CostAssumption DEF TypeOK
  <2>2. DivZ80 * ymcycs <= DivZ80 * (DivYm - 1)
    BY <2>1
  <2>3. DivZ80 * (DivYm - 1) = SampleMcycs - DivZ80
    BY <2>1 DEF SampleMcycs
  <2>4. SampleMcycs * ymsamps' = 0
    BY <1>2, Units
  <2>5. zcycs' \in Nat /\ DivZ80 * ymcycs \in Nat
    BY <1>2, <1>3, <1>4, <2>1
  <2> QED
    BY <1>2, <2>1, <2>2, <2>3, <2>4, <2>5, Units DEF SamplesPaid
<1>8. BeamInStep'
  <2>1. mcycs' % FrameMcycs = mcycs % FrameMcycs
    BY <1>2, <1>3
  <2> QED
    BY <1>1, <1>2, <2>1 DEF BeamInStep, BeamPos
<1>9. OneVblPerFrame'
  <2>1. mcycs' \in Nat /\ mcycs' < CpuStep /\ CpuStep < 2 * LineCycles
    BY <1>3, <1>4, <1>2, Units DEF DivM68k
  <2>2. VblPos >= LineCycles /\ VblPos \in Nat /\ LineCycles \in Nat
    BY VblInFrame, GeometryAssumption
  <2>3. ~(mcycs' > 2 * VblPos)
    BY <1>3, <2>1, <2>2
  <2> QED
    BY <1>2, <2>3 DEF OneVblPerFrame, VblPos, DivM68k
<1> QED
  BY <1>5, <1>6, <1>7, <1>8, <1>9 DEF IInv

LEMMA StutterInv ==
  ASSUME IInv, UNCHANGED vars
  PROVE  IInv'
BY DEF IInv, TypeOK, InStep, SamplesPaid, BeamInStep, BeamPos, OneVblPerFrame,
       vars, clocks, beam, settings

(* geo_exec keeps the inductive invariant, whatever the instructions cost. *)
THEOREM Invariance == Spec => []IInv
<1>1. Init => IInv
  BY InitInv
<1>2. IInv /\ [Next]_vars => IInv'
  <2> SUFFICES ASSUME IInv, [Next]_vars PROVE IInv'
    OBVIOUS
  <2>1. ASSUME NEW c \in CpuCosts, NEW w \in program \cup {NoWrite},
               M68kRun(c, w)
        PROVE  IInv'
    BY <2>1, M68kRunInv
  <2>2. ASSUME NEW s \in Z80Costs, Z80Run(s) PROVE IInv'
    BY <2>2, Z80RunInv
  <2>3. CASE FrameEnd
    BY <2>3, FrameEndInv
  <2>4. CASE UNCHANGED vars
    BY <2>4, StutterInv
  <2> QED
    BY <2>1, <2>2, <2>3, <2>4 DEF Next
<1> QED
  BY <1>1, <1>2, PTL DEF Spec

(* Every counter of geo_exec stays in its range: a frame is overrun by less   *)
(* than an instruction of either processor, and the beam stays on the screen. *)
THEOREM TypeCorrect == Spec => []TypeOK
<1>1. IInv => TypeOK
  BY DEF IInv
<1> QED
  BY <1>1, Invariance, PTL

(* The 68K and the Z80 never drift apart, for any costs of their              *)
(* instructions.                                                              *)
THEOREM InStepCorrect == Spec => []InStep
<1>1. IInv => InStep
  BY DEF IInv
<1> QED
  BY <1>1, Invariance, PTL

(* No frame makes more samples than the buffers hold, in any geometry and     *)
(* with any dividers for which BufferAssumption holds.                        *)
THEOREM SamplesCorrect == Spec => []SamplesFit
<1>1. IInv => SamplesFit
  <2> SUFFICES ASSUME IInv PROVE SamplesFit
    OBVIOUS
  <2>1. /\ ymsamps \in Nat /\ ymcycs \in Nat /\ zcycs \in Nat
        /\ zcycs <= FrameMcycs + CpuStep + Z80Step - 1
    BY Units DEF IInv, TypeOK
  <2>2. SampleMcycs \in Nat /\ SampleMcycs > 0 /\ SampleCap \in Nat
        /\ DivZ80 \in Nat /\ CpuStep \in Nat /\ Z80Step \in Nat
        /\ FrameMcycs \in Nat
    BY Units, BufferAssumption, CostAssumption
  <2>3. DivZ80 * ymcycs >= 0 /\ DivZ80 * ymcycs \in Nat
        /\ SampleMcycs * ymsamps \in Nat
        /\ SampleMcycs * (SampleCap + 1) \in Nat
    BY <2>1, <2>2
  <2>4. SampleMcycs * ymsamps < SampleMcycs * (SampleCap + 1)
    BY <2>1, <2>2, <2>3, BufferAssumption DEF IInv, SamplesPaid
  <2>5. ASSUME ymsamps >= SampleCap + 1 PROVE FALSE
    <3>1. SampleMcycs * ymsamps >= SampleMcycs * (SampleCap + 1)
      BY <2>1, <2>2, <2>5
    <3> QED
      BY <2>3, <2>4, <3>1
  <2> QED
    BY <2>1, <2>2, <2>5 DEF SamplesFit
<1> QED
  BY <1>1, Invariance, PTL

(* The beam is exactly where the frame's time puts it, in any geometry and    *)
(* wherever the instructions end: not a cycle is lost over the ends of lines  *)
(* and of frames.                                                             *)
THEOREM BeamCorrect == Spec => []BeamInStep
<1>1. IInv => BeamInStep
  BY DEF IInv
<1> QED
  BY <1>1, Invariance, PTL

(* Every frame has one vertical blank, in any geometry with a line below the  *)
(* border's first.                                                            *)
THEOREM VblCorrect == Spec => []OneVblPerFrame
<1>1. IInv => OneVblPerFrame
  BY DEF IInv
<1> QED
  BY <1>1, Invariance, PTL
-----------------------------------------------------------------------------
(* The interval timer. *)

(* Every number is in a set that has zero and, with a number, the next one.   *)
LEMMA Inductive ==
  ASSUME NEW S, 0 \in S, \A n \in Nat : n \in S => n + 1 \in S
  PROVE  Nat \subseteq S
<1> DEFINE T == {n \in Nat : n \notin S}
<1>1. ASSUME T # {} PROVE FALSE
  <2> T \subseteq Nat
    OBVIOUS
  <2>1. \E x \in T : \A y \in T : <<y, x>> \notin OpToRel(<, Nat)
    <3> HIDE DEF T
    <3> QED
      BY <1>1, NatLessThanWellFounded, WFMin
  <2>2. PICK x \in T : \A y \in T : <<y, x>> \notin OpToRel(<, Nat)
    BY <2>1
  <2>3. x \in Nat /\ x \notin S
    BY <2>2, Zenon
  <2>4. x # 0
    BY <2>3, Zenon
  <2>5. x > 0 /\ x - 1 \in Nat /\ (x - 1) + 1 = x
    BY ONLY <2>3, <2>4
  <2>6. x - 1 \in T
    BY ONLY <2>3, <2>5, \A n \in Nat : n \in S => n + 1 \in S
  <2>7. <<x - 1, x>> \in OpToRel(<, Nat)
    BY ONLY <2>3, <2>5 DEF OpToRel
  <2> QED
    BY <2>2, <2>6, <2>7, Zenon
<1> QED
  BY <1>1, Zenon

(* Quotient and remainder, for any divisor. *)
LEMMA DivMod ==
  ASSUME NEW a \in Nat, NEW b \in Nat, b > 0
  PROVE  /\ a \div b \in Nat /\ a % b \in Nat /\ a % b < b
         /\ a = (a \div b) * b + (a % b)
  OBVIOUS

LEMMA Remainder ==
  ASSUME NEW a \in Nat, NEW b \in Nat, b > 0, NEW q \in Nat, NEW r \in Nat,
         r < b, a = (q * b) + r
  PROVE  a % b = r /\ a \div b = q
<1> DEFINE p == a \div b
           s == a % b
<1>1. p \in Nat /\ s \in Nat /\ s < b /\ a = (p * b) + s
  BY DivMod
<1> HIDE DEF p, s
<1>2. \A x, y \in Nat : x < y => y * b >= x * b + b
  <2>1. TAKE x, y \in Nat
  <2>2. HAVE x < y
  <2>3. PICK z \in Nat : y = x + 1 + z
    BY <2>2, y - x - 1 \in Nat
  <2>4. y * b = x * b + b + z * b /\ z * b \in Nat
    BY <2>3
  <2>5. x * b \in Nat
    OBVIOUS
  <2> QED
    BY <2>4, <2>5
<1>3. p * b \in Nat /\ q * b \in Nat
  BY <1>1
<1>4. ~(p < q) /\ ~(q < p)
  BY <1>1, <1>2, <1>3
<1>5. p = q
  BY <1>1, <1>4
<1>6. s = r
  BY <1>1, <1>3, <1>5
<1> QED
  BY <1>5, <1>6 DEF p, s

LEMMA NextRemainder ==
  ASSUME NEW a \in Nat, NEW b \in Nat, b > 0
  PROVE  (a + 1) % b = IF (a % b) + 1 = b THEN 0 ELSE (a % b) + 1
<1> DEFINE q == a \div b
           r == a % b
<1>1. q \in Nat /\ r \in Nat /\ r < b /\ a = q * b + r
  BY DivMod
<1> HIDE DEF q, r
<1>2. q * b \in Nat /\ (q + 1) * b = q * b + b
  BY <1>1
<1>3. CASE r + 1 = b
  <2>1. a + 1 = (q + 1) * b + 0
    BY <1>1, <1>2, <1>3
  <2>2. (a + 1) % b = 0
    BY <1>1, <2>1, Remainder
  <2> QED
    BY <1>3, <2>2 DEF r
<1>4. CASE r + 1 # b
  <2>1. a + 1 = q * b + (r + 1) /\ r + 1 < b /\ r + 1 \in Nat /\ a + 1 \in Nat
    BY <1>1, <1>2, <1>4
  <2>2. (a + 1) % b = r + 1
    BY <1>1, <2>1, Remainder
  <2> QED
    BY <1>4, <2>2 DEF r
<1> QED
  BY <1>3, <1>4

LEMMA TimerUnits ==
  /\ HalfWrap \in Nat /\ HalfWrap > 0 /\ Wrap \in Nat /\ Wrap > 0
<1>1. \A a, b \in Nat : a > 0 /\ b > 0 => a * b \in Nat /\ a * b > 0
  OBVIOUS
<1> QED
  BY <1>1, TimerAssumption DEF Wrap

(* Pixel clocks until zero, from a counter and back; and from one zero to the *)
(* next with the registers r.                                                 *)
Ahead(c) == IF c = 0 THEN Wrap ELSE c
Shown(v) == IF v = Wrap THEN 0 ELSE v
Again(r) == IF "count0" \in r.ctrl /\ r.reload > 0 THEN r.reload ELSE Wrap

(* What the counter is when that many pixel clocks have passed. *)
Reached(r, i) ==
  IF i < Ahead(r.counter)
  THEN [counter |-> Shown(Ahead(r.counter) - i), zero |-> FALSE]
  ELSE [counter |-> Shown(Again(r) - ((i - Ahead(r.counter)) % Again(r))),
        zero |-> TRUE]

TimerRegisters ==
  [ctrl : SUBSET {"enable", "write", "vblank", "count0"},
   reload : {n \in Nat : n < Wrap}, counter : {n \in Nat : n < Wrap}]

LEMMA AheadBounds ==
  ASSUME NEW r \in TimerRegisters
  PROVE  /\ Ahead(r.counter) \in Nat /\ Ahead(r.counter) > 0
         /\ Ahead(r.counter) <= Wrap /\ Shown(Ahead(r.counter)) = r.counter
         /\ Again(r) \in Nat /\ Again(r) > 0 /\ Again(r) <= Wrap
         /\ Shown(Again(r)) = IF "count0" \in r.ctrl THEN r.reload ELSE 0
  BY TimerUnits DEF TimerRegisters, Ahead, Again, Shown

(* The unsigned subtraction of one.  *)
LEMMA OneLess ==
  ASSUME NEW v \in Nat, v > 0, v <= Wrap
  PROVE  /\ (Shown(v) - 1) % Wrap = v - 1
<1>1. CASE v = Wrap
  <2>1. (0 - 1) % Wrap = Wrap - 1
    BY TimerUnits
  <2> QED
    BY <1>1, <2>1 DEF Shown
<1>2. CASE v # Wrap
  <2>1. v - 1 \in Nat /\ v - 1 < Wrap
    BY <1>2, TimerUnits
  <2>2. (v - 1) % Wrap = v - 1
    BY <2>1, TimerUnits
  <2> QED
    BY <1>2, <2>2 DEF Shown
<1> QED
  BY <1>1, <1>2

LEMMA TickReaches ==
  ASSUME NEW r \in TimerRegisters, NEW i \in Nat
  PROVE  Tick(r, Reached(r, i)) = Reached(r, i + 1)
<1> DEFINE Z == Ahead(r.counter)
           P == Again(r)
           m == (i - Z) % P
<1>1. /\ Z \in Nat /\ Z > 0 /\ Z <= Wrap /\ P \in Nat /\ P > 0 /\ P <= Wrap
      /\ Wrap \in Nat
  BY AheadBounds, TimerUnits
<1>2. Shown(P) = IF "count0" \in r.ctrl THEN r.reload ELSE 0
  BY AheadBounds
<1>3. ASSUME NEW v \in Nat, v > 0, v <= Wrap, NEW z
      PROVE  Tick(r, [counter |-> Shown(v), zero |-> z])
               = IF v = 1 THEN [counter |-> Shown(P), zero |-> TRUE]
                 ELSE [counter |-> Shown(v - 1), zero |-> z]
  <2>1. (Shown(v) - 1) % Wrap = v - 1
    BY <1>3, OneLess
  <2>2. v - 1 = 0 <=> v = 1
    BY <1>3
  <2>3. Shown(v - 1) = v - 1
    BY <1>1, <1>3 DEF Shown
  <2> QED
    BY <1>2, <2>1, <2>2, <2>3 DEF Tick
<1> DEFINE S(x) == Shown(x)
<1>4. Reached(r, i) = IF i < Z THEN [counter |-> S(Z - i), zero |-> FALSE]
                      ELSE [counter |-> S(P - m), zero |-> TRUE]
  BY Zenon DEF Reached
<1>5. Reached(r, i + 1)
        = IF i + 1 < Z THEN [counter |-> S(Z - (i + 1)), zero |-> FALSE]
          ELSE [counter |-> S(P - (((i + 1) - Z) % P)), zero |-> TRUE]
  BY Zenon DEF Reached
<1>6. CASE i < Z /\ i + 1 < Z
  <2>1. /\ Z - i \in Nat /\ Z - i > 0 /\ Z - i <= Wrap /\ Z - i # 1
        /\ (Z - i) - 1 = Z - (i + 1)
    BY <1>1, <1>6
  <2>2. Tick(r, [counter |-> Shown(Z - i), zero |-> FALSE])
          = [counter |-> Shown((Z - i) - 1), zero |-> FALSE]
    BY <1>3, <2>1
  <2> QED
    BY <1>4, <1>5, <1>6, <2>1, <2>2
<1>7. CASE i < Z /\ ~(i + 1 < Z)
  <2>1. /\ Z - i = 1 /\ Z - i \in Nat /\ Z - i > 0 /\ Z - i <= Wrap
        /\ (i + 1) - Z = 0
    BY <1>1, <1>7
  <2>2. Tick(r, [counter |-> Shown(Z - i), zero |-> FALSE])
          = [counter |-> Shown(P), zero |-> TRUE]
    BY <1>1, <1>3, <2>1
  <2>3. 0 % P = 0 /\ P - 0 = P
    BY <1>1
  <2> QED
    BY <1>4, <1>5, <1>7, <2>1, <2>2, <2>3
<1>8. CASE ~(i < Z)
  <2>1. i - Z \in Nat /\ (i + 1) - Z = (i - Z) + 1 /\ ~(i + 1 < Z)
    BY <1>1, <1>8
  <2>2. m \in Nat /\ m < P
    BY <1>1, <2>1, DivMod
  <2>3. ((i + 1) - Z) % P = IF m + 1 = P THEN 0 ELSE m + 1
    <3>1. ((i - Z) + 1) % P = IF m + 1 = P THEN 0 ELSE m + 1
      BY <1>1, <2>1, NextRemainder
    <3> QED
      BY <2>1, <3>1
  <2>4. P - m \in Nat /\ P - m > 0 /\ P - m <= Wrap
    BY <1>1, <2>2
  <2>5. Tick(r, [counter |-> Shown(P - m), zero |-> TRUE])
          = IF P - m = 1 THEN [counter |-> Shown(P), zero |-> TRUE]
            ELSE [counter |-> Shown((P - m) - 1), zero |-> TRUE]
    BY <1>3, <2>4
  <2>6. P - (((i + 1) - Z) % P) = IF P - m = 1 THEN P ELSE (P - m) - 1
    BY <1>1, <2>2, <2>3
  <2> QED
    BY <1>4, <1>5, <1>8, <2>1, <2>5, <2>6
<1> QED
  BY <1>6, <1>7, <1>8

(* The loop. *)
LEMMA CountdownReaches ==
  ASSUME NEW r \in TimerRegisters, NEW dec \in Nat
  PROVE  Countdown(r, dec) = Reached(r, dec)
<1> DEFINE start == [counter |-> r.counter, zero |-> FALSE]
           down[i \in 0 .. dec] == IF i = 0 THEN start ELSE Tick(r, down[i - 1])
           h == [i \in 0 .. dec |-> Reached(r, i)]
<1>1. Countdown(r, dec) = down[dec]
  BY Zenon DEF Countdown
<1>2. Reached(r, 0) = start
  <2>1. 0 < Ahead(r.counter) /\ Ahead(r.counter) - 0 = Ahead(r.counter)
        /\ Shown(Ahead(r.counter)) = r.counter
    BY AheadBounds
  <2> QED
    BY <2>1 DEF Reached
<1>3. \A i \in 0 .. dec :
        Reached(r, i) = IF i = 0 THEN start ELSE Tick(r, h[i - 1])
  <2>1. TAKE i \in 0 .. dec
  <2>2. CASE i = 0
    BY <1>2, <2>2
  <2>3. CASE i # 0
    <3>1. i - 1 \in Nat /\ i - 1 \in 0 .. dec /\ (i - 1) + 1 = i
      BY <2>3
    <3>2. h[i - 1] = Reached(r, i - 1)
      BY <3>1, Zenon
    <3>3. Tick(r, Reached(r, i - 1)) = Reached(r, (i - 1) + 1)
      BY <3>1, TickReaches
    <3> QED
      BY <2>3, <3>1, <3>2, <3>3, Zenon
  <2> QED
    BY <2>2, <2>3
<1>4. h = [i \in 0 .. dec |-> IF i = 0 THEN start ELSE Tick(r, h[i - 1])]
  BY <1>3, Zenon
<1>5. down = [i \in 0 .. dec |-> IF i = 0 THEN start ELSE Tick(r, down[i - 1])]
  BY <1>4, Zenon
<1> HIDE DEF down, h
<1> DEFINE S == {n \in Nat : n \in 0 .. dec => down[n] = Reached(r, n)}
<1>6. 0 \in S
  BY <1>2, <1>5
<1>7. ASSUME NEW n \in Nat, n \in S
      PROVE  n + 1 \in S
  <2>1. ASSUME n + 1 \in 0 .. dec
        PROVE  down[n + 1] = Reached(r, n + 1)
    <3>1. n \in 0 .. dec /\ (n + 1) - 1 = n /\ n + 1 # 0
      BY <1>7, <2>1
    <3>2. down[n] = Reached(r, n)
      BY <1>7, <3>1
    <3>3. down[n + 1] = Tick(r, down[(n + 1) - 1])
      BY <1>5, <2>1, <3>1, Zenon
    <3> QED
      BY <1>7, <3>1, <3>2, <3>3, TickReaches
  <2> QED
    BY <2>1
<1>8. dec \in S
  <2>1. \A n \in Nat : n \in S => n + 1 \in S
    BY <1>7, Zenon
  <2> HIDE DEF S
  <2> QED
    BY <1>6, <2>1, Inductive, Zenon
<1> QED
  BY <1>1, <1>8

(* What geo_exec's two ways of counting come to. *)
LEMMA CountedReaches ==
  ASSUME NEW r \in TimerRegisters, NEW dec \in Nat
  PROVE  Counted(r, dec) = Reached(r, dec)
<1>1. CASE r.counter > dec
  <2>1. /\ r.counter \in Nat /\ r.counter < Wrap /\ Wrap \in Nat
    BY TimerUnits DEF TimerRegisters
  <2>2. Ahead(r.counter) = r.counter
    BY <1>1, <2>1 DEF Ahead
  <2>3. dec < r.counter /\ Shown(r.counter - dec) = r.counter - dec
    BY <1>1, <2>1 DEF Shown
  <2> QED
    BY <1>1, <2>2, <2>3 DEF Counted, Reached
<1>2. CASE ~(r.counter > dec)
  BY <1>2, CountdownReaches DEF Counted
<1> QED
  BY <1>1, <1>2

(* The exact timer in pixel clocks: Z of them until zero, P from one zero to  *)
(* the next, and with the fraction of the one that has begun, D of them and a *)
(* rest in an instruction of c cycles.                                        *)
LEMMA PixelClocks ==
  ASSUME NEW U \in {2, 4}, NEW f \in Nat, f < U, NEW c \in Nat
  PROVE  \E D, g \in Nat :
           /\ f + c = D * U + g /\ g < U
           /\ D = (c \div U) + (IF f + (c % U) >= U THEN 1 ELSE 0)
           /\ g = IF f + (c % U) >= U THEN (f + (c % U)) - U ELSE f + (c % U)
           /\ (f + c) % U = g
<1>1. CASE U = 2
  BY <1>1
<1>2. CASE U = 4
  BY <1>2
<1> QED
  BY <1>1, <1>2

LEMMA Scaled ==
  ASSUME NEW U \in {2, 4}, NEW g \in Nat, g < U
  PROVE  \A a, P \in Nat :
           P > 0 => (a * U + g) % (P * U) = (a % P) * U + g
<1> TAKE a, P \in Nat
<1> HAVE P > 0
<1> DEFINE q == a \div P
           m == a % P
<1>1. q \in Nat /\ m \in Nat /\ m < P /\ a = (q * P) + m
  BY DivMod
<1> HIDE DEF q, m
<1>2. PICK s \in Nat : s = q * P
  BY <1>1
<1>3. /\ P * U \in Nat /\ P * U > 0 /\ m * U + g \in Nat /\ m * U + g < P * U
      /\ a * U + g \in Nat
  BY <1>1
<1>4. a * U + g = (q * (P * U)) + (m * U + g)
  <2>1. q * (P * U) = s * U
    <3>1. CASE U = 2
      BY <1>1, <1>2, <3>1
    <3>2. CASE U = 4
      BY <1>1, <1>2, <3>2
    <3> QED
      BY <3>1, <3>2
  <2>2. a = s + m
    BY <1>1, <1>2
  <2>3. a * U = s * U + m * U
    BY <1>1, <2>2
  <2> QED
    BY <1>1, <2>1, <2>3
<1>5. (a * U + g) % (P * U) = m * U + g
  <2> DEFINE x == a * U + g
             b == P * U
             k == m * U + g
  <2>1. /\ x \in Nat /\ b \in Nat /\ b > 0 /\ k \in Nat /\ k < b
        /\ x = (q * b) + k
    BY <1>3, <1>4
  <2> HIDE DEF x, b, k
  <2>2. x % b = k
    BY <1>1, <2>1, Remainder
  <2> QED
    BY <2>2 DEF x, b, k
<1> QED
  BY <1>5 DEF m

Due(U, f, r) == Ahead(r.counter) * U - f
Left(U, f, r, c) ==
  IF c < Due(U, f, r) THEN Due(U, f, r) - c
  ELSE Again(r) * U - ((c - Due(U, f, r)) % (Again(r) * U))

LEMMA ReachedExact ==
  ASSUME NEW U \in {2, 4}, NEW f \in Nat, NEW r \in TimerRegisters,
         NEW c \in Nat, NEW D \in Nat, NEW g \in Nat,
         f + c = D * U + g, g < U
  PROVE  /\ Reached(r, D).zero <=> c >= Due(U, f, r)
         /\ Reached(r, D).counter
              = ((Left(U, f, r, c) + U - 1) \div U) % Wrap
<1> DEFINE Z == Ahead(r.counter)
           P == Again(r)
           S(x) == Shown(x)
<1>1. /\ Z \in Nat /\ Z > 0 /\ Z <= Wrap /\ P \in Nat /\ P > 0 /\ P <= Wrap
      /\ Wrap \in Nat /\ Wrap > 0
  BY AheadBounds, TimerUnits
<1>2. ASSUME NEW v \in Nat, v > 0, v <= Wrap
      PROVE  v % Wrap = Shown(v)
  BY <1>1, <1>2 DEF Shown
<1>3. ASSUME NEW v \in Nat, v > 0
      PROVE  ((v * U - g) + U - 1) \div U = v
  <2>1. CASE U = 2
    BY <1>3, <2>1
  <2>2. CASE U = 4
    BY <1>3, <2>2
  <2> QED
    BY <2>1, <2>2
<1>4. Reached(r, D) = IF D < Z THEN [counter |-> S(Z - D), zero |-> FALSE]
                      ELSE [counter |-> S(P - ((D - Z) % P)), zero |-> TRUE]
  BY Zenon DEF Reached
<1>5. Due(U, f, r) = Z * U - f
  BY DEF Due
<1>6. c < Z * U - f <=> D < Z
  <2>1. CASE U = 2
    BY <1>1, <2>1
  <2>2. CASE U = 4
    BY <1>1, <2>2
  <2> QED
    BY <2>1, <2>2
<1>7. CASE D < Z
  <2>1. Left(U, f, r, c) = (Z - D) * U - g
    <3>1. (Z * U - f) - c = (Z - D) * U - g
      BY <1>1, <1>7
    <3> QED
      BY <1>5, <1>6, <1>7, <3>1 DEF Left
  <2>2. Z - D \in Nat /\ Z - D > 0 /\ Z - D <= Wrap
    BY <1>1, <1>7
  <2>3. ((Left(U, f, r, c) + U - 1) \div U) % Wrap = Shown(Z - D)
    BY <1>2, <1>3, <2>1, <2>2
  <2> QED
    BY <1>1, <1>4, <1>5, <1>6, <1>7, <2>3
<1>8. CASE ~(D < Z)
  <2> DEFINE a == D - Z
             m == a % P
  <2>1. a \in Nat
    BY <1>1, <1>8
  <2>2. m \in Nat /\ m < P
    BY <1>1, <2>1, DivMod
  <2>3. c - (Z * U - f) = a * U + g
    BY <1>1
  <2>4. (a * U + g) % (P * U) = m * U + g
    <3> P \in Nat /\ P > 0
      BY <1>1
    <3> HIDE DEF a, P
    <3>1. a \in Nat
      BY <2>1
    <3>2. \A d, e \in Nat :
            e > 0 => (d * U + g) % (e * U) = (d % e) * U + g
      BY Scaled
    <3> QED
      BY <3>1, <3>2, Zenon
  <2>5. P - m \in Nat /\ P - m > 0 /\ P - m <= Wrap
    <3> HIDE DEF m, P
    <3> QED
      BY <1>1, <2>2
  <2>6. Left(U, f, r, c) = (P - m) * U - g
    <3>1. Left(U, f, r, c) = P * U - ((c - (Z * U - f)) % (P * U))
      BY <1>5, <1>6, <1>8, Zenon DEF Left
    <3>2. Left(U, f, r, c) = P * U - (m * U + g)
      BY <2>3, <2>4, <3>1
    <3> HIDE DEF m, P
    <3> QED
      BY <1>1, <2>2, <3>2
  <2>7. ((Left(U, f, r, c) + U - 1) \div U) % Wrap = Shown(P - m)
    <3> HIDE DEF m, P
    <3> QED
      BY <1>2, <1>3, <2>5, <2>6
  <2>8. Reached(r, D) = [counter |-> S(P - m), zero |-> TRUE]
    BY <1>4, <1>8
  <2>9. c >= Due(U, f, r)
    BY <1>1, <1>5, <1>6, <1>8
  <2> QED
    BY <2>7, <2>8, <2>9
<1> QED
  BY <1>7, <1>8

(* The registers of the timer are in their ranges. *)
TimerInv ==
  /\ Registers \in TimerRegisters
  /\ frags \in Nat /\ frags < Unit
  /\ timerIrq \in BOOLEAN

LEMMA Halves ==
  ASSUME NEW h \in Nat, h < HalfWrap, NEW l \in Nat, l < HalfWrap
  PROVE  /\ h * HalfWrap + l \in Nat /\ h * HalfWrap + l < Wrap
         /\ (h * HalfWrap + l) % HalfWrap = l
         /\ (h * HalfWrap + l) \div HalfWrap = h
<1> DEFINE H == HalfWrap
<1>1. H \in Nat /\ H > 0
  BY TimerUnits
<1>2. h * H \in Nat /\ (h + 1) * H = h * H + H
  BY <1>1
<1>3. (h + 1) * H <= H * H
  <2>1. PICK k \in Nat : H = h + 1 + k
    BY <1>1, H - h - 1 \in Nat
  <2>2. k * H \in Nat /\ (h + 1) * H + k * H = (h + 1 + k) * H
    BY <1>1, <2>1
  <2>3. (h + 1 + k) * H = H * H
    BY <2>1
  <2> QED
    BY <1>1, <1>2, <2>2, <2>3
<1>4. h * H + l \in Nat /\ h * H + l < H * H
  BY <1>1, <1>2, <1>3
<1>5. (h * H + l) % H = l /\ (h * H + l) \div H = h
  BY <1>1, <1>4, Remainder
<1> QED
  BY <1>4, <1>5 DEF Wrap

LEMMA HalvesOf ==
  ASSUME NEW n \in Nat, n < Wrap
  PROVE  /\ n \div HalfWrap \in Nat /\ n \div HalfWrap < HalfWrap
         /\ n % HalfWrap \in Nat /\ n % HalfWrap < HalfWrap
<1> DEFINE H == HalfWrap
           q == n \div H
<1>1. H \in Nat /\ H > 0
  BY TimerUnits
<1>2. q \in Nat /\ n % H \in Nat /\ n % H < H /\ n = (q * H) + (n % H)
  BY <1>1, DivMod
<1>3. q < H
  <2> SUFFICES ASSUME q >= H PROVE FALSE
    BY <1>1, <1>2
  <2> HIDE DEF q
  <2>1. PICK k \in Nat : q = H + k
    BY <1>1, <1>2, q - H \in Nat
  <2>2. q * H = H * H + k * H /\ k * H \in Nat /\ H * H \in Nat
    BY <1>1, <2>1
  <2>3. n >= H * H
    BY <1>1, <1>2, <2>2
  <2> QED
    BY <1>1, <2>2, <2>3 DEF Wrap
<1> QED
  BY <1>2, <1>3

(* A write changes at most one register, in the ways of IntervalTimer. *)
LEMMA WriteIs ==
  ASSUME TimerInv, NEW w \in Writes,
         NEW r, r = AfterWrite(w)
  PROVE  /\ r \in TimerRegisters
         /\ r.counter \in {counter, r.reload}
         /\ \/ r.counter = counter /\ r.reload = reload /\ r.ctrl = ctrl
            \/ /\ r.ctrl = ctrl /\ r.counter = counter
               /\ r.reload % HalfWrap = reload % HalfWrap
            \/ /\ r.ctrl = ctrl
               /\ r.reload \div HalfWrap = reload \div HalfWrap
               /\ r.counter = IF "write" \in ctrl THEN r.reload ELSE counter
            \/ /\ r.reload = reload
               /\ \/ r.counter = counter
                  \/ r.counter = reload /\ "vblank" \in r.ctrl \ ctrl
<1>1. /\ ctrl \in SUBSET {"enable", "write", "vblank", "count0"}
      /\ reload \in Nat /\ reload < Wrap /\ counter \in Nat /\ counter < Wrap
  BY DEF TimerInv, Registers, TimerRegisters
<1>2. /\ reload \div HalfWrap \in Nat /\ reload \div HalfWrap < HalfWrap
      /\ reload % HalfWrap \in Nat /\ reload % HalfWrap < HalfWrap
  BY <1>1, HalvesOf
<1>3. CASE w.reg = "timerhigh"
  <2>1. w.val \in Nat /\ w.val < HalfWrap
    BY <1>3, TimerUnits DEF Writes, TimerWrites, WatchdogWrites, NoWrite
  <2> DEFINE n == w.val * HalfWrap + (reload % HalfWrap)
  <2>2. n \in Nat /\ n < Wrap /\ n % HalfWrap = reload % HalfWrap
    BY <1>2, <2>1, Halves
  <2> HIDE DEF n
  <2>3. r = [ctrl |-> ctrl, reload |-> n, counter |-> counter]
    BY <1>3 DEF AfterWrite, WriteHigh, Registers, n
  <2> QED
    BY <1>1, <2>2, <2>3 DEF TimerRegisters
<1>4. CASE w.reg = "timerlow"
  <2>1. w.val \in Nat /\ w.val < HalfWrap
    BY <1>4, TimerUnits DEF Writes, TimerWrites, WatchdogWrites, NoWrite
  <2> DEFINE n == HalfWrap * (reload \div HalfWrap) + w.val
  <2>2. n \in Nat /\ n < Wrap /\ n \div HalfWrap = reload \div HalfWrap
    <3>1. HalfWrap * (reload \div HalfWrap) = (reload \div HalfWrap) * HalfWrap
      BY <1>2, TimerUnits
    <3> QED
      BY <1>2, <2>1, <3>1, Halves
  <2> HIDE DEF n
  <2>3. r = [ctrl |-> ctrl, reload |-> n,
             counter |-> IF "write" \in ctrl THEN n ELSE counter]
    BY <1>4 DEF AfterWrite, WriteLow, Registers, n
  <2> QED
    BY <1>1, <2>2, <2>3 DEF TimerRegisters
<1>5. CASE w.reg = "mode"
  <2>1. w.val \in SUBSET {"enable", "write", "vblank", "count0"}
    <3>1. w.val \in Modes
      BY <1>5 DEF Writes, TimerWrites, WatchdogWrites, NoWrite
    <3> QED
      BY <3>1, TimerAssumption, Zenon
  <2> DEFINE n == IF "vblank" \in w.val \ ctrl /\ line >= BorderBottom
                  THEN reload ELSE counter
  <2>2. r = [ctrl |-> w.val, reload |-> reload, counter |-> n]
    BY <1>5 DEF AfterWrite, WriteMode, Registers
  <2> QED
    BY <1>1, <2>1, <2>2 DEF TimerRegisters
<1>6. CASE w.reg \notin {"timerhigh", "timerlow", "mode"}
  <2>1. r = [ctrl |-> ctrl, reload |-> reload, counter |-> counter]
    BY <1>6 DEF AfterWrite, Registers
  <2> QED
    BY <1>1, <2>1 DEF TimerRegisters
<1> QED
  BY <1>3, <1>4, <1>5, <1>6

LEMMA ReachedType ==
  ASSUME NEW r \in TimerRegisters, NEW i \in Nat
  PROVE  /\ Reached(r, i).counter \in {n \in Nat : n < Wrap}
         /\ Reached(r, i).zero \in BOOLEAN
<1> DEFINE Z == Ahead(r.counter)
           P == Again(r)
<1>1. /\ Z \in Nat /\ Z > 0 /\ Z <= Wrap /\ P \in Nat /\ P > 0 /\ P <= Wrap
      /\ Wrap \in Nat /\ Wrap > 0
  BY AheadBounds, TimerUnits
<1>2. ASSUME NEW v \in Nat, v <= Wrap
      PROVE  Shown(v) \in {n \in Nat : n < Wrap}
  BY <1>1, <1>2 DEF Shown
<1>3. CASE i < Z
  <2>1. Z - i \in Nat /\ Z - i <= Wrap
    BY <1>1, <1>3
  <2> QED
    BY <1>2, <1>3, <2>1 DEF Reached
<1>4. CASE ~(i < Z)
  <2> DEFINE m == (i - Z) % P
  <2>1. m \in Nat /\ m < P
    BY <1>1, <1>4, i - Z \in Nat, DivMod
  <2>2. P - m \in Nat /\ P - m <= Wrap
    <3> HIDE DEF m, P
    <3> QED
      BY <1>1, <2>1
  <2>3. Reached(r, i) = [counter |-> Shown(P - m), zero |-> TRUE]
    BY <1>4 DEF Reached
  <2> QED
    BY <1>2, <2>2, <2>3
<1> QED
  BY <1>3, <1>4

TimeNow == IF oc = 1 THEN mcycs ELSE mcycs \div DivM68k

LEMMA InitTimer == Init => TimerInv
<1> SUFFICES ASSUME Init PROVE TimerInv
  OBVIOUS
<1>1. Registers \in TimerRegisters
  BY TimerUnits DEF Init, Registers, TimerRegisters
<1>2. frags \in Nat /\ frags < Unit
  BY DEF Init, Unit
<1>3. timerIrq \in BOOLEAN
  BY Zenon DEF Init
<1> QED
  BY <1>1, <1>2, <1>3, Zenon DEF TimerInv

(* An instruction, with its write, is a step of the exact timer. *)
LEMMA M68kRunPasses ==
  ASSUME TypeOK, TimerInv, NEW c \in CpuCosts, NEW w \in program \cup {NoWrite},
         M68kRun(c, w)
  PROVE  TimerInv' /\ Exact!Next
<1> DEFINE r == AfterWrite(w)
           n == Counted(r, Dec(c))
           b == LspcRun(IF Bites(w, c) THEN Beam(0, 0) ELSE Beam(line, cyc),
                        Halved(c))
           latch == b.latch /\ "vblank" \in r.ctrl
           cleared == ~(w.reg # "irqack" /\ ~Bites(w, c))
<1>1. /\ ctrl' = r.ctrl /\ reload' = r.reload /\ frags' = FragsLeft(c)
      /\ counter' = IF latch THEN r.reload ELSE n.counter
      /\ timerIrq' = \/ timerIrq /\ w.reg # "irqack" /\ ~Bites(w, c)
                     \/ n.zero /\ "enable" \in r.ctrl
      /\ mcycs' = mcycs + CpuTime(c) /\ oc' = oc
  BY DEF M68kRun, settings
<1>2. oc \in {0, 1} /\ Unit \in {2, 4} /\ Unit' = Unit
  BY <1>1 DEF TypeOK, Unit
<1>3. c \in Nat /\ c > 0
  BY CpuTimeBounds DEF TypeOK
<1>4. w \in Writes
  BY ProgramAssumption DEF TypeOK, Writes
<1>5. /\ r \in TimerRegisters
      /\ r.counter \in {counter, r.reload}
      /\ \/ r.counter = counter /\ r.reload = reload /\ r.ctrl = ctrl
         \/ /\ r.ctrl = ctrl /\ r.counter = counter
            /\ r.reload % HalfWrap = reload % HalfWrap
         \/ /\ r.ctrl = ctrl
            /\ r.reload \div HalfWrap = reload \div HalfWrap
            /\ r.counter = IF "write" \in ctrl THEN r.reload ELSE counter
         \/ /\ r.reload = reload
            /\ \/ r.counter = counter
               \/ r.counter = reload /\ "vblank" \in r.ctrl \ ctrl
  BY <1>4, WriteIs
<1>6. PICK D, g \in Nat :
        /\ frags + c = D * Unit + g /\ g < Unit
        /\ Dec(c) = D /\ FragsLeft(c) = g /\ (frags + c) % Unit = g
  <2>1. frags \in Nat /\ frags < Unit
    BY DEF TimerInv
  <2>2. \E D, g \in Nat :
          /\ frags + c = D * Unit + g /\ g < Unit
          /\ D = (c \div Unit) + (IF frags + (c % Unit) >= Unit THEN 1 ELSE 0)
          /\ g = IF frags + (c % Unit) >= Unit THEN (frags + (c % Unit)) - Unit
                 ELSE frags + (c % Unit)
          /\ (frags + c) % Unit = g
    BY <1>2, <1>3, <2>1, PixelClocks
  <2>3. PICK D, g \in Nat :
          /\ frags + c = D * Unit + g /\ g < Unit
          /\ D = (c \div Unit) + (IF frags + (c % Unit) >= Unit THEN 1 ELSE 0)
          /\ g = IF frags + (c % Unit) >= Unit THEN (frags + (c % Unit)) - Unit
                 ELSE frags + (c % Unit)
          /\ (frags + c) % Unit = g
    BY <2>2, Zenon
  <2>4. Dec(c) = D /\ FragsLeft(c) = g
    BY <2>3, Zenon DEF Dec, FragsLeft, FragsSum
  <2> QED
    BY <2>3, <2>4, Zenon
<1>7. n = Reached(r, D)
  BY <1>5, <1>6, CountedReaches
<1>8. /\ n.counter \in {i \in Nat : i < Wrap} /\ n.zero \in BOOLEAN
      /\ n.zero <=> c >= Due(Unit, frags, r)
      /\ n.counter = ((Left(Unit, frags, r, c) + Unit - 1) \div Unit) % Wrap
  BY <1>2, <1>3, <1>5, <1>6, <1>7, ReachedExact, ReachedType DEF TimerInv
<1> HIDE DEF r, n, b
<1>9. TimerInv'
  <2>1. /\ r.ctrl \in SUBSET {"enable", "write", "vblank", "count0"}
        /\ r.reload \in {i \in Nat : i < Wrap}
    BY <1>5 DEF TimerRegisters
  <2>2. Registers' \in TimerRegisters
    BY <1>1, <1>8, <2>1 DEF Registers, TimerRegisters
  <2>3. frags' \in Nat /\ frags' < Unit'
    BY <1>1, <1>2, <1>6
  <2>4. timerIrq' \in BOOLEAN
    BY <1>1
  <2> QED
    BY <2>2, <2>3, <2>4 DEF TimerInv
<1>10. TimeNow' = TimeNow + c
  <2>1. mcycs \in Nat
    BY Units DEF TypeOK
  <2> QED
    BY <1>1, <1>2, <1>3, <2>1 DEF TimeNow, CpuTime, Halved, DivM68k
<1>11. TimeNow \in Nat
  BY Units DEF TypeOK, TimeNow, DivM68k
<1>12. Exact!Pass(r.counter, latch, cleared)
  <2> HIDE DEF latch, cleared
  <2> DEFINE k == TimeNow' - TimeNow
  <2>1. k = c
    BY <1>3, <1>10, <1>11
  <2> HIDE DEF k
  <2>2. Exact!Due(r.counter) = Due(Unit, frags, r)
    BY Zenon DEF Exact!Due, Due, Ahead
  <2>3. Exact!Period = Again(r) * Unit
    BY <1>1, Zenon DEF Exact!Period, Again
  <2>4. Exact!CyclesLeft(r.counter, c) = Left(Unit, frags, r, c)
    BY <2>2, <2>3, Zenon DEF Exact!CyclesLeft, Left
  <2>5. Exact!PixelsIn(Exact!CyclesLeft(r.counter, c)) % Wrap = n.counter
    BY <1>8, <2>4, Zenon DEF Exact!PixelsIn
  <2>6. frags' = (frags + k) % Unit
    BY <1>1, <1>6, <2>1
  <2>7. counter' = IF latch THEN reload'
                   ELSE Exact!PixelsIn(Exact!CyclesLeft(r.counter, k)) % Wrap
    BY <1>1, <2>1, <2>5
  <2>8. latch => "vblank" \in ctrl'
    BY <1>1, Zenon DEF latch
  <2>9. timerIrq' = \/ timerIrq /\ ~cleared
                    \/ k >= Exact!Due(r.counter) /\ "enable" \in ctrl'
    BY <1>1, <1>8, <2>1, <2>2, Zenon DEF cleared
  <2>10. k > 0
    BY <1>3, <2>1
  <2> QED
    BY <1>2, <2>6, <2>7, <2>8, <2>9, <2>10, Zenon DEF Exact!Pass, k, TimeNow
<1>13. latch \in BOOLEAN /\ cleared \in BOOLEAN
  OBVIOUS
<1>14. r.counter \in {counter, reload'}
  BY <1>1, <1>5
<1>15. \/ r.counter = counter /\ UNCHANGED <<reload, ctrl>>
       \/ Exact!SetHigh(r.counter) \/ Exact!SetLow(r.counter)
       \/ Exact!SetMode(r.counter)
  BY <1>1, <1>5 DEF Exact!SetHigh, Exact!SetLow, Exact!SetMode
<1>16. Exact!Next
  <2> HIDE DEF latch, cleared
  <2> QED
    BY <1>12, <1>13, <1>14, <1>15, Zenon DEF Exact!Next
<1> QED
  BY <1>9, <1>16

(* The frame's end moves the clock back and leaves the timer alone. *)
LEMMA FrameEndRebases ==
  ASSUME TypeOK, TimerInv, FrameEnd
  PROVE  TimerInv' /\ Exact!Next
<1>1. /\ mcycs >= FrameMcycs /\ mcycs' = mcycs % FrameMcycs
      /\ UNCHANGED <<ctrl, reload, counter, frags, timerIrq, oc>>
  BY DEF FrameEnd, Wrapped, timer, settings
<1>2. TimerInv'
  BY <1>1 DEF TimerInv, Registers, Unit
<1>3. TimeNow' < TimeNow
  <2>1. /\ mcycs \in Nat /\ mcycs < 2 * FrameMcycs
        /\ FrameMcycs = 2 * FrameCycles /\ FrameCycles \in Nat
        /\ FrameMcycs \in Nat /\ FrameMcycs > 0
    BY Units, FrameUnits, CostAssumption DEF TypeOK
  <2>2. mcycs' = mcycs - FrameMcycs
    BY <1>1, <2>1, OneFrameOff
  <2>3. CASE oc = 1
    BY <1>1, <2>1, <2>2, <2>3 DEF TimeNow
  <2>4. CASE oc # 1
    BY <1>1, <2>1, <2>2, <2>4 DEF TimeNow, DivM68k
  <2> QED
    BY <2>3, <2>4
<1>4. Exact!Rebase
  BY <1>1, <1>3, Zenon DEF Exact!Rebase, TimeNow, Unit
<1> QED
  BY <1>2, <1>4 DEF Exact!Next

(* The Z80 takes no part in it. *)
LEMMA Z80RunLeaves ==
  ASSUME TimerInv, NEW s \in Z80Costs, Z80Run(s)
  PROVE  TimerInv' /\ UNCHANGED <<mcycs, timer>>
<1>1. UNCHANGED <<mcycs, ctrl, reload, counter, frags, timerIrq, oc>>
  BY DEF Z80Run, timer, settings
<1> QED
  BY <1>1 DEF TimerInv, Registers, Unit, timer

LEMMA TimerSteps ==
  ASSUME TypeOK, TimerInv, [Next]_vars
  PROVE  TimerInv' /\ [Exact!Next]_<<mcycs, timer>>
<1>1. ASSUME NEW c \in CpuCosts, NEW w \in program \cup {NoWrite},
             M68kRun(c, w)
      PROVE  TimerInv' /\ Exact!Next
  BY <1>1, M68kRunPasses
<1>2. ASSUME NEW s \in Z80Costs, Z80Run(s)
      PROVE  TimerInv' /\ UNCHANGED <<mcycs, timer>>
  BY <1>2, Z80RunLeaves
<1>3. ASSUME FrameEnd PROVE TimerInv' /\ Exact!Next
  BY <1>3, FrameEndRebases
<1>4. ASSUME UNCHANGED vars
      PROVE  TimerInv' /\ UNCHANGED <<mcycs, timer>>
  <2>1. UNCHANGED <<mcycs, ctrl, reload, counter, frags, timerIrq, oc>>
    BY <1>4 DEF vars, clocks, timer, settings
  <2> QED
    BY <2>1 DEF TimerInv, Registers, Unit, timer
<1> QED
  BY <1>1, <1>2, <1>3, <1>4, Zenon DEF Next

(* The interval timer of geo_exec is the exact one, at both clocks: however   *)
(* the 68K's instructions divide the time, in bulk or one pixel clock after   *)
(* the other, with writes to its registers and the vertical blank's reload in *)
(* between, it neither gains nor loses a cycle and asks for its interrupt     *)
(* with the instruction in which the counter reaches zero.                    *)
THEOREM TimerCorrect == Spec => TimerSpec
<1>1. Init => TimerInv
  BY InitTimer
<1>2. TypeOK /\ TimerInv /\ [Next]_vars => TimerInv'
  BY TimerSteps
<1>3. TypeOK /\ TimerInv /\ [Next]_vars => [Exact!Next]_<<mcycs, timer>>
  BY TimerSteps
<1> QED
  BY <1>1, <1>2, <1>3, TypeCorrect, PTL DEF Spec, TimerSpec
=============================================================================

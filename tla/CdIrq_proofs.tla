---------------------------- MODULE CdIrq_proofs ----------------------------
(***************************************************************************)
(* Interrupt delivery on the Neo Geo CD, proved for every choice of the    *)
(* masks software writes and of the nesting bound.                         *)
(***************************************************************************)
EXTENDS CdIrq, TLAPS

\* What a step needs to know to keep itself: the line follows the pending
\* set only because no acknowledge leaves a source behind, and the run of an
\* instruction below every line needs the highest line to have been chosen.
IInv ==
  /\ TypeOK
  /\ LineFollowsPending
  /\ PendingIsFlagged
  /\ LatchedVblIsMasked
  /\ PreciseInterrupts

USE DEF VblLevel, CdLevel, TimerLevel

\* An interrupt check with a well-typed mask and stack gives a well-typed CPU.
LEMMA CheckType ==
  ASSUME TypeOK,
         NEW mask \in 0..7, NEW stack \in Seq(Frame), NEW halt \in BOOLEAN,
         CheckInterrupts(mask, stack, halt)
  PROVE  /\ pending' \subseteq pending
         /\ virq' \subseteq Lines
         /\ intMask' \in 0..7
         /\ stopped' \in BOOLEAN
         /\ frames' \in Seq(Frame)
<1>1. CASE /\ \A level \in Lines : ~Selects(level, mask)
           /\ intMask' = mask /\ frames' = stack /\ stopped' = halt
           /\ UNCHANGED <<pending, virq>>
  BY <1>1 DEF TypeOK
<1>2. CASE \E level \in Lines :
             /\ Selects(level, mask)
             /\ IntAck(level)
             /\ intMask' = level
             /\ frames' = <<[vec |-> VectorOf(level), sr |-> mask]>> \o stack
             /\ stopped' = FALSE
  <2>1. PICK level \in Lines :
             /\ IntAck(level)
             /\ intMask' = level
             /\ frames' = <<[vec |-> VectorOf(level), sr |-> mask]>> \o stack
             /\ stopped' = FALSE
    BY <1>2
  <2>2. VectorOf(level) \in Vectors
    BY DEF VectorOf, Lines, Vectors, DecoderVector, CommVector, TimerVector, VblVector
  <2>3. [vec |-> VectorOf(level), sr |-> mask] \in Frame
    BY <2>2 DEF Frame
  <2>4. frames' \in Seq(Frame)
    BY <2>1, <2>3
  <2>5. virq' \subseteq Lines /\ pending' \subseteq pending
    BY <2>1 DEF IntAck, CdUpdateInterrupts, TypeOK, Lines
  <2>6. intMask' \in 0..7
    BY <2>1 DEF Lines
  <2>7. QED BY <2>1, <2>4, <2>5, <2>6
<1>3. QED BY <1>1, <1>2 DEF CheckInterrupts

\* An interrupt check keeps level 2 in step with the pending sources and
\* leaves no line above the mask it ends with.
LEMMA CheckLines ==
  ASSUME TypeOK, LineFollowsPending,
         NEW mask \in 0..7, NEW stack \in Seq(Frame), NEW halt \in BOOLEAN,
         CheckInterrupts(mask, stack, halt)
  PROVE  /\ LineFollowsPending'
         /\ \A line \in virq' : line <= intMask'
<1>1. CASE /\ \A level \in Lines : ~Selects(level, mask)
           /\ intMask' = mask /\ UNCHANGED <<pending, virq>>
  <2>1. LineFollowsPending'
    BY <1>1 DEF LineFollowsPending
  <2>2. ASSUME NEW line \in virq, line > mask
        PROVE  FALSE
    \* The highest asserted line would be selected.
    <3>1. PICK top \in virq : \A other \in virq : other <= top
      BY DEF TypeOK, Lines
    <3>2. Selects(top, mask)
      BY <2>2, <3>1 DEF Selects, TypeOK, Lines
    <3>3. QED BY <1>1, <3>2 DEF TypeOK
  <2>3. QED BY <1>1, <2>1, <2>2 DEF TypeOK, Lines
<1>2. CASE \E level \in Lines :
             Selects(level, mask) /\ IntAck(level) /\ intMask' = level
  <2>1. PICK level \in Lines :
             Selects(level, mask) /\ IntAck(level) /\ intMask' = level
    BY <1>2
  <2>2. LineFollowsPending'
    BY <2>1 DEF IntAck, CdUpdateInterrupts, LineFollowsPending, TypeOK, Lines
  <2>3. virq' \subseteq virq \cup {level}
    BY <2>1 DEF IntAck, CdUpdateInterrupts, Lines, TypeOK
  <2>4. \A line \in virq' : line <= intMask'
    BY <2>1, <2>3 DEF Selects, TypeOK, Lines
  <2>5. QED BY <2>2, <2>4
<1>3. QED BY <1>1, <1>2 DEF CheckInterrupts

LEMMA InitIInv == Init => IInv
<1> SUFFICES ASSUME Init PROVE IInv
  OBVIOUS
<1>1. TypeOK
  <2>1. frames \in Seq(Frame)
    BY DEF Init
  <2>2. intMask \in 0..7 /\ virq \subseteq Lines
    BY DEF Init, Lines
  <2>3. QED BY <2>1, <2>2 DEF Init, TypeOK, Turn, Source
<1>2. LineFollowsPending
  BY DEF Init, LineFollowsPending
<1>3. PendingIsFlagged /\ LatchedVblIsMasked /\ PreciseInterrupts
  BY DEF Init, PendingIsFlagged, LatchedVblIsMasked, PreciseInterrupts
<1>4. QED BY <1>1, <1>2, <1>3 DEF IInv

\* The four ways software starts an interrupt check.
LEMMA CheckStep ==
  ASSUME IInv,
         NEW mask \in 0..7, NEW stack \in Seq(Frame), NEW halt \in BOOLEAN,
         CheckInterrupts(mask, stack, halt),
         turn' \in Turn,
         UNCHANGED <<irqMask, irqEnabled, gates, vblEnabled, vblPending>>
  PROVE  IInv'
<1>1. TypeOK'
  BY CheckType DEF IInv, TypeOK
<1>2. LineFollowsPending' /\ PreciseInterrupts'
  BY CheckLines DEF IInv, PreciseInterrupts
<1>3. PendingIsFlagged' /\ LatchedVblIsMasked'
  BY CheckType DEF IInv, PendingIsFlagged, LatchedVblIsMasked
<1>4. QED BY <1>1, <1>2, <1>3 DEF IInv

\* Every step of the machine keeps the invariant.
LEMMA NextIInv == IInv /\ [Next]_vars => IInv'
<1> SUFFICES ASSUME IInv, [Next]_vars PROVE IInv'
  OBVIOUS
<1> USE DEF Turn
<1>1. CASE BeginExecute
  BY <1>1, CheckStep DEF BeginExecute, IInv, TypeOK
<1>2. CASE Idle
  BY <1>2 DEF Idle, cdVars, cpuVars, IInv, TypeOK, LineFollowsPending,
     PendingIsFlagged, LatchedVblIsMasked, PreciseInterrupts
<1>3. CASE Rte
  <2>1. Head(frames) \in Frame /\ Tail(frames) \in Seq(Frame)
    BY <1>3 DEF Rte, IInv, TypeOK
  <2>2. Head(frames).sr \in 0..7
    BY <2>1 DEF Frame
  <2>3. QED
    BY <1>3, <2>1, <2>2, CheckStep DEF Rte, Instruction
<1>4. ASSUME NEW mask \in SrMasks, WriteSr(mask) \/ Stop(mask)
      PROVE  IInv'
  <2>1. mask \in 0..7 /\ frames \in Seq(Frame)
    BY SrMasksAssumption DEF IInv, TypeOK
  <2>2. QED
    BY <1>4, <2>1, CheckStep DEF WriteSr, Stop, Instruction
<1>5. ASSUME NEW sources \in SUBSET Source, WriteCdIrqAck(sources)
      PROVE  IInv'
  <2>1. TypeOK'
    BY <1>5 DEF WriteCdIrqAck, Instruction, CdUpdateInterrupts, IInv, TypeOK, Lines
  <2>2. LineFollowsPending'
    BY <1>5 DEF WriteCdIrqAck, CdUpdateInterrupts, LineFollowsPending
  <2>3. PendingIsFlagged' /\ LatchedVblIsMasked' /\ PreciseInterrupts'
    BY <1>5 DEF WriteCdIrqAck, Instruction, IInv, PendingIsFlagged,
       LatchedVblIsMasked, PreciseInterrupts
  <2>4. QED BY <2>1, <2>2, <2>3 DEF IInv
<1>6. ASSUME NEW sources \in SUBSET Source, WriteIrqMask1(sources)
      PROVE  IInv'
  BY <1>6 DEF WriteIrqMask1, Instruction, cpuVars, IInv, TypeOK,
     LineFollowsPending, PendingIsFlagged, LatchedVblIsMasked, PreciseInterrupts
<1>7. ASSUME NEW lines \in SUBSET {VblLevel, TimerLevel}, WriteIrqAck(lines)
      PROVE  IInv'
  <2>1. TypeOK'
    BY <1>7 DEF WriteIrqAck, Instruction, cdVars, IInv, TypeOK
  <2>2. LineFollowsPending'
    BY <1>7 DEF WriteIrqAck, cdVars, IInv, LineFollowsPending
  <2>3. QED
    BY <1>7, <2>1, <2>2 DEF WriteIrqAck, Instruction, cdVars, IInv,
       PendingIsFlagged, LatchedVblIsMasked, PreciseInterrupts
<1>8. ASSUME NEW on \in BOOLEAN, WriteIrqMask2(on)
      PROVE  IInv'
  <2>1. virq' \subseteq Lines /\ (CdLevel \in virq' <=> CdLevel \in virq)
    BY <1>8 DEF WriteIrqMask2, IInv, TypeOK, Lines
  <2>2. vblPending' \in BOOLEAN /\ vblEnabled' \in BOOLEAN
    BY <1>8 DEF WriteIrqMask2
  <2>3. TypeOK' /\ LineFollowsPending'
    BY <1>8, <2>1, <2>2 DEF WriteIrqMask2, Instruction, IInv, TypeOK,
       LineFollowsPending
  <2>4. LatchedVblIsMasked'
    BY <1>8, Zenon DEF WriteIrqMask2, LatchedVblIsMasked
  <2>5. PendingIsFlagged' /\ PreciseInterrupts'
    BY <1>8 DEF WriteIrqMask2, Instruction, IInv, PendingIsFlagged,
       PreciseInterrupts
  <2>6. QED BY <2>3, <2>4, <2>5 DEF IInv
<1>9. ASSUME NEW on \in BOOLEAN, WriteCdIrqEn(on)
      PROVE  IInv'
  BY <1>9 DEF WriteCdIrqEn, Instruction, cpuVars, IInv, TypeOK,
     LineFollowsPending, PendingIsFlagged, LatchedVblIsMasked, PreciseInterrupts
<1>10. CASE WatchdogReset \/ FrontendReset
  <2>1. TypeOK'
    <3>1. Reset(FALSE)
      BY <1>10 DEF WatchdogReset, FrontendReset
    <3>2. frames' \in Seq(Frame)
      BY <3>1 DEF Reset
    <3>3. intMask' \in 0..7 /\ virq' \subseteq Lines
      BY <3>1 DEF Reset, Lines
    <3>4. turn' \in Turn
      BY <1>10 DEF WatchdogReset, FrontendReset, IInv, TypeOK
    <3>5. QED BY <3>1, <3>2, <3>3, <3>4 DEF Reset, TypeOK
  <2>2. QED
    BY <1>10, <2>1 DEF WatchdogReset, FrontendReset, Reset, IInv,
       LineFollowsPending, PendingIsFlagged, LatchedVblIsMasked, PreciseInterrupts
<1>11. ASSUME NEW from \in Turn, NEW to \in Turn \ {"insn"}, Quiet(from, to)
       PROVE  IInv'
  BY <1>11 DEF Quiet, cdVars, cpuVars, IInv, TypeOK, LineFollowsPending,
     PendingIsFlagged, LatchedVblIsMasked, PreciseInterrupts
<1>12. CASE Timer
  <2>1. TypeOK'
    BY <1>12 DEF Timer, cdVars, IInv, TypeOK, Lines
  <2>2. QED
    BY <1>12, <2>1 DEF Timer, cdVars, IInv, LineFollowsPending,
       PendingIsFlagged, LatchedVblIsMasked, PreciseInterrupts
<1>13. CASE Vbl
  <2>1. TypeOK'
    BY <1>13 DEF Vbl, IInv, TypeOK, Lines
  <2>2. QED
    BY <1>13, <2>1 DEF Vbl, IInv, LineFollowsPending, PendingIsFlagged,
       LatchedVblIsMasked, PreciseInterrupts
<1>14. ASSUME NEW decoded \in BOOLEAN, CdTick(decoded)
       PROVE  IInv'
  <2> DEFINE raised == {s \in gates : /\ s = "decoder" => decoded
                                      /\ s = "comm" => irqEnabled}
  <2>1. raised \subseteq Source
    BY DEF IInv, TypeOK
  <2>2. IrqSet(raised)
    BY <1>14 DEF CdTick
  <2> HIDE DEF raised
  <2>3. TypeOK'
    BY <1>14, <2>1, <2>2 DEF CdTick, IrqSet, CdUpdateInterrupts, IInv, TypeOK, Lines
  <2>4. LineFollowsPending' /\ PendingIsFlagged'
    BY <2>2 DEF IrqSet, CdUpdateInterrupts, IInv, LineFollowsPending, PendingIsFlagged
  <2>5. LatchedVblIsMasked' /\ PreciseInterrupts'
    BY <1>14 DEF CdTick, IInv, LatchedVblIsMasked, PreciseInterrupts
  <2>6. QED BY <2>3, <2>4, <2>5 DEF IInv
<1>15. CASE UNCHANGED vars
  BY <1>15 DEF vars, cdVars, cpuVars, IInv, TypeOK, LineFollowsPending,
     PendingIsFlagged, LatchedVblIsMasked, PreciseInterrupts
<1>16. CASE Cpu
  BY <1>16, <1>1, <1>2, <1>3, <1>4, <1>5, <1>6, <1>7, <1>8, <1>9 DEF Cpu
<1>17. CASE Devices
  BY <1>17, <1>10, <1>11, <1>12, <1>13, <1>14 DEF Devices, WatchdogIncrement
<1>18. QED
  BY <1>10, <1>15, <1>16, <1>17 DEF Next

\* The machine always satisfies the invariant.
THEOREM Invariance == Spec => []IInv
BY InitIInv, NextIInv, PTL DEF Spec

\* Type correctness of the interrupt machine.
THEOREM TypeCorrect == Spec => []TypeOK
BY Invariance, PTL DEF IInv

\* The CPU's level 2 line and geo_cd.c's pending sources never disagree.
THEOREM LineCorrect == Spec => []LineFollowsPending
BY Invariance, PTL DEF IInv

\* Every pending source is visible at FF000F.
THEOREM FlagCorrect == Spec => []PendingIsFlagged
BY Invariance, PTL DEF IInv

\* No instruction runs with an unmasked line asserted.
THEOREM PreciseCorrect == Spec => []PreciseInterrupts
BY Invariance, PTL DEF IInv
(***************************************************************************)
(* What a step does.                                                       *)
(***************************************************************************)

\* The frame on top of the stack, and the source its vector stands for, which
\* this step consumes.
Consumed ==
  LET vec == Head(frames').vec IN
  /\ vec = DecoderVector => "decoder" \in pending \ pending'
  /\ vec = CommVector    => "comm" \in pending \ pending'
  /\ vec = TimerVector   => TimerLevel \in virq \ virq'
  /\ vec = VblVector     => VblLevel \in virq \ virq'

\* No source is dropped except the one whose vector is on top of the stack.
ServesOne ==
  \A s \in pending \ pending' :
    /\ pending' = pending \ {s}
    /\ Head(frames').vec = IF s = "decoder" THEN DecoderVector ELSE CommVector

\* An interrupt check pushes nothing and serves nothing, or pushes one frame
\* whose source it consumes, and drops no other.  That level 2 stands only
\* while a source is pending is what keeps vector 22 from being spurious.
LEMMA CheckServes ==
  ASSUME TypeOK, LineFollowsPending,
         NEW mask \in 0..7, NEW stack \in Seq(Frame), NEW halt \in BOOLEAN,
         CheckInterrupts(mask, stack, halt)
  PROVE  \/ Len(frames') = Len(stack) /\ pending' = pending
         \/ Len(frames') = Len(stack) + 1 /\ Consumed /\ ServesOne
<1>1. CASE frames' = stack /\ pending' = pending
  BY <1>1
<1>2. CASE \E level \in Lines :
             /\ Selects(level, mask)
             /\ IntAck(level)
             /\ frames' = <<[vec |-> VectorOf(level), sr |-> mask]>> \o stack
  <2>1. PICK level \in Lines :
             /\ level \in virq
             /\ IntAck(level)
             /\ frames' = <<[vec |-> VectorOf(level), sr |-> mask]>> \o stack
    BY <1>2 DEF Selects
  <2> DEFINE frame == [vec |-> VectorOf(level), sr |-> mask]
  <2>2. frame \in Frame
    BY DEF Frame, VectorOf, Lines, Vectors, DecoderVector, CommVector,
       TimerVector, VblVector
  <2>3. frame.vec = VectorOf(level)
    OBVIOUS
  <2> HIDE DEF frame
  <2>4. Len(frames') = Len(stack) + 1 /\ Head(frames') = frame
    BY <2>1, <2>2 DEF frame
  <2>5. CASE level = CdLevel
    <3>1. pending # {} /\ Served \in pending
      BY <2>1, <2>5 DEF LineFollowsPending, Served, TypeOK, Source
    <3>2. pending' = pending \ {Served}
      BY <2>1, <2>5 DEF IntAck
    <3>3. frame.vec = IF Served = "decoder" THEN DecoderVector ELSE CommVector
      BY <2>3, <2>5 DEF VectorOf
    <3>4. Consumed
      BY <2>4, <3>1, <3>2, <3>3
      DEF Consumed, Served, DecoderVector, CommVector, TimerVector, VblVector
    <3>5. ServesOne
      BY <2>4, <3>1, <3>2, <3>3 DEF ServesOne
    <3> QED
      BY <2>4, <3>4, <3>5
  <2>6. CASE level # CdLevel
    <3>1. pending' = pending /\ virq' = virq \ {level}
      BY <2>1, <2>6 DEF IntAck
    <3>2. Consumed /\ ServesOne
      BY <2>1, <2>3, <2>4, <2>6, <3>1
      DEF Consumed, ServesOne, VectorOf, Lines, DecoderVector, CommVector,
          TimerVector, VblVector
    <3> QED
      BY <2>4, <3>2
  <2> QED
    BY <2>5, <2>6
<1>3. QED BY <1>1, <1>2 DEF CheckInterrupts

\* The same of each instruction that checks for interrupts: only an RTE pops.
LEMMA ServingStep ==
  ASSUME IInv,
         \/ BeginExecute
         \/ Rte
         \/ \E mask \in SrMasks : WriteSr(mask) \/ Stop(mask)
  PROVE  \/ ~Rte /\ Len(frames') = Len(frames) /\ pending' = pending
         \/ Len(frames') < Len(frames) /\ pending' = pending
         \/ Taken /\ Consumed /\ ServesOne
<1>1. CASE Rte
  <2>1. Head(frames) \in Frame /\ Tail(frames) \in Seq(Frame)
    BY <1>1 DEF Rte, IInv, TypeOK
  <2>2. Len(Tail(frames)) = Len(frames) - 1 /\ Len(frames) \in Nat
    BY <1>1 DEF Rte, IInv, TypeOK
  <2>3. Head(frames).sr \in 0..7
    BY <2>1 DEF Frame
  <2>4. \/ Len(frames') = Len(Tail(frames)) /\ pending' = pending
        \/ Len(frames') = Len(Tail(frames)) + 1 /\ Consumed /\ ServesOne
    BY <1>1, <2>1, <2>3, CheckServes DEF Rte, IInv
  <2> QED
    BY <1>1, <2>2, <2>4 DEF Taken
<1>2. CASE ~Rte
  <2>1. PICK mask \in 0..7, halt \in BOOLEAN :
             CheckInterrupts(mask, frames, halt)
    BY <1>2, SrMasksAssumption
    DEF BeginExecute, WriteSr, Stop, IInv, TypeOK
  <2>2. \/ Len(frames') = Len(frames) /\ pending' = pending
        \/ Len(frames') = Len(frames) + 1 /\ Consumed /\ ServesOne
    BY <2>1, CheckServes DEF IInv, TypeOK
  <2>3. Len(frames) \in Nat
    BY DEF IInv, TypeOK
  <2> QED
    BY <1>2, <2>2, <2>3 DEF Taken
<1> QED
  BY <1>1, <1>2

\* Every other step keeps the stack, or drops it in a reset, and a source
\* leaves the pending set only with its status bit.
LEMMA OtherStep ==
  ASSUME IInv, [Next]_vars
  PROVE  \/ BeginExecute
         \/ Rte
         \/ \E mask \in SrMasks : WriteSr(mask) \/ Stop(mask)
         \/ /\ Len(frames') <= Len(frames)
            /\ \A s \in pending \ pending' : s \notin irqMask'
<1>1. Len(frames) \in Nat
  BY DEF IInv, TypeOK
<1>2. CASE WatchdogReset \/ FrontendReset
  BY <1>1, <1>2 DEF WatchdogReset, FrontendReset, Reset
<1>3. ASSUME NEW sources \in SUBSET Source, WriteCdIrqAck(sources)
      PROVE  /\ frames' = frames
             /\ \A s \in pending \ pending' : s \notin irqMask'
  BY <1>3 DEF WriteCdIrqAck
<1>4. ASSUME NEW decoded \in BOOLEAN, CdTick(decoded)
      PROVE  frames' = frames /\ pending \subseteq pending'
  BY <1>4 DEF CdTick, IrqSet
<1>5. CASE \/ Idle
           \/ \E sources \in SUBSET Source : WriteIrqMask1(sources)
           \/ \E lines \in SUBSET {VblLevel, TimerLevel} : WriteIrqAck(lines)
           \/ \E on \in BOOLEAN : WriteIrqMask2(on) \/ WriteCdIrqEn(on)
           \/ \E from, to \in Turn : Quiet(from, to)
           \/ Timer
           \/ Vbl
           \/ UNCHANGED vars
  <2>1. frames' = frames /\ pending' = pending
    BY <1>5
    DEF Idle, WriteIrqMask1, WriteIrqAck, WriteIrqMask2, WriteCdIrqEn, Quiet,
        Timer, Vbl, vars, cdVars, cpuVars
  <2> QED
    BY <1>1, <2>1
<1>6. CASE Cpu
  BY <1>1, <1>3, <1>5, <1>6 DEF Cpu
<1>7. CASE Devices
  BY <1>1, <1>2, <1>4, <1>5, <1>7 DEF Devices, WatchdogIncrement, Turn
<1> QED
  BY <1>2, <1>5, <1>6, <1>7 DEF Next

\* The 68K never takes a vector whose source was not waiting for it.
THEOREM VectorCorrect == Spec => VectorMatchesSource
<1>1. IInv /\ [Next]_vars /\ Taken => Consumed
  <2> SUFFICES ASSUME IInv, [Next]_vars, Taken PROVE Consumed
    OBVIOUS
  <2>1. Len(frames) \in Nat /\ (Len(frames') > Len(frames) \/ Rte)
    BY DEF IInv, TypeOK, Taken
  <2>2. CASE Rte
    BY <2>2, ServingStep, <2>1 DEF Taken
  <2>3. CASE ~Rte
    <3>1. \/ BeginExecute
          \/ \E mask \in SrMasks : WriteSr(mask) \/ Stop(mask)
          \/ Len(frames') <= Len(frames)
      BY <2>3, OtherStep
    <3> QED
      BY <2>1, <2>3, <3>1, ServingStep
  <2> QED
    BY <2>2, <2>3
<1>2. IInv /\ [Next]_vars => [Taken => Consumed]_vars
  BY <1>1
<1> QED
  BY <1>2, Invariance, PTL DEF Spec, VectorMatchesSource, Consumed

\* A CD source is served through its own vector, acknowledged by name or
\* wiped by a reset: nothing else clears it.
THEOREM SourceCorrect == Spec => NoSourceLost
<1> DEFINE Kept ==
      \A s \in pending \ pending' :
        \/ s \notin irqMask'
        \/ /\ Taken
           /\ pending' = pending \ {s}
           /\ Head(frames').vec = IF s = "decoder" THEN DecoderVector
                                                   ELSE CommVector
<1>1. IInv /\ [Next]_vars => Kept
  BY OtherStep, ServingStep DEF ServesOne
<1>2. IInv /\ [Next]_vars => [Kept]_vars
  BY <1>1
<1> QED
  BY <1>2, Invariance, PTL DEF Spec, NoSourceLost

\* A latched VBL survives every step but a reset until the mask opens, and
\* reaches the 68K's line in the step that opens it.
THEOREM LatchCorrect == Spec => VblLatchHolds
<1> DEFINE Held ==
      vblPending /\ ~ResetStep =>
        IF vblEnabled' THEN VblLevel \in virq' /\ ~vblPending'
                       ELSE vblPending'
<1>1. ASSUME IInv, Next, vblPending, ~ResetStep
      PROVE  IF vblEnabled' THEN VblLevel \in virq' /\ ~vblPending'
                            ELSE vblPending'
  <2>1. ~vblEnabled
    BY <1>1 DEF IInv, LatchedVblIsMasked
  <2>2. ASSUME NEW on \in BOOLEAN, WriteIrqMask2(on)
        PROVE  IF vblEnabled' THEN VblLevel \in virq' /\ ~vblPending'
                              ELSE vblPending'
    BY <1>1, <2>2 DEF WriteIrqMask2
  <2>3. CASE \A on \in BOOLEAN : ~WriteIrqMask2(on)
    <3>1. UNCHANGED vblEnabled /\ vblPending'
      BY <1>1, <2>1, <2>3
      DEF Next, Cpu, Devices, BeginExecute, Idle, Rte, WriteSr, Stop,
          WriteCdIrqAck, WriteIrqMask1, WriteIrqAck, WriteCdIrqEn, CdTick,
          WatchdogIncrement, Quiet, Timer, Vbl, ResetStep, cdVars
    <3> QED
      BY <2>1, <3>1
  <2> QED
    BY <2>2, <2>3
<1>2. IInv /\ [Next]_vars => [Held]_vars
  BY <1>1
<1> QED
  BY <1>2, Invariance, PTL DEF Spec, VblLatchHolds
=============================================================================

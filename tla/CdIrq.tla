------------------------------- MODULE CdIrq -------------------------------
(***************************************************************************)
(* Interrupt delivery on the Neo Geo CD: the interrupt controller of       *)
(* geo_cd.c (two CD sources multiplexed on 68K level 2), the VBL latch it  *)
(* shares with the LSPC, and the 68K's virtual interrupt lines.            *)
(*                                                                         *)
(* One iteration of the loop in geo_exec is the cycle of `turn':           *)
(*   "check"    m68k_execute samples the lines and may take an interrupt   *)
(*   "insn"     one instruction runs (or the CPU is stopped)               *)
(*   "watchdog" geo_watchdog_increment, which may reset the machine        *)
(*   "timer"    the IRQ2 counter may reach zero                            *)
(*   "lspc"     geo_lspc_run may cross the VBL point                       *)
(*   "cd"       geo_cd_tick may complete a sector period                   *)
(* Cycle counts are abstracted: whether a device fires is a choice.        *)
(***************************************************************************)
EXTENDS Naturals, Sequences

CONSTANTS
  SrMasks,  \* interrupt masks that software writes to the status register
  MaxNest   \* bound: a handler nested this deep does not lower its mask

ASSUME SrMasksAssumption == SrMasks \subseteq 0..7
ASSUME MaxNestAssumption == MaxNest \in Nat

VARIABLES
  turn,        \* the step of the geo_exec loop that comes next
  pending,     \* cd_pending_irq: CD sources raised and not yet served
  irqMask,     \* cd_irq_mask: sources read back at FF000F
  irqEnabled,  \* cd_irq_enabled: FF0181
  gates,       \* irq_mask1 (FF0002): sources with both their bits set
  vblEnabled,  \* irq_mask2 (FF0004): bits 4 and 5 both set
  vblPending,  \* vbl_pending: a VBL latched while it was masked
  virq,        \* m68ki_cpu.virq_state: asserted 68K interrupt lines
  intMask,     \* FLAG_INT_MASK
  stopped,     \* CPU_STOPPED: waiting in a STOP instruction
  frames       \* exception frames on the supervisor stack, innermost first

cdVars  == <<pending, irqMask, irqEnabled, gates, vblEnabled, vblPending>>
cpuVars == <<virq, intMask, stopped, frames>>
vars    == <<turn, cdVars, cpuVars>>

Source == {"decoder", "comm"}
Turn   == {"check", "insn", "watchdog", "timer", "lspc", "cd"}

\* The 68K levels of CD mode.
VblLevel   == 1
CdLevel    == 2
TimerLevel == 3
Lines      == {VblLevel, CdLevel, TimerLevel}

DecoderVector == 21
CommVector    == 22
TimerVector   == 25
VblVector     == 26
Vectors       == {DecoderVector, CommVector, TimerVector, VblVector}

Frame == [vec : Vectors, sr : 0..7]

Init ==
  /\ turn = "check"
  /\ pending = {}
  /\ irqMask = {}
  /\ irqEnabled = FALSE
  /\ gates = {}
  /\ vblEnabled = FALSE
  /\ vblPending = FALSE
  /\ virq = {TimerLevel}   \* geo_reset(1) asserts IRQ_RESET, level 3
  /\ intMask = 7
  /\ stopped = FALSE
  /\ frames = <<>>

(***************************************************************************)
(* Building blocks.                                                        *)
(***************************************************************************)

\* Level 2 is asserted exactly while some CD source is pending.
CdUpdateInterrupts(lines, sources) ==
  IF sources = {} THEN lines \ {CdLevel} ELSE lines \cup {CdLevel}

\* Slip: a source whose status bit is still set is not raised again.
IrqSetOnce(sources) ==
  LET fresh == sources \ irqMask IN
  /\ irqMask' = irqMask \cup sources
  /\ pending' = pending \cup fresh
  /\ virq' = IF fresh = {} THEN virq
             ELSE CdUpdateInterrupts(virq, pending \cup fresh)

\* The sources that a sector period raises, as status bits and as interrupts.
IrqSet(sources) ==
  /\ irqMask' = irqMask \cup sources
  /\ pending' = pending \cup sources
  /\ virq' = IF sources = {} THEN virq
             ELSE CdUpdateInterrupts(virq, pending \cup sources)

\* The source that a level 2 acknowledge serves: the decoder goes first.
Served == IF "decoder" \in pending THEN "decoder" ELSE "comm"

VectorOf(level) ==
  CASE level = VblLevel   -> VblVector
    [] level = CdLevel    -> IF Served = "decoder" THEN DecoderVector
                                                   ELSE CommVector
    [] level = TimerLevel -> TimerVector

\* Slip: the source is cleared but level 2 is not re-evaluated.
IntAckForgetsLine(level) ==
  /\ pending' = IF level = CdLevel THEN pending \ {Served} ELSE pending
  /\ virq' = virq \ {level}

\* Slip: a level 2 acknowledge drops both sources.
IntAckDropsBoth(level) ==
  /\ pending' = IF level = CdLevel THEN {} ELSE pending
  /\ virq' = virq \ {level}

IntAck(level) ==
  /\ pending' = IF level = CdLevel THEN pending \ {Served} ELSE pending
  /\ virq' = IF level = CdLevel
             THEN CdUpdateInterrupts(virq \ {level}, pending')
             ELSE virq \ {level}

\* Slip: any line above the mask will do.
SelectsAnyAbove(level, mask) == level \in virq /\ level > mask

\* The CPU sees only the highest asserted line, and only above its mask.
Selects(level, mask) ==
  /\ level \in virq
  /\ level > mask
  /\ \A other \in virq : other <= level

\* m68ki_check_interrupts with interrupt mask `mask', stack `stack' and
\* stop state `halt' in force.
CheckInterrupts(mask, stack, halt) ==
  \/ /\ \A level \in Lines : ~Selects(level, mask)
     /\ intMask' = mask
     /\ frames' = stack
     /\ stopped' = halt
     /\ UNCHANGED <<pending, virq>>
  \/ \E level \in Lines :
       /\ Selects(level, mask)
       /\ IntAck(level)
       /\ intMask' = level
       /\ frames' = <<[vec |-> VectorOf(level), sr |-> mask]>> \o stack
       /\ stopped' = FALSE

(***************************************************************************)
(* The 68K.                                                                *)
(***************************************************************************)

BeginExecute ==
  /\ turn = "check"
  /\ turn' = "insn"
  /\ CheckInterrupts(intMask, frames, stopped)
  /\ UNCHANGED <<irqMask, irqEnabled, gates, vblEnabled, vblPending>>

\* An instruction that runs to completion and hands over to the devices.
Instruction ==
  /\ turn = "insn"
  /\ ~stopped
  /\ turn' = "watchdog"

\* An instruction that touches nothing modelled here, or a stopped CPU.
Idle ==
  /\ turn = "insn"
  /\ turn' = "watchdog"
  /\ UNCHANGED <<cdVars, cpuVars>>

WriteSr(mask) ==
  /\ Instruction
  /\ mask >= intMask \/ Len(frames) < MaxNest
  /\ CheckInterrupts(mask, frames, FALSE)
  /\ UNCHANGED <<irqMask, irqEnabled, gates, vblEnabled, vblPending>>

\* STOP, which the speed hack patches into the BIOS's busy-wait loops.
Stop(mask) ==
  /\ Instruction
  /\ mask >= intMask \/ Len(frames) < MaxNest
  /\ CheckInterrupts(mask, frames, TRUE)
  /\ UNCHANGED <<irqMask, irqEnabled, gates, vblEnabled, vblPending>>

Rte ==
  /\ Instruction
  /\ frames # <<>>
  /\ CheckInterrupts(Head(frames).sr, Tail(frames), FALSE)
  /\ UNCHANGED <<irqMask, irqEnabled, gates, vblEnabled, vblPending>>

\* Slip: the acknowledge leaves level 2 as it was.
WriteCdIrqAckKeepsLine(sources) ==
  /\ Instruction
  /\ irqMask' = irqMask \ sources
  /\ pending' = pending \ sources
  /\ UNCHANGED <<virq, irqEnabled, gates, vblEnabled, vblPending,
                 intMask, stopped, frames>>

\* FF000F: acknowledge CD sources.
WriteCdIrqAck(sources) ==
  /\ Instruction
  /\ irqMask' = irqMask \ sources
  /\ pending' = pending \ sources
  /\ virq' = CdUpdateInterrupts(virq, pending')
  /\ UNCHANGED <<irqEnabled, gates, vblEnabled, vblPending,
                 intMask, stopped, frames>>

\* 3C000C: acknowledge the VBL and timer lines.
WriteIrqAck(lines) ==
  /\ Instruction
  /\ virq' = virq \ lines
  /\ UNCHANGED <<cdVars, intMask, stopped, frames>>

\* FF0002.
WriteIrqMask1(open) ==
  /\ Instruction
  /\ gates' = open
  /\ UNCHANGED <<pending, irqMask, irqEnabled, vblEnabled, vblPending, cpuVars>>

\* Slip: opening the mask forgets the latched VBL.
WriteIrqMask2Forgets(ready) ==
  /\ Instruction
  /\ vblEnabled' = ready
  /\ UNCHANGED <<vblPending, virq, pending, irqMask, irqEnabled, gates,
                 intMask, stopped, frames>>

\* FF0004: opening the VBL mask fires a latched VBL.
WriteIrqMask2(ready) ==
  /\ Instruction
  /\ vblEnabled' = ready
  /\ vblPending' = (vblPending /\ ~ready)
  /\ virq' = IF vblPending /\ ready THEN virq \cup {VblLevel} ELSE virq
  /\ UNCHANGED <<pending, irqMask, irqEnabled, gates, intMask, stopped, frames>>

\* FF0181: the interrupt half of the register.
WriteCdIrqEn(on) ==
  /\ Instruction
  /\ irqEnabled' = on
  /\ UNCHANGED <<pending, irqMask, gates, vblEnabled, vblPending, cpuVars>>

(***************************************************************************)
(* The devices, in the order geo_exec runs them.                           *)
(***************************************************************************)

\* geo_reset: the 68K first, the CD controller last.
Reset(hard) ==
  /\ pending' = {}
  /\ irqMask' = {}
  /\ irqEnabled' = FALSE
  /\ gates' = {}
  /\ vblEnabled' = FALSE
  /\ vblPending' = FALSE
  /\ virq' = IF hard THEN {TimerLevel} ELSE {}
  /\ intMask' = 7
  /\ stopped' = FALSE
  /\ frames' = <<>>

\* The frontend resets between two frames.
FrontendReset ==
  /\ turn = "check"
  /\ UNCHANGED turn
  /\ Reset(FALSE)

WatchdogReset ==
  /\ turn = "watchdog"
  /\ turn' = "timer"
  /\ Reset(FALSE)

\* The device of this turn has nothing to do.
Quiet(from, to) ==
  /\ turn = from
  /\ turn' = to
  /\ UNCHANGED <<cdVars, cpuVars>>

WatchdogIncrement == Quiet("watchdog", "timer") \/ WatchdogReset

Timer ==
  /\ turn = "timer"
  /\ turn' = "lspc"
  /\ virq' = virq \cup {TimerLevel}
  /\ UNCHANGED <<cdVars, intMask, stopped, frames>>

\* Slip: the VBL is latched whether or not it is masked.
VblAlwaysLatches ==
  /\ turn = "lspc"
  /\ turn' = "cd"
  /\ vblPending' = TRUE
  /\ UNCHANGED <<pending, irqMask, irqEnabled, gates, vblEnabled, cpuVars>>

Vbl ==
  /\ turn = "lspc"
  /\ turn' = "cd"
  /\ IF vblEnabled
     THEN /\ virq' = virq \cup {VblLevel}
          /\ UNCHANGED vblPending
     ELSE /\ vblPending' = TRUE
          /\ UNCHANGED virq
  /\ UNCHANGED <<pending, irqMask, irqEnabled, gates, vblEnabled,
                 intMask, stopped, frames>>

\* A sector period ends. `decoded' stands for the decoder's own condition:
\* it is enabled, DECIEN is set and DECI is pending while the drive plays.
CdTick(decoded) ==
  /\ turn = "cd"
  /\ turn' = "check"
  /\ IrqSet({s \in gates : /\ s = "decoder" => decoded
                           /\ s = "comm" => irqEnabled})
  /\ UNCHANGED <<irqEnabled, gates, vblEnabled, vblPending,
                 intMask, stopped, frames>>

Cpu ==
  \/ BeginExecute
  \/ Idle
  \/ Rte
  \/ \E mask \in SrMasks : WriteSr(mask) \/ Stop(mask)
  \/ \E sources \in SUBSET Source : WriteCdIrqAck(sources) \/ WriteIrqMask1(sources)
  \/ \E lines \in SUBSET {VblLevel, TimerLevel} : WriteIrqAck(lines)
  \/ \E on \in BOOLEAN : WriteIrqMask2(on) \/ WriteCdIrqEn(on)

Devices ==
  \/ WatchdogIncrement
  \/ Timer \/ Quiet("timer", "lspc")
  \/ Vbl \/ Quiet("lspc", "cd")
  \/ (\E decoded \in BOOLEAN : CdTick(decoded)) \/ Quiet("cd", "check")

Next == Cpu \/ Devices \/ FrontendReset

Spec == Init /\ [][Next]_vars

(***************************************************************************)
(* geo_exec always runs on; every pass adds master cycles, so the LSPC     *)
(* reaches the VBL line and the sector counter its rate again and again.   *)
(***************************************************************************)
Fairness ==
  /\ WF_vars(Cpu \/ Devices)
  /\ SF_vars(Vbl)
  /\ SF_vars(\E decoded \in BOOLEAN : CdTick(decoded))

FairSpec == Spec /\ Fairness

(***************************************************************************)
(* Properties.                                                             *)
(***************************************************************************)

\* Every variable stays in its domain; in particular RTE restores an
\* interrupt mask, never another word of the frame.
TypeOK ==
  /\ turn \in Turn
  /\ pending \subseteq Source
  /\ irqMask \subseteq Source
  /\ irqEnabled \in BOOLEAN
  /\ gates \subseteq Source
  /\ vblEnabled \in BOOLEAN
  /\ vblPending \in BOOLEAN
  /\ virq \subseteq Lines
  /\ intMask \in 0..7
  /\ stopped \in BOOLEAN
  /\ frames \in Seq(Frame)

\* The 68K's level 2 line, kept by the CPU core, and the set of pending CD
\* sources, kept by geo_cd.c and reset by separate calls, never disagree.
LineFollowsPending == (CdLevel \in virq) <=> (pending # {})

\* Software that polls FF000F sees every source that is still pending.
PendingIsFlagged == pending \subseteq irqMask

\* A latched VBL never waits behind an open mask.
LatchedVblIsMasked == vblPending => ~vblEnabled

\* No instruction runs while a line above the CPU's mask is asserted, even
\* though the devices assert lines in the middle of a geo_exec pass.
PreciseInterrupts ==
  (turn = "insn") => \A level \in virq : level <= intMask

ResetStep == WatchdogReset \/ FrontendReset

\* An interrupt is taken: a frame is pushed, possibly in place of the one an
\* RTE has just popped.
Taken ==
  \/ Len(frames') > Len(frames)
  \/ Rte /\ Len(frames') = Len(frames)

\* The 68K never jumps through a vector whose source was not waiting: 21 and
\* 22 each consume their own pending source (22 is also what int_ack returns
\* when nothing is pending), 25 and 26 their own line.
VectorMatchesSource ==
  [][Taken =>
       LET vec == Head(frames').vec IN
       /\ vec = DecoderVector => "decoder" \in pending \ pending'
       /\ vec = CommVector    => "comm" \in pending \ pending'
       /\ vec = TimerVector   => TimerLevel \in virq \ virq'
       /\ vec = VblVector     => VblLevel \in virq \ virq']_vars

\* A raised CD source is served through its own vector, acknowledged by
\* name at FF000F, or wiped by a reset; serving one source never drops the
\* other, although both hang on one 68K line.
NoSourceLost ==
  [][\A s \in pending \ pending' :
       \/ s \notin irqMask'
       \/ /\ Taken
          /\ pending' = pending \ {s}
          /\ Head(frames').vec = IF s = "decoder" THEN DecoderVector
                                                  ELSE CommVector]_vars

\* A VBL latched behind a closed mask stays latched until the mask opens,
\* and is on the 68K's line in the very step that opens it.
VblLatchHolds ==
  [][vblPending /\ ~ResetStep =>
       IF vblEnabled' THEN VblLevel \in virq' /\ ~vblPending'
                      ELSE vblPending']_vars

\* The speed hack replaces BIOS wait loops by STOP with an open mask: a CPU
\* stopped that way runs again whenever an interrupt source is enabled.
SpeedHackWakes ==
  (stopped /\ intMask = 0 /\ (vblEnabled \/ ("comm" \in gates /\ irqEnabled)))
    ~> ~stopped

(***************************************************************************)
(* geo_cd.c:157-158 says that both sources require cd_irq_enabled.  The    *)
(* code tests it for the communication interrupt only.                     *)
(***************************************************************************)
DecoderNeedsEnable ==
  [][("decoder" \in pending' \ pending) => irqEnabled]_vars

=============================================================================

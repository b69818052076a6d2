------------------------------ MODULE Scheduler ------------------------------
(* geo_exec: one call runs the system for one video frame.  The 68K executes  *)
(* an instruction, everything it is in step with is brought up to the same    *)
(* time (watchdog, interval timer, video beam), and then the Z80 and the      *)
(* YM2610 run until they have caught up.  All times are in master cycles      *)
(* unless said otherwise.  The scheduler has no state beyond its counters:    *)
(* what runs next follows from them.                                          *)
EXTENDS Integers, FiniteSets

CONSTANTS
  LineCycles,            \* M68K_CYC_PER_LINE
  Lines,                 \* LSPC_SCANLINES
  BorderBottom,          \* LSPC_LINE_BORDER_BOTTOM
  VblCycle, ScanCycle, NextCycle,   \* events of a line: 29, 573, 712
  DivZ80, DivYm,         \* DIV_Z80, DIV_YM2610
  SampleCap,             \* stereo samples in ymbuf and in the frontend's abuf
  WatchdogCycs,          \* WATCHDOG_MCYCS
  CpuCosts, MaxCpuCost,  \* what geo_m68k_run(1) returns, and its bound
  Z80Costs, MaxZ80Cost,  \* what geo_z80_run(1) returns, and its bound
  HalfWrap,              \* 2^16: range of REG_TIMERHIGH and REG_TIMERLOW
  Modes,                 \* values of the timer bits of REG_LSPCMODE
  Programs               \* the register writes of a program, for each program

(* The register writes one instruction may make. *)
NoWrite == [reg |-> "none"]
TimerWrites ==
       {[reg |-> "irqack"]}
  \cup [reg : {"timerhigh", "timerlow"}, val : 0 .. HalfWrap - 1]
  \cup [reg : {"mode"}, val : Modes]
WatchdogWrites == [reg : {"kick", "guard", "unguard"}]
Writes == {NoWrite} \cup TimerWrites \cup WatchdogWrites

DivM68k == 2
FrameMcycs == DivM68k * LineCycles * Lines
Wrap == HalfWrap * HalfWrap

ASSUME GeometryAssumption ==
  /\ LineCycles \in Nat \ {0} /\ Lines \in Nat \ {0}
  /\ BorderBottom \in 0 .. Lines - 2
  /\ VblCycle \in 0 .. LineCycles - 1
  /\ ScanCycle \in 0 .. LineCycles - 1
  /\ NextCycle \in 0 .. LineCycles - 1
  /\ VblCycle < ScanCycle /\ ScanCycle < NextCycle

(* How far the 68K can run ahead of the Z80, or over the end of a frame, and  *)
(* how far the Z80 can then run ahead of the 68K.                             *)
CpuStep == DivM68k * MaxCpuCost
Z80Step == DivZ80 * MaxZ80Cost

(* Master cycles of a sample. *)
SampleMcycs == DivZ80 * DivYm

(* An instruction is shorter than a line, a Z80 instruction shorter than a    *)
(* sample, and both are far shorter than a frame.                             *)
ASSUME CostAssumption ==
  /\ MaxCpuCost \in 1 .. LineCycles - 1 /\ CpuCosts \subseteq 1 .. MaxCpuCost
  /\ DivYm \in Nat \ {0} /\ DivZ80 \in Nat \ {0}
  /\ MaxZ80Cost \in 1 .. DivYm /\ Z80Costs \subseteq 1 .. MaxZ80Cost
  /\ CpuStep + Z80Step <= FrameMcycs

(* The buffers are large enough for a frame that is overrun as far as it can  *)
(* be, with what the divider kept of the frame before: 941 samples, and there *)
(* is room for 1024.                                                          *)
ASSUME BufferAssumption ==
  /\ SampleCap \in Nat
  /\ FrameMcycs + CpuStep + Z80Step + (SampleMcycs - DivZ80)
       <= SampleMcycs * (SampleCap + 1)

ASSUME TimerAssumption ==
  /\ HalfWrap \in Nat \ {0}
  /\ Modes \subseteq SUBSET {"enable", "write", "vblank", "count0"}

ASSUME ProgramAssumption == Programs \subseteq SUBSET Writes

ASSUME WatchdogAssumption == WatchdogCycs \in Nat \ {0}

VARIABLES
  mcycs, zcycs,      \* how far the 68K and the Z80 are into the frame
  ymcycs,            \* Z80 cycles towards the next sample
  ymsamps,           \* samples of this frame
  watchdog, watchdogOn,
  line, cyc,         \* lspc.scanline, lspc.cyc
  ctrl, reload, counter, frags,    \* ngsys.irq2_*
  timerIrq,          \* request line of the timer interrupt
  oc,                \* 1: the 68K's clock divider is off
  program            \* the register writes that the loaded program makes

(* Ghosts: what software and the watchdog did last, whether the beam still    *)
(* has the phase the frame started it with, and the vertical blanks of the    *)
(* frame.                                                                     *)
VARIABLES last, aligned, vbls

clocks == <<mcycs, zcycs, ymcycs, ymsamps>>
timer == <<ctrl, reload, counter, frags, timerIrq>>
beam == <<line, cyc>>
settings == <<oc, program>>
vars == <<clocks, timer, beam, watchdog, watchdogOn, settings, last, aligned, vbls>>

(* 68K cycles as the base clock counts them: >> oc. *)
Halved(c) == IF oc = 1 THEN c \div 2 ELSE c

Unit == IF oc = 1 THEN 4 ELSE 2

Init ==
  /\ mcycs = 0 /\ zcycs = 0 /\ ymcycs = 0 /\ ymsamps = 0
  /\ watchdog = 0 /\ watchdogOn \in BOOLEAN
  /\ line = 0 /\ cyc = 0
  /\ ctrl = {} /\ reload = 0 /\ counter = 0 /\ frags = 0
  /\ timerIrq = FALSE
  /\ oc \in {0, 1} /\ program \in Programs
  /\ last = "none" /\ aligned = TRUE /\ vbls = 0

-----------------------------------------------------------------------------
Registers == [ctrl |-> ctrl, reload |-> reload, counter |-> counter]

WriteHigh(v) == [Registers EXCEPT !.reload = v * HalfWrap + (reload % HalfWrap)]

WriteLow(v) ==
  LET r == HalfWrap * (reload \div HalfWrap) + v IN
  [Registers EXCEPT !.reload = r,
                    !.counter = IF "write" \in ctrl THEN r ELSE counter]

WriteMode(m) ==
  LET fresh == "vblank" \in m \ ctrl IN
  [Registers EXCEPT
     !.ctrl = m,
     !.counter = IF fresh /\ line >= BorderBottom THEN reload ELSE counter]

AfterWrite(w) ==
  CASE w.reg = "timerhigh" -> WriteHigh(w.val)
    [] w.reg = "timerlow"  -> WriteLow(w.val)
    [] w.reg = "mode"      -> WriteMode(w.val)
    [] OTHER               -> Registers

(* What the instruction leaves in the watchdog before its time is added. *)
WatchdogOn(w) ==
  \/ w.reg = "guard"
  \/ watchdogOn /\ w.reg # "unguard"

WatchdogLeft(w) == IF w.reg \in {"kick", "guard"} THEN 0 ELSE watchdog

-----------------------------------------------------------------------------
(* The interval timer. *)

\* Slip: one bit of fraction, whatever the 68K's clock.
FragsOneBit(c) == frags + (c % 2)

\* irq2_frags once the instruction's odd cycles are in it.
FragsSum(c) == frags + (c % Unit)

(* irq2_dec: the pixel clocks that an instruction of c cycles is worth. *)
Dec(c) == (c \div Unit) + (IF FragsSum(c) >= Unit THEN 1 ELSE 0)

FragsLeft(c) == IF FragsSum(c) >= Unit THEN FragsSum(c) - Unit ELSE FragsSum(c)

\* Slip: the reload value replaces the counter at one, not at zero.
TickEarly(r, x) ==
  LET c == (x.counter - 1) % Wrap IN
  IF c = 0
  THEN [counter |-> IF "count0" \in r.ctrl THEN (r.reload - 1) % Wrap ELSE 0,
        zero |-> TRUE]
  ELSE [counter |-> c, zero |-> x.zero]

(* A pixel clock.  An unsigned counter that has passed zero without a reload  *)
(* goes on from its largest value.                                            *)
Tick(r, x) ==
  LET c == (x.counter - 1) % Wrap IN
  IF c = 0
  THEN [counter |-> IF "count0" \in r.ctrl THEN r.reload ELSE 0, zero |-> TRUE]
  ELSE [counter |-> c, zero |-> x.zero]

(* dec pixel clocks, one at a time. *)
Countdown(r, dec) ==
  LET down[i \in 0 .. dec] ==
        IF i = 0 THEN [counter |-> r.counter, zero |-> FALSE]
        ELSE Tick(r, down[i-1])
  IN down[dec]

(* Far from zero the subtraction is made at once. *)
Counted(r, dec) ==
  IF r.counter > dec THEN [counter |-> r.counter - dec, zero |-> FALSE]
  ELSE Countdown(r, dec)

-----------------------------------------------------------------------------
(* The beam. *)

Crosses(start, end, event) == start <= event /\ event < end

Beam(l, c) == [line |-> l, cyc |-> c, vbl |-> FALSE, latch |-> FALSE]

\* Slip: an event is due only when it falls strictly inside a run.
SegmentStrict(b, n) ==
  LET end == b.cyc + n
      at(event) == b.cyc < event /\ event < end
  IN [line  |-> IF at(NextCycle) THEN (b.line + 1) % Lines ELSE b.line,
      cyc   |-> end % LineCycles,
      vbl   |-> b.vbl \/ (at(VblCycle) /\ b.line = BorderBottom + 1),
      latch |-> b.latch \/ (at(ScanCycle) /\ b.line = BorderBottom)]

(* n cycles that do not go past the end of the line. *)
Segment(b, n) ==
  LET end == b.cyc + n
      at(event) == Crosses(b.cyc, end, event)
  IN [line  |-> IF at(NextCycle) THEN (b.line + 1) % Lines ELSE b.line,
      cyc   |-> end % LineCycles,
      vbl   |-> b.vbl \/ (at(VblCycle) /\ b.line = BorderBottom + 1),
      latch |-> b.latch \/ (at(ScanCycle) /\ b.line = BorderBottom)]

\* Slip: the cycles beyond the end of the line are dropped.
LspcRunOneLine(b, n) ==
  LET left == LineCycles - b.cyc IN
  Segment(b, IF n <= left THEN n ELSE left)

(* geo_lspc_run: an instruction is shorter than a line, so it crosses at most *)
(* one line's end.                                                            *)
LspcRun(b, n) ==
  LET left == LineCycles - b.cyc IN
  IF n <= left THEN Segment(b, n) ELSE Segment(Segment(b, left), n - left)

-----------------------------------------------------------------------------
(* One turn of geo_exec's loop up to the Z80: an instruction of c cycles that *)
(* makes the write w.                                                         *)

\* Slip: a stopped 68K, which is charged one cycle, does not age it.
WatchdogSumStopped(w, c) ==
  WatchdogLeft(w) + (IF WatchdogOn(w) /\ c > 1 THEN c * DivM68k ELSE 0)

WatchdogSum(w, c) ==
  WatchdogLeft(w) + (IF WatchdogOn(w) THEN c * DivM68k ELSE 0)

Bites(w, c) == WatchdogOn(w) /\ WatchdogSum(w, c) >= WatchdogCycs

\* Slip: the Z80 gets one instruction for each one of the 68K.
BehindOnce == zcycs < mcycs - DivZ80

Behind == zcycs < mcycs

\* Slip: a stopped 68K takes no time.
CpuTimeStopped(c) == IF c = 1 THEN 0 ELSE Halved(c * DivM68k)

CpuTime(c) == Halved(c * DivM68k)

M68kRun(c, w) ==
  /\ ~Behind
  /\ mcycs < FrameMcycs
  /\ mcycs' = mcycs + CpuTime(c)
  /\ watchdogOn' = WatchdogOn(w)
  /\ watchdog' = IF Bites(w, c) THEN 0 ELSE WatchdogSum(w, c)
  /\ LET r == AfterWrite(w)
         n == Counted(r, Dec(c))
         b == LspcRun(IF Bites(w, c) THEN Beam(0, 0) ELSE Beam(line, cyc),
                      Halved(c))
     IN /\ ctrl' = r.ctrl
        /\ reload' = r.reload
        /\ frags' = FragsLeft(c)
        /\ counter' = IF b.latch /\ "vblank" \in r.ctrl THEN r.reload
                      ELSE n.counter
        /\ timerIrq' = \/ timerIrq /\ w.reg # "irqack" /\ ~Bites(w, c)
                       \/ n.zero /\ "enable" \in r.ctrl
        /\ line' = b.line
        /\ cyc' = b.cyc
        /\ vbls' = vbls + (IF b.vbl THEN 1 ELSE 0)
        /\ aligned' = (aligned /\ ~Bites(w, c))
  /\ last' = IF Bites(w, c) THEN "reset"
             ELSE IF w.reg \in {"kick", "guard", "unguard"} THEN w.reg
             ELSE "none"
  /\ UNCHANGED <<zcycs, ymcycs, ymsamps, settings>>

\* Slip: the YM2610 is clocked in master cycles.
SampleUndivided(s) ==
  IF ymcycs + s * DivZ80 >= DivYm THEN <<ymcycs + s * DivZ80 - DivYm, 1>>
  ELSE <<ymcycs + s * DivZ80, 0>>

(* The YM2610's clock divider: what is left in it, and the samples made. *)
Sample(s) ==
  IF ymcycs + s >= DivYm THEN <<ymcycs + s - DivYm, 1>> ELSE <<ymcycs + s, 0>>

(* A turn of the inner loop: the Z80 runs one instruction of s cycles. *)
Z80Run(s) ==
  /\ Behind
  /\ zcycs' = zcycs + s * DivZ80
  /\ ymcycs' = Sample(s)[1]
  /\ ymsamps' = ymsamps + Sample(s)[2]
  /\ UNCHANGED <<mcycs, timer, beam, watchdog, watchdogOn, settings, last,
                 aligned, vbls>>

(* The overrun is credited to the next frame. *)
Wrapped(t) == t % FrameMcycs

FrameEnd ==
  /\ ~Behind
  /\ mcycs >= FrameMcycs
  /\ mcycs' = Wrapped(mcycs)
  /\ zcycs' = Wrapped(zcycs)
  /\ ymsamps' = 0
  /\ vbls' = 0
  /\ UNCHANGED <<ymcycs, timer, beam, watchdog, watchdogOn, settings, last,
                 aligned>>

Next ==
  \/ \E c \in CpuCosts, w \in program \cup {NoWrite} : M68kRun(c, w)
  \/ \E s \in Z80Costs : Z80Run(s)
  \/ FrameEnd

(* The frontend calls geo_exec for every frame. *)
Spec == Init /\ [][Next]_vars /\ WF_vars(Next)
-----------------------------------------------------------------------------
(* Properties. *)

(* The type invariant of all but the timer, which TimerSpec is about.         *)
TypeOK ==
  /\ mcycs \in 0 .. FrameMcycs + CpuStep - 1
  /\ zcycs \in 0 .. FrameMcycs + CpuStep + Z80Step - 1
  /\ ymcycs \in 0 .. DivYm - 1
  /\ ymsamps \in Nat
  /\ watchdog \in 0 .. WatchdogCycs - 1 /\ watchdogOn \in BOOLEAN
  /\ line \in 0 .. Lines - 1 /\ cyc \in 0 .. LineCycles - 1
  /\ oc \in {0, 1} /\ program \in Programs
  /\ last \in {"none", "kick", "guard", "unguard", "reset"}
  /\ aligned \in BOOLEAN /\ vbls \in Nat

(* The 68K and the Z80 are never further apart than one instruction of the    *)
(* one that is ahead, across the ends of frames too: the two counters are     *)
(* reduced separately, after the loop has let the Z80 catch up.               *)
InStep ==
  /\ mcycs <= zcycs + CpuStep
  /\ zcycs < mcycs + Z80Step

(* The samples of a frame fit in ymbuf, which geo_ymfm_exec fills without     *)
(* looking at its size, whatever the Z80 executes and however far the frame   *)
(* before overran: nothing but the scheduler's arithmetic bounds them.        *)
SamplesFit == ymsamps <= SampleCap

(* Where the beam is in its frame: the line counter is one ahead of the line  *)
(* from NextCycle to the line's end.                                          *)
BeamPos ==
  ((line - (IF cyc > NextCycle THEN 1 ELSE 0)) % Lines) * LineCycles + cyc

(* At the base clock the beam and the frontend's frames keep step: the beam   *)
(* is where the frame's time says, however the instructions fall on the       *)
(* lines.  Only a watchdog reset, which restarts the beam in the middle of a  *)
(* frame, puts them out of phase.                                             *)
BeamInStep ==
  oc = 0 /\ aligned =>
    DivM68k * BeamPos = mcycs % FrameMcycs

(* Each call of geo_exec delivers one vertical blank, not none and not two.   *)
OneVblPerFrame ==
  oc = 0 /\ aligned =>
    vbls = IF mcycs > DivM68k * ((BorderBottom + 1) * LineCycles + VblCycle)
           THEN 1 ELSE 0

(* The interval timer of geo_exec, which works with whole pixel clocks and a  *)
(* fraction, in bulk or one by one, implements the exact timer of             *)
(* IntervalTimer at both clocks: after any sequence of instructions and       *)
(* register writes it has neither gained nor lost a cycle.                    *)
Exact == INSTANCE IntervalTimer
           WITH now <- IF oc = 1 THEN mcycs ELSE mcycs \div DivM68k,
                count <- counter, phase <- frags, unit <- Unit, mode <- ctrl,
                request <- timerIrq
TimerSpec == [][Exact!Next]_<<mcycs, timer>>

(* A system that has the watchdog on and stops kicking it is reset, whatever  *)
(* the 68K is doing, even when it is stopped.                                 *)
WatchdogBites == []<>(last \in {"kick", "guard", "reset"} \/ ~watchdogOn)

(* geo_exec returns: no combination of costs keeps it in its loops.           *)
FramesEnd == []<><<FrameEnd>>_vars
=============================================================================

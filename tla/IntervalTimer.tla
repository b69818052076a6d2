---------------------------- MODULE IntervalTimer ----------------------------
(* What the programmer's timer of the Neo Geo promises: a counter of pixel    *)
(* clocks that is exact however the 68K's instructions divide the time.  The  *)
(* pixel clock runs free (phase is where it stands, in cycles); the counter   *)
(* reaches zero count pixel clocks from now, and in automatic mode again      *)
(* every reload pixel clocks.                                                 *)
EXTENDS Integers

CONSTANTS Wrap,       \* the counter's range
          HalfWrap    \* the range of each of the two reload registers

VARIABLES now,        \* the 68K's clock, in cycles
          count,      \* pixel clocks until zero, 0 standing for Wrap
          phase,      \* cycles since the last pixel clock
          unit,       \* cycles of a pixel clock
          reload, mode, request

(* Cycles until the counter reaches zero. *)
Due(c) == (IF c = 0 THEN Wrap ELSE c) * unit - phase

(* Cycles from one zero to the next. *)
Period == (IF "count0" \in mode' /\ reload' > 0 THEN reload' ELSE Wrap) * unit

(* After a zero, the counter stands as far into the next period as time has  *)
(* gone past that zero; a pixel clock that has begun still counts.            *)
CyclesLeft(c, cycles) ==
  IF cycles < Due(c) THEN Due(c) - cycles
  ELSE Period - ((cycles - Due(c)) % Period)

PixelsIn(cycles) == (cycles + unit - 1) \div unit

(* An instruction that leaves c in the counter and then takes its time; latch *)
(* says that the vertical blank reloads the counter in that time, cleared     *)
(* that software has acknowledged the request.                                *)
Pass(c, latch, cleared) ==
  LET cycles == now' - now IN
  /\ cycles > 0
  /\ phase' = (phase + cycles) % unit
  /\ count' = IF latch THEN reload' ELSE PixelsIn(CyclesLeft(c, cycles)) % Wrap
  /\ latch => "vblank" \in mode'
  /\ request' = \/ request /\ ~cleared
                \/ cycles >= Due(c) /\ "enable" \in mode'
  /\ UNCHANGED unit

(* Software changes at most one register in an instruction; c is what that    *)
(* leaves in the counter.                                                     *)
SetHigh(c) ==
  /\ mode' = mode /\ c = count
  /\ reload' % HalfWrap = reload % HalfWrap

SetLow(c) ==
  /\ mode' = mode
  /\ reload' \div HalfWrap = reload \div HalfWrap
  /\ c = IF "write" \in mode THEN reload' ELSE count

SetMode(c) ==
  /\ reload' = reload
  /\ c = count \/ (c = reload /\ "vblank" \in mode' \ mode)

(* The clock is read modulo the frame. *)
Rebase == now' < now /\ UNCHANGED <<count, phase, unit, reload, mode, request>>

Next ==
  \/ Rebase
  \/ \E c \in {count, reload'}, latch, cleared \in BOOLEAN :
       /\ \/ c = count /\ UNCHANGED <<reload, mode>>
          \/ SetHigh(c) \/ SetLow(c) \/ SetMode(c)
       /\ Pass(c, latch, cleared)
=============================================================================

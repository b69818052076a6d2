-------------------------------- MODULE MCRtc --------------------------------
EXTENDS Rtc

At(y, mo, d, w, h, mi, s) ==
  [year |-> y, month |-> mo, day |-> d, weekday |-> w,
   hour |-> h, minute |-> mi, second |-> s]

(* A moment before each kind of end. *)
SeedsMC ==
  {At(0, 2, 28, 1, 23, 59, 59), At(1, 2, 28, 6, 23, 59, 58),
   At(96, 2, 29, 4, 23, 59, 59), At(99, 12, 31, 5, 23, 59, 58),
   At(24, 4, 30, 2, 9, 59, 59)}

Cmd(c) == [at |-> NoTime, cmd |-> c]
SetTo(t) == [at |-> t, cmd |-> 2]

(* One program sets and reads the clock, the other uses the pulse output.     *)
ProgramsMC ==
  {{Cmd(1), Cmd(3), SetTo(At(57, 9, 30, 6, 19, 38, 59))},
   {Cmd(c) : c \in {0, 5, 7, 8, 9, 12, 13, 14}}}
=============================================================================

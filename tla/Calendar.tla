------------------------------- MODULE Calendar -------------------------------
(* What a clock with a two-digit year keeps: the day of the century, the      *)
(* second of the day, the day of the week, and how far the next second is.    *)
(* It counts every second, and is set only by being told to.                  *)
EXTENDS Integers

VARIABLES day, sec, wday,
          phase,      \* time since the last second
          told        \* whether the step may set the clock

Days == 365 * 100 + 25
DaySeconds == 24 * 60 * 60

Second ==
  IF sec < DaySeconds - 1
  THEN sec' = sec + 1 /\ UNCHANGED <<day, wday>>
  ELSE sec' = 0 /\ day' = (day + 1) % Days /\ wday' = (wday + 1) % 7

(* Time passes, less than a second of it. *)
Elapse ==
  /\ phase' # phase
  /\ IF phase' < phase THEN Second ELSE UNCHANGED <<day, sec, wday>>

Set ==
  /\ told
  /\ phase' = phase
  /\ day' \in 0 .. Days - 1 /\ sec' \in 0 .. DaySeconds - 1 /\ wday' \in 0 .. 6

Next == Elapse \/ Set
=============================================================================

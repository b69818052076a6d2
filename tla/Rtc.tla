--------------------------------- MODULE Rtc ---------------------------------
(* geo_rtc.c: the uPD4990A of the arcade boards.  Software reaches it through *)
(* three bits of REG_RTCCTRL (DATA IN, CLK, STB) and reads two (DATA OUT,     *)
(* TP): 4 bits of command and 48 bits of data go through one shift register,  *)
(* a bit at each rise of CLK, and a rise of STB performs the command.         *)
(* Meanwhile the scheduler advances the clock after every instruction.        *)
EXTENDS Integers, Sequences

CONSTANTS
  SecondCycs,     \* CYCS_68K_PER_SECOND
  Costs,          \* cycles of a call of geo_rtc_sync
  Seeds,          \* what localtime may return
  Programs,       \* for each program, the words it shifts in
  NoTime,         \* a word without data
  MaxSeconds      \* bound: seconds after the seed

(* Fractions of a second that TP can be given: 64, 256, 2048, 4096 in the     *)
(* code.                                                                      *)
CONSTANTS Div64, Div256, Div2048, Div4096

(* A command is four bits. *)
ASSUME ProgramAssumption == \A p \in Programs : \A w \in p : w.cmd \in 0 .. 15

(* No instruction is longer than the shortest interval. *)
ASSUME CostAssumption ==
  /\ SecondCycs \in Nat
  /\ {Div64, Div256, Div2048, Div4096} \subseteq Nat \ {0}
  /\ Div64 <= Div256 /\ Div256 <= Div2048 /\ Div2048 <= Div4096
  /\ Div4096 <= SecondCycs
  /\ Costs \subseteq 1 .. (SecondCycs \div Div4096) - 1

VARIABLES
  cmdreg, datareg,             \* bits, the lowest first
  cycs, tpinterval, tpcounter, tpmode, fmode,
  time,                        \* year, month, weekday, day, hour, minute, second
  clk, stb, timer_1hz, tp

(* The program: the word that is being shifted in, and its bits to come.      *)
VARIABLES program, word, todo

(* Ghosts: the time that was read last and the shifts since; seconds so far.  *)
VARIABLES snap, shifts, seconds

pulse == <<tpinterval, tpcounter, tpmode, tp>>
software == <<program, word, todo>>
ghosts == <<snap, shifts, seconds>>
vars == <<cmdreg, datareg, cycs, fmode, time, clk, stb, timer_1hz, pulse,
          software, ghosts>>

Width == 48

(* Between two words; 16 is no command. *)
Nothing == [at |-> NoTime, cmd |-> 16]

(* geo_rtc_init seeds the clock from the host.  The registers it does not     *)
(* mention are zero from the program's start.                                 *)
Init ==
  /\ cmdreg = [i \in 1 .. 4 |-> 0] /\ datareg = [i \in 1 .. Width |-> 0]
  /\ cycs = 0 /\ fmode = 0
  /\ time \in Seeds
  /\ clk = 0 /\ stb = 0 /\ timer_1hz = 0
  /\ tpinterval = SecondCycs /\ tpcounter = 0 /\ tpmode = "run" /\ tp = 0
  /\ program \in Programs /\ word = Nothing /\ todo = <<>>
  /\ snap = NoTime /\ shifts = 0 /\ seconds = 0

-----------------------------------------------------------------------------
(* The values of the data register's nibbles, the lowest first. *)
Digits(t) ==
  <<t.second % 10, t.second \div 10, t.minute % 10, t.minute \div 10,
    t.hour % 10, t.hour \div 10, t.day % 10, t.day \div 10,
    t.weekday, t.month, t.year % 10, t.year \div 10>>

Weights == <<1, 2, 4, 8, 16, 32, 64, 128>>

(* Bit b of a byte. *)
BitOf(v, b) == (v \div Weights[b]) % 2

(* Time Read: the values are or'ed together, each a byte that starts at its   *)
(* nibble.                                                                    *)
Encoded(t) ==
  LET d == Digits(t)
  IN [i \in 1 .. Width |->
        IF \E n \in 1 .. 12 :
             i - 4 * (n - 1) \in 1 .. 8 /\ BitOf(d[n], i - 4 * (n - 1)) = 1
        THEN 1 ELSE 0]

Nibble(n) ==
  datareg[4 * n + 1] + 2 * datareg[4 * n + 2] + 4 * datareg[4 * n + 3]
    + 8 * datareg[4 * n + 4]

Bcd(n) == Nibble(n) + 10 * Nibble(n + 1)

(* Time Set. *)
Decoded ==
  [second |-> Bcd(0), minute |-> Bcd(2), hour |-> Bcd(4), day |-> Bcd(6),
   weekday |-> Nibble(8), month |-> Nibble(9), year |-> Bcd(10)]

Command == cmdreg[1] + 2 * cmdreg[2] + 4 * cmdreg[3] + 8 * cmdreg[4]

(* TP intervals by command; command 0 sets one too. *)
Interval ==
  [c \in {0} \cup 4 .. 11 |->
     CASE c \in {0, 4} -> SecondCycs \div Div64
       [] c = 5  -> SecondCycs \div Div256
       [] c = 6  -> SecondCycs \div Div2048
       [] c = 7  -> SecondCycs \div Div4096
       [] c = 8  -> SecondCycs
       [] c = 9  -> SecondCycs * 10
       [] c = 10 -> SecondCycs * 30
       [] c = 11 -> SecondCycs * 60]

(* What the rise of STB does. *)
Perform(c) ==
  /\ fmode' = IF c \in 0 .. 3 THEN c ELSE fmode
  /\ time' = IF c = 2 THEN Decoded ELSE time
  /\ datareg' = IF c = 3 THEN Encoded(time) ELSE datareg
  /\ tpinterval' = IF c \in DOMAIN Interval THEN Interval[c] ELSE tpinterval
  /\ tpcounter' = IF c \in {8, 9, 10, 11, 13} THEN 0 ELSE tpcounter
  /\ tpmode' = IF c \in 4 .. 13 THEN "run" ELSE IF c = 14 THEN "stop" ELSE tpmode
  /\ tp' = IF c = 12 THEN 0 ELSE tp
  /\ snap' = IF c = 3 THEN time ELSE snap
  /\ shifts' = IF c = 3 THEN 0 ELSE shifts
  /\ UNCHANGED cmdreg

\* Slip: only Register Hold holds the data register.
ShiftUnlessHeld(din) ==
  /\ cmdreg' = Append(Tail(cmdreg), din)
  /\ datareg' = IF fmode # 0 THEN Append(Tail(datareg), cmdreg[1]) ELSE datareg
  /\ shifts' = IF fmode = 1 /\ shifts < Width THEN shifts + 1 ELSE shifts
  /\ UNCHANGED <<fmode, time, pulse, snap>>

\* Slip: the bit goes into both registers at once.
ShiftBoth(din) ==
  /\ cmdreg' = Append(Tail(cmdreg), din)
  /\ datareg' = IF fmode = 1 THEN Append(Tail(datareg), din) ELSE datareg
  /\ shifts' = IF fmode = 1 /\ shifts < Width THEN shifts + 1 ELSE shifts
  /\ UNCHANGED <<fmode, time, pulse, snap>>

(* A rise of CLK: the data register is fed from the command register's end. *)
Shift(din) ==
  /\ cmdreg' = Append(Tail(cmdreg), din)
  /\ datareg' = IF fmode = 1 THEN Append(Tail(datareg), cmdreg[1]) ELSE datareg
  /\ shifts' = IF fmode = 1 /\ shifts < Width THEN shifts + 1 ELSE shifts
  /\ UNCHANGED <<fmode, time, pulse, snap>>

(* geo_rtc_wr.  A rise of CLK counts only while STB is low. *)
Wr(din, c, s) ==
  /\ clk' = c /\ stb' = s
  /\ \/ stb = 0 /\ s = 1 /\ Perform(Command)
     \/ s = 0 /\ clk = 0 /\ c = 1 /\ Shift(din)
     \/ /\ ~(stb = 0 /\ s = 1) /\ ~(s = 0 /\ clk = 0 /\ c = 1)
        /\ UNCHANGED <<cmdreg, datareg, fmode, time, pulse, snap, shifts>>
  /\ UNCHANGED <<cycs, timer_1hz, program, seconds>>

-----------------------------------------------------------------------------
(* Software, as the system ROM drives the chip: the bits of a word, then a    *)
(* strobe.  A word is a command of four bits, after 48 bits of data or none;  *)
(* data is sent in Register Shift mode.                                       *)

CommandBits(c) == <<c % 2, (c \div 2) % 2, (c \div 4) % 2, c \div 8>>

Bits(w) ==
  (IF w.at = NoTime THEN <<>> ELSE Encoded(w.at)) \o CommandBits(w.cmd)

Take(w) ==
  /\ todo = <<>> /\ clk = 0 /\ stb = 0 /\ word = Nothing
  /\ w.at # NoTime => fmode = 1
  /\ word' = w /\ todo' = Bits(w)
  /\ UNCHANGED <<cmdreg, datareg, cycs, fmode, time, clk, stb, timer_1hz,
                 pulse, program, ghosts>>

ClkRise ==
  /\ todo # <<>> /\ clk = 0
  /\ Wr(Head(todo), 1, 0)
  /\ UNCHANGED <<word, todo>>

ClkFall ==
  /\ todo # <<>> /\ clk = 1
  /\ Wr(Head(todo), 0, 0)
  /\ todo' = Tail(todo)
  /\ UNCHANGED word

StbRise ==
  /\ todo = <<>> /\ word # Nothing /\ stb = 0
  /\ Wr(0, 0, 1)
  /\ UNCHANGED <<word, todo>>

StbFall ==
  /\ stb = 1
  /\ Wr(0, 0, 0)
  /\ word' = Nothing
  /\ UNCHANGED todo

-----------------------------------------------------------------------------
(* geo_rtc_sync: time passes. *)

MonthDays == <<31, 28, 31, 30, 31, 30, 31, 31, 30, 31, 30, 31>>

\* Slip: a year that ends a century does not leap.
LeapCentury(y) == y % 4 = 0 /\ y # 0

Leap(y) == y % 4 = 0

DaysIn(t) == MonthDays[t.month] + (IF t.month = 2 /\ Leap(t.year) THEN 1 ELSE 0)

(* The month's last day is over.  stray stands for a month that is not in the *)
(* table, which only software can set: what is read there decides.            *)
MonthOver(t, stray) ==
  IF t.month \notin 1 .. 12 THEN stray ELSE t.day + 1 > DaysIn(t)

(* A counter that is stepped when the one below it has run over, and that    *)
(* starts again at first when it runs over itself.                           *)
Stepped(below, over, v, first) ==
  IF ~below THEN v ELSE IF over THEN first ELSE v + 1

(* geo_rtc_clk_inc. *)
ClkInc(t, stray) ==
  LET s == t.second + 1 >= 60
      mi == s /\ t.minute + 1 >= 60
      h == mi /\ t.hour + 1 >= 24
      d == h /\ MonthOver(t, stray)
      mo == d /\ t.month + 1 > 12
  IN [second  |-> Stepped(TRUE, s, t.second, 0),
      minute  |-> Stepped(s, mi, t.minute, 0),
      hour    |-> Stepped(mi, h, t.hour, 0),
      weekday |-> Stepped(h, t.weekday + 1 >= 7, t.weekday, 0),
      day     |-> Stepped(h, d, t.day, 1),
      month   |-> Stepped(d, mo, t.month, 1),
      year    |-> Stepped(mo, t.year + 1 >= 100, t.year, 0)]

\* Slip: the counter waits at the interval.
TpAfterHeld(sum) == IF sum > tpinterval THEN tpinterval ELSE sum

(* The interval is taken off once: after a change to a shorter one it may     *)
(* take many calls until the counter is inside it again.                      *)
TpAfter(sum) == IF sum >= tpinterval THEN sum - tpinterval ELSE sum

Sync(c) ==
  LET full == cycs + c >= SecondCycs
      sum == TpAfter(tpcounter + c)
  IN /\ full => seconds < MaxSeconds
     /\ cycs' = IF full THEN cycs + c - SecondCycs ELSE cycs + c
     /\ IF full THEN \E stray \in BOOLEAN : time' = ClkInc(time, stray)
        ELSE UNCHANGED time
     /\ timer_1hz' = IF cycs' >= SecondCycs \div 2 THEN 1 ELSE 0
     /\ tpcounter' = IF tpmode = "run" THEN sum ELSE tpcounter
     /\ tp' = IF tpmode = "run"
              THEN IF sum >= tpinterval \div 2 THEN 1 ELSE 0
              ELSE tp
     /\ seconds' = IF full THEN seconds + 1 ELSE seconds
     /\ UNCHANGED <<cmdreg, datareg, fmode, tpinterval, tpmode, clk, stb,
                    software, snap, shifts>>

Next ==
  \/ \E w \in program : Take(w)
  \/ ClkRise \/ ClkFall \/ StbRise \/ StbFall
  \/ \E c \in Costs : Sync(c)

Spec == Init /\ [][Next]_vars

(* The times there are.                                                       *)
Times ==
  {t \in [year : 0 .. 99, month : 1 .. 12, weekday : 0 .. 6, day : 1 .. 31,
          hour : 0 .. 23, minute : 0 .. 59, second : 0 .. 59] :
     t.day <= DaysIn(t)}

(* The host's localtime gives one (time() counts no leap seconds), and so     *)
(* does software that sets the clock.                                         *)
ASSUME TimeAssumption ==
  /\ Seeds \subseteq Times
  /\ \A p \in Programs : \A w \in p :
       w.cmd = 2 => w.at # NoTime /\ w.at \in Times

(* geo_rtc_rd: DATA OUT. *)
DataOut == IF fmode \in {0, 3} THEN timer_1hz ELSE datareg[1]

-----------------------------------------------------------------------------
(* Properties. *)

(* The day of the century, by the calendar's own arithmetic: 00 is a leap     *)
(* year, and so is every fourth.                                              *)
DaysBefore == <<0, 31, 59, 90, 120, 151, 181, 212, 243, 273, 304, 334>>
DayNumber(t) ==
  365 * t.year + ((t.year + 3) \div 4) + DaysBefore[t.month]
    + (IF t.month > 2 /\ t.year % 4 = 0 THEN 1 ELSE 0) + t.day - 1

(* However the cycles of the instructions add up, the clock is a count of     *)
(* seconds of one century (Calendar): none is lost and none counted twice     *)
(* across the ends of minutes, days, months, leap Februaries and the century, *)
(* and nothing that software shifts moves it but Time Set.                    *)
Clock == INSTANCE Calendar
           WITH day <- DayNumber(time),
                sec <- (time.hour * 60 + time.minute) * 60 + time.second,
                wday <- time.weekday, phase <- cycs,
                told <- stb = 0 /\ Command = 2
ClockSpec == [][Clock!Next]_<<time, cycs>>

(* A time that software shifts in reaches the clock: 48 bits of data and the  *)
(* command go through the 4 bits of the command register one after the other, *)
(* and each digit must end where Time Set looks for it, whatever was in the   *)
(* registers before and however many seconds pass meanwhile.                  *)
SetArrives ==
  [][StbRise /\ fmode = 1 /\ word.cmd = 2 /\ word.at # NoTime
       => time' = word.at]_vars

(* A time that software shifts out is the time of one instant: the bits are   *)
(* those of the time when it was read, though the clock goes on during the    *)
(* 48 reads and other bits are shifted in behind.                             *)
SnapshotShifts ==
  snap # NoTime /\ fmode = 1 /\ shifts < Width =>
    DataOut = Encoded(snap)[shifts + 1]

(* TP's counter keeps its phase, and a counter that a shorter interval has    *)
(* left beyond its end is on its way back: TP cannot stay high for good.      *)
PulseCatchesUp ==
  [][\A c \in Costs : Sync(c) /\ tpmode = "run" =>
       /\ (tpcounter' - tpcounter - c) % tpinterval = 0
       /\ tpcounter' < tpinterval \/ tpcounter' < tpcounter]_vars
=============================================================================

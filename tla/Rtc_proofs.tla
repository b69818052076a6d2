----------------------------- MODULE Rtc_proofs -----------------------------
(* The uPD4990A, proved for every clock rate, every set of pulse rates and    *)
(* whatever software shifts: a time that was read stays one instant's while   *)
(* it is shifted out, a time that is shifted in is the one that is set, the   *)
(* clock implements the calendar, and the pulse counter always comes back.    *)
EXTENDS Rtc, SequenceTheorems, TLAPS

(* A register is 48 bits. *)
Bits48 == [1 .. Width -> {0, 1}]

LEMMA SameBits ==
  ASSUME NEW f \in Bits48, NEW g \in Bits48, \A j \in 1 .. Width : f[j] = g[j]
  PROVE  f = g
<1>1. f = [j \in 1 .. Width |-> f[j]] /\ g = [j \in 1 .. Width |-> g[j]]
  BY Zenon DEF Bits48
<1>2. [j \in 1 .. Width |-> f[j]] = [j \in 1 .. Width |-> g[j]]
  BY Zenon
<1> QED
  BY <1>1, <1>2, Zenon

LEMMA EncodedType == ASSUME NEW t PROVE Encoded(t) \in Bits48
<1> DEFINE P(i) == \E n \in 1 .. 12 :
                     /\ i - 4 * (n - 1) \in 1 .. 8
                     /\ BitOf(Digits(t)[n], i - 4 * (n - 1)) = 1
<1>1. Encoded(t) = [i \in 1 .. Width |-> IF P(i) THEN 1 ELSE 0]
  BY DEF Encoded
<1> HIDE DEF P
<1> QED
  BY <1>1 DEF Bits48

(* A register of n bits loses its first one to a shift and gets one at its    *)
(* end.                                                                       *)
LEMMA ShiftBits ==
  ASSUME NEW n \in Nat \ {0}, NEW r \in [1 .. n -> {0, 1}], NEW b \in {0, 1}
  PROVE  /\ Append(Tail(r), b) \in [1 .. n -> {0, 1}]
         /\ \A i \in 1 .. n - 1 : Append(Tail(r), b)[i] = r[i + 1]
         /\ Append(Tail(r), b)[n] = b
<1>1. r \in Seq({0, 1})
  BY SeqDef
<1>2. Len(r) = n
  <2>1. DOMAIN r = 1 .. n /\ DOMAIN r = 1 .. Len(r) /\ Len(r) \in Nat
    BY <1>1, LenProperties
  <2> QED
    BY <2>1
<1>3. /\ Tail(r) \in Seq({0, 1}) /\ Len(Tail(r)) = n - 1
      /\ \A i \in 1 .. n - 1 : Tail(r)[i] = r[i + 1]
  BY <1>1, <1>2, HeadTailProperties
<1>4. /\ Append(Tail(r), b) \in Seq({0, 1}) /\ Len(Append(Tail(r), b)) = n
      /\ \A i \in 1 .. n - 1 : Append(Tail(r), b)[i] = Tail(r)[i]
      /\ Append(Tail(r), b)[n] = b
  <2>1. Len(Tail(r)) + 1 = n
    BY <1>3
  <2> QED
    BY <1>3, <2>1, AppendProperties
<1>5. Append(Tail(r), b) \in [1 .. n -> {0, 1}]
  BY <1>4, LenProperties
<1> QED
  BY <1>3, <1>4, <1>5

LEMMA ConcatBits ==
  ASSUME NEW e \in Seq({0, 1}), NEW c \in Seq({0, 1})
  PROVE  /\ e \o c \in Seq({0, 1}) /\ Len(e \o c) = Len(e) + Len(c)
         /\ \A j \in 1 .. Len(e) : (e \o c)[j] = e[j]
         /\ \A j \in 1 .. Len(c) : (e \o c)[Len(e) + j] = c[j]
<1>1. Len(e) \in Nat /\ Len(c) \in Nat
  OBVIOUS
<1>2. /\ e \o c \in Seq({0, 1}) /\ Len(e \o c) = Len(e) + Len(c)
  OBVIOUS
<1>3. ASSUME NEW j \in 1 .. Len(e) PROVE (e \o c)[j] = e[j]
  OBVIOUS
<1>4. ASSUME NEW j \in 1 .. Len(c) PROVE (e \o c)[Len(e) + j] = c[j]
  OBVIOUS
<1> QED
  BY <1>2, <1>3, <1>4

(* A larger divider gives a shorter interval. *)
LEMMA DivAntitone ==
  ASSUME NEW n \in Nat, NEW d \in Nat \ {0}, NEW e \in Nat \ {0}, d <= e
  PROVE  n \div e \in Nat /\ n \div d \in Nat /\ n \div e <= n \div d
<1> DEFINE q == n \div e
           u == n \div d
<1>1. q \in Nat /\ u \in Nat
  OBVIOUS
<1>2. e * q <= n /\ n < d * u + d
  OBVIOUS
<1>3. d * q <= e * q
  BY <1>1
<1> HIDE DEF q, u
<1>4. d * q < d * (u + 1)
  BY <1>1, <1>2, <1>3
<1>5. q < u + 1
  BY <1>1, <1>4
<1> QED
  BY <1>1, <1>5 DEF q, u

Shortest == SecondCycs \div Div4096

LEMMA IntervalBounds ==
  /\ Shortest \in Nat /\ Shortest > 0
  /\ SecondCycs \in Nat /\ SecondCycs >= Shortest
  /\ DOMAIN Interval = {0} \cup 4 .. 11
  /\ \A c \in DOMAIN Interval : Interval[c] \in Nat /\ Interval[c] >= Shortest
<1>1. /\ SecondCycs \in Nat
      /\ Div64 \in Nat \ {0} /\ Div256 \in Nat \ {0}
      /\ Div2048 \in Nat \ {0} /\ Div4096 \in Nat \ {0}
      /\ Div64 <= Div4096 /\ Div256 <= Div4096 /\ Div2048 <= Div4096
      /\ Div4096 <= SecondCycs /\ 1 <= Div4096
  BY CostAssumption
<1>2. Shortest \in Nat /\ Shortest > 0
  <2>1. SecondCycs < Div4096 * Shortest + Div4096 /\ Shortest \in Nat
    BY <1>1 DEF Shortest
  <2> QED
    BY <1>1, <2>1
<1>3. /\ SecondCycs \div Div64 >= Shortest /\ SecondCycs \div Div64 \in Nat
      /\ SecondCycs \div Div256 >= Shortest /\ SecondCycs \div Div256 \in Nat
      /\ SecondCycs \div Div2048 >= Shortest /\ SecondCycs \div Div2048 \in Nat
  BY <1>1, DivAntitone DEF Shortest
<1>4. SecondCycs >= Shortest
  <2>1. SecondCycs \div 1 = SecondCycs /\ 1 \in Nat \ {0}
    BY <1>1
  <2>2. SecondCycs \div Div4096 <= SecondCycs \div 1
    BY <1>1, <2>1, DivAntitone
  <2> QED
    BY <2>1, <2>2 DEF Shortest
<1>5. DOMAIN Interval = {0} \cup 4 .. 11
  BY DEF Interval
<1>6. ASSUME NEW c \in {0} \cup 4 .. 11
      PROVE  Interval[c] \in Nat /\ Interval[c] >= Shortest
  <2>1. Interval[c] \in {SecondCycs \div Div64, SecondCycs \div Div256,
                         SecondCycs \div Div2048, Shortest, SecondCycs,
                         SecondCycs * 10, SecondCycs * 30, SecondCycs * 60}
    <3>1. c \in {0, 4, 5, 6, 7, 8, 9, 10, 11}
      BY <1>6
    <3> QED
      BY <3>1 DEF Interval, Shortest
  <2> QED
    BY <1>1, <1>2, <1>3, <1>4, <2>1
<1> QED
  BY <1>1, <1>2, <1>4, <1>5, <1>6

-----------------------------------------------------------------------------
(* Packing. *)

LEMMA BitType == ASSUME NEW v \in Nat, NEW b \in 1 .. 8
                 PROVE  BitOf(v, b) \in {0, 1}
<1>1. Weights[b] \in {1, 2, 4, 8, 16, 32, 64, 128}
  BY DEF Weights
<1>2. v \div Weights[b] \in Nat
  BY <1>1
<1> QED
  BY <1>2 DEF BitOf

(* A digit has four bits, and they give it back. *)
LEMMA NibbleBits ==
  ASSUME NEW v \in 0 .. 15
  PROVE  /\ \A b \in 5 .. 8 : BitOf(v, b) = 0
         /\ v = BitOf(v, 1) + 2 * BitOf(v, 2) + 4 * BitOf(v, 3) + 8 * BitOf(v, 4)
<1>1. /\ Weights[1] = 1 /\ Weights[2] = 2 /\ Weights[3] = 4 /\ Weights[4] = 8
      /\ Weights[5] = 16 /\ Weights[6] = 32 /\ Weights[7] = 64
      /\ Weights[8] = 128
  BY DEF Weights
<1>2. /\ BitOf(v, 1) = v % 2 /\ BitOf(v, 2) = (v \div 2) % 2
      /\ BitOf(v, 3) = (v \div 4) % 2 /\ BitOf(v, 4) = (v \div 8) % 2
  BY <1>1 DEF BitOf
<1>3. v = (v % 2) + 2 * ((v \div 2) % 2) + 4 * ((v \div 4) % 2)
            + 8 * ((v \div 8) % 2)
  OBVIOUS
<1>4. /\ v \div 16 = 0 /\ v \div 32 = 0 /\ v \div 64 = 0 /\ v \div 128 = 0
  OBVIOUS
<1>5. ASSUME NEW b \in 5 .. 8 PROVE BitOf(v, b) = 0
  <2>1. b \in {5, 6, 7, 8}
    OBVIOUS
  <2>2. Weights[b] \in {16, 32, 64, 128}
    BY <1>1, <2>1
  <2>3. v \div Weights[b] = 0
    BY <1>4, <2>2
  <2> QED
    BY <2>3 DEF BitOf
<1> QED
  BY <1>2, <1>3, <1>5

(* A byte whose digit fits its nibble does not reach the next one. *)
LEMMA EncodedBit ==
  ASSUME NEW t, \A n \in 1 .. 12 : Digits(t)[n] \in 0 .. 15,
         NEW n \in 1 .. 12, NEW b \in 1 .. 4
  PROVE  Encoded(t)[4 * (n - 1) + b] = BitOf(Digits(t)[n], b)
<1> DEFINE d == Digits(t)
           i == 4 * (n - 1) + b
           P(j) == \E m \in 1 .. 12 : /\ j - 4 * (m - 1) \in 1 .. 8
                                      /\ BitOf(d[m], j - 4 * (m - 1)) = 1
<1>1. Encoded(t) = [j \in 1 .. Width |-> IF P(j) THEN 1 ELSE 0]
  BY DEF Encoded
<1>2. i \in 1 .. Width /\ i - 4 * (n - 1) = b
  BY DEF Width
<1>3. P(i) <=> BitOf(d[n], b) = 1
  <2>1. ASSUME NEW m \in 1 .. 12, i - 4 * (m - 1) \in 1 .. 8, m # n
        PROVE  BitOf(d[m], i - 4 * (m - 1)) = 0
    <3>1. i - 4 * (m - 1) \in 5 .. 8
      BY <2>1
    <3> HIDE DEF i
    <3> QED
      BY <3>1, NibbleBits
  <2>2. BitOf(d[n], b) = 1 => P(i)
    BY <1>2
  <2>3. ASSUME P(i) PROVE BitOf(d[n], b) = 1
    <3>1. PICK m \in 1 .. 12 : /\ i - 4 * (m - 1) \in 1 .. 8
                               /\ BitOf(d[m], i - 4 * (m - 1)) = 1
      BY <2>3
    <3> HIDE DEF i, d
    <3>2. ASSUME m # n PROVE FALSE
      <4>1. BitOf(d[m], i - 4 * (m - 1)) = 0
        BY <2>1, <3>1, <3>2
      <4> QED
        BY <3>1, <4>1
    <3> QED
      BY <1>2, <3>1, <3>2
  <2> QED
    BY <2>2, <2>3
<1>4. BitOf(d[n], b) \in {0, 1}
  BY BitType
<1> HIDE DEF P, i, d
<1>5. Encoded(t)[i] = IF P(i) THEN 1 ELSE 0
  BY <1>1, <1>2
<1> QED
  BY <1>3, <1>4, <1>5 DEF i, d

LEMMA TimeDigits ==
  ASSUME NEW t \in Times
  PROVE  \A n \in 1 .. 12 : Digits(t)[n] \in 0 .. 15
<1>1. /\ t.year \in 0 .. 99 /\ t.month \in 1 .. 12 /\ t.weekday \in 0 .. 6
      /\ t.day \in 1 .. 31 /\ t.hour \in 0 .. 23 /\ t.minute \in 0 .. 59
      /\ t.second \in 0 .. 59
  BY DEF Times
<1>2. ASSUME NEW v \in 0 .. 99 PROVE v % 10 \in 0 .. 15 /\ v \div 10 \in 0 .. 15
  OBVIOUS
<1>3. /\ t.second % 10 \in 0 .. 15 /\ t.second \div 10 \in 0 .. 15
      /\ t.minute % 10 \in 0 .. 15 /\ t.minute \div 10 \in 0 .. 15
      /\ t.hour % 10 \in 0 .. 15 /\ t.hour \div 10 \in 0 .. 15
      /\ t.day % 10 \in 0 .. 15 /\ t.day \div 10 \in 0 .. 15
      /\ t.year % 10 \in 0 .. 15 /\ t.year \div 10 \in 0 .. 15
      /\ t.weekday \in 0 .. 15 /\ t.month \in 0 .. 15
  BY <1>1
<1> QED
  BY <1>3 DEF Digits

(* Time Set takes back what Time Read put together. *)
LEMMA DecodedBack ==
  ASSUME NEW t \in Times, datareg = Encoded(t)
  PROVE  Decoded = t
<1>1. \A n \in 1 .. 12 : Digits(t)[n] \in 0 .. 15
  BY TimeDigits
<1>2. ASSUME NEW n \in 0 .. 11 PROVE Nibble(n) = Digits(t)[n + 1]
  <2>1. ASSUME NEW b \in 1 .. 4
        PROVE  datareg[4 * n + b] = BitOf(Digits(t)[n + 1], b)
    <3>1. n + 1 \in 1 .. 12 /\ 4 * ((n + 1) - 1) + b = 4 * n + b
      OBVIOUS
    <3>2. Encoded(t)[4 * ((n + 1) - 1) + b] = BitOf(Digits(t)[n + 1], b)
      BY <1>1, <3>1, EncodedBit
    <3> QED
      BY <3>1, <3>2
  <2>2. Nibble(n) = BitOf(Digits(t)[n + 1], 1) + 2 * BitOf(Digits(t)[n + 1], 2)
                      + 4 * BitOf(Digits(t)[n + 1], 3)
                      + 8 * BitOf(Digits(t)[n + 1], 4)
    BY <2>1 DEF Nibble
  <2>3. Digits(t)[n + 1] \in 0 .. 15
    BY <1>1
  <2> QED
    BY <2>2, <2>3, NibbleBits
<1>3. /\ t.year \in 0 .. 99 /\ t.month \in 1 .. 12 /\ t.weekday \in 0 .. 6
      /\ t.day \in 1 .. 31 /\ t.hour \in 0 .. 23 /\ t.minute \in 0 .. 59
      /\ t.second \in 0 .. 59
  BY DEF Times
<1>4. /\ Nibble(0) = t.second % 10 /\ Nibble(1) = t.second \div 10
      /\ Nibble(2) = t.minute % 10 /\ Nibble(3) = t.minute \div 10
      /\ Nibble(4) = t.hour % 10 /\ Nibble(5) = t.hour \div 10
      /\ Nibble(6) = t.day % 10 /\ Nibble(7) = t.day \div 10
      /\ Nibble(8) = t.weekday /\ Nibble(9) = t.month
      /\ Nibble(10) = t.year % 10 /\ Nibble(11) = t.year \div 10
  BY <1>2 DEF Digits
<1>5. /\ Bcd(0) = t.second /\ Bcd(2) = t.minute /\ Bcd(4) = t.hour
      /\ Bcd(6) = t.day /\ Bcd(10) = t.year
  BY <1>3, <1>4 DEF Bcd
<1>6. t = [second |-> t.second, minute |-> t.minute, hour |-> t.hour,
           day |-> t.day, weekday |-> t.weekday, month |-> t.month,
           year |-> t.year]
  BY DEF Times
<1> QED
  BY <1>4, <1>5, <1>6 DEF Decoded

-----------------------------------------------------------------------------
(* The calendar. *)

LEMMA TimeFields ==
  ASSUME NEW t \in Times
  PROVE  /\ t = [second |-> t.second, minute |-> t.minute, hour |-> t.hour,
                 weekday |-> t.weekday, day |-> t.day, month |-> t.month,
                 year |-> t.year]
         /\ t.year \in 0 .. 99 /\ t.month \in 1 .. 12 /\ t.weekday \in 0 .. 6
         /\ t.day \in 1 .. 31 /\ t.hour \in 0 .. 23 /\ t.minute \in 0 .. 59
         /\ t.second \in 0 .. 59 /\ t.day <= DaysIn(t)
BY DEF Times

SecondOf(t) == (t.hour * 60 + t.minute) * 60 + t.second

(* What a month has, by both of the tables. *)
LEMMA Months ==
  ASSUME NEW t, t.month \in 1 .. 12
  PROVE  /\ DaysIn(t) \in 28 .. 31
         /\ DaysBefore[t.month] \in Nat /\ DaysBefore[t.month] <= 334
         /\ t.month < 12 =>
              DaysBefore[t.month + 1] + (IF t.month = 2 /\ Leap(t.year) THEN 1 ELSE 0)
                = DaysBefore[t.month] + DaysIn(t)
         /\ t.month = 12 => DaysBefore[t.month] + DaysIn(t) = 365
         /\ t.month = 1 => DaysBefore[t.month] = 0
<1>1. /\ MonthDays[1] = 31 /\ MonthDays[2] = 28 /\ MonthDays[3] = 31
      /\ MonthDays[4] = 30 /\ MonthDays[5] = 31 /\ MonthDays[6] = 30
      /\ MonthDays[7] = 31 /\ MonthDays[8] = 31 /\ MonthDays[9] = 30
      /\ MonthDays[10] = 31 /\ MonthDays[11] = 30 /\ MonthDays[12] = 31
  BY DEF MonthDays
<1>2. /\ DaysBefore[1] = 0 /\ DaysBefore[2] = 31 /\ DaysBefore[3] = 59
      /\ DaysBefore[4] = 90 /\ DaysBefore[5] = 120 /\ DaysBefore[6] = 151
      /\ DaysBefore[7] = 181 /\ DaysBefore[8] = 212 /\ DaysBefore[9] = 243
      /\ DaysBefore[10] = 273 /\ DaysBefore[11] = 304 /\ DaysBefore[12] = 334
  BY DEF DaysBefore
<1>3. t.month \in {1, 2, 3, 4, 5, 6, 7, 8, 9, 10, 11, 12}
  OBVIOUS
<1> QED
  BY <1>1, <1>2, <1>3 DEF DaysIn

Date(t) ==
  /\ t.year \in 0 .. 99 /\ t.month \in 1 .. 12 /\ t.day \in 1 .. 31
  /\ t.day <= DaysIn(t)

(* In numbers: the days before the month, and those of the years before. *)
Before(t) ==
  DaysBefore[t.month] + (IF t.month > 2 /\ t.year % 4 = 0 THEN 1 ELSE 0)
Years(y) == 365 * y + ((y + 3) \div 4)

LEMMA DayParts ==
  ASSUME NEW t, Date(t)
  PROVE  /\ DayNumber(t) = Years(t.year) + Before(t) + t.day - 1
         /\ Years(t.year) \in Nat /\ Before(t) \in Nat /\ t.day \in 1 .. 31
         /\ Before(t) + t.day <= 365 + (IF t.year % 4 = 0 THEN 1 ELSE 0)
<1> DEFINE leap == IF t.month > 2 /\ t.year % 4 = 0 THEN 1 ELSE 0
           year == IF t.year % 4 = 0 THEN 1 ELSE 0
           here == IF t.month = 2 /\ Leap(t.year) THEN 1 ELSE 0
           before == DaysBefore[t.month]
           days == DaysIn(t)
           d == t.day
           y == Years(t.year)
<1>1. /\ t.year \in 0 .. 99 /\ t.month \in 1 .. 12 /\ d \in 1 .. 31
      /\ d <= days
  BY DEF Date
<1>2. y \in Nat
  BY <1>1 DEF Years
<1>3. /\ leap \in {0, 1} /\ year \in {0, 1} /\ here \in {0, 1}
      /\ leap + here <= year
  BY DEF Leap
<1>4. before \in Nat /\ before <= 334 /\ days \in 28 .. 31
  BY <1>1, Months
<1>5. before + days <= 365 + here
  <2>1. CASE t.month = 12
    BY <1>1, <1>3, <2>1, Months
  <2>2. CASE t.month # 12
    <3> DEFINE next == DaysBefore[t.month + 1]
    <3>1. t.month < 12 /\ t.month + 1 \in 1 .. 12
      BY <1>1, <2>2
    <3>2. next \in Nat /\ next <= 334
      BY <3>1 DEF DaysBefore
    <3>3. next + here = before + days
      BY <1>1, <3>1, Months
    <3> HIDE DEF here, before, days, next
    <3> QED
      BY <1>3, <1>4, <3>2, <3>3
  <2> QED
    BY <2>1, <2>2
<1>6. DayNumber(t) = y + (before + leap) + d - 1
  <2>1. DayNumber(t) = 365 * t.year + ((t.year + 3) \div 4) + before + leap + d - 1
    BY DEF DayNumber
  <2>2. y = 365 * t.year + ((t.year + 3) \div 4)
    BY DEF Years
  <2>3. 365 * t.year \in Nat /\ (t.year + 3) \div 4 \in Nat
    BY <1>1
  <2> DEFINE p == 365 * t.year
             q == (t.year + 3) \div 4
  <2> HIDE DEF p, q, before, leap, d, y
  <2>4. DayNumber(t) = p + q + before + leap + d - 1 /\ y = p + q
        /\ p \in Nat /\ q \in Nat
    BY <2>1, <2>2, <2>3 DEF p, q
  <2> QED
    BY <1>1, <1>3, <1>4, <2>4
<1>7. Before(t) = before + leap
  BY DEF Before
<1> HIDE DEF leap, year, here, before, days, d, y
<1>8. before + leap \in Nat /\ (before + leap) + d <= 365 + year
  BY <1>1, <1>3, <1>4, <1>5
<1> QED
  BY <1>1, <1>2, <1>6, <1>7, <1>8 DEF d, y, year

LEMMA DayRange ==
  ASSUME NEW t, Date(t)
  PROVE  DayNumber(t) \in Nat /\ DayNumber(t) <= 365 * 100 + 24
<1> DEFINE year == IF t.year % 4 = 0 THEN 1 ELSE 0
<1>1. Years(t.year) \in Nat /\ Years(t.year) + year <= 365 * 99 + 25
  <2>1. t.year \in 0 .. 99
    BY DEF Date
  <2>2. ((t.year + 3) \div 4) + year <= 25 /\ (t.year + 3) \div 4 \in Nat
    BY <2>1
  <2>3. 365 * t.year \in Nat /\ 365 * t.year <= 365 * 99 /\ year \in {0, 1}
    BY <2>1
  <2> HIDE DEF year
  <2> QED
    BY <2>2, <2>3 DEF Years
<1>2. year \in {0, 1}
  OBVIOUS
<1>3. /\ DayNumber(t) = Years(t.year) + Before(t) + t.day - 1
      /\ Before(t) \in Nat /\ t.day \in 1 .. 31
      /\ Before(t) + t.day <= 365 + year
  BY DayParts
<1> HIDE DEF year
<1> QED
  BY <1>1, <1>2, <1>3

(* A year has 365 days, or one more if it leaps. *)
LEMMA YearAfter ==
  ASSUME NEW y \in Nat
  PROVE  /\ Years(y) \in Nat
         /\ Years(y + 1) = Years(y) + 365 + (IF y % 4 = 0 THEN 1 ELSE 0)
<1>1. ((y + 1) + 3) \div 4 = ((y + 3) \div 4) + (IF y % 4 = 0 THEN 1 ELSE 0)
  OBVIOUS
<1>2. 365 * (y + 1) = 365 * y + 365 /\ 365 * y \in Nat /\ (y + 3) \div 4 \in Nat
  OBVIOUS
<1> QED
  BY <1>1, <1>2 DEF Years

(* The day after a date is the next of the century, which starts again when   *)
(* it is over.                                                                *)
Follows(t, over, u) ==
  /\ u.day = IF over THEN 1 ELSE t.day + 1
  /\ u.month = IF ~over THEN t.month
               ELSE IF t.month + 1 > 12 THEN 1 ELSE t.month + 1
  /\ u.year = IF ~(over /\ t.month + 1 > 12) THEN t.year
              ELSE IF t.year + 1 >= 100 THEN 0 ELSE t.year + 1

LEMMA DayAfter ==
  ASSUME NEW t, Date(t), NEW stray, NEW u, Follows(t, MonthOver(t, stray), u)
  PROVE  DayNumber(u) = (DayNumber(t) + 1) % (365 * 100 + 25) /\ Date(u)
<1>1. /\ t.year \in 0 .. 99 /\ t.month \in 1 .. 12 /\ t.day \in 1 .. 31
      /\ t.day <= DaysIn(t)
  BY DEF Date
<1>2. MonthOver(t, stray) <=> t.day + 1 > DaysIn(t)
  BY <1>1 DEF MonthOver
<1>3. /\ DaysIn(t) \in 28 .. 31 /\ DaysBefore[t.month] \in Nat
      /\ (t.year + 3) \div 4 \in 0 .. 25
  BY <1>1, Months
<1>4. SUFFICES /\ Date(u)
               /\ \/ DayNumber(u) = DayNumber(t) + 1
                  \/ DayNumber(u) = 0 /\ DayNumber(t) + 1 = 365 * 100 + 25
  <2>1. DayNumber(t) \in Nat /\ DayNumber(t) <= 365 * 100 + 24
    BY DayRange
  <2>2. Date(u) => DayNumber(u) \in Nat /\ DayNumber(u) <= 365 * 100 + 24
    BY DayRange
  <2> QED
    BY <1>4, <2>1, <2>2
<1>5. CASE ~MonthOver(t, stray)
  <2>1. u.day = t.day + 1 /\ u.month = t.month /\ u.year = t.year
    BY <1>5 DEF Follows
  <2>2. DaysIn(u) = DaysIn(t) /\ Before(u) = Before(t)
    BY <2>1 DEF DaysIn, Before
  <2>3. Date(u)
    BY <1>1, <1>2, <1>3, <1>5, <2>1, <2>2 DEF Date
  <2>4. DayNumber(u) = DayNumber(t) + 1
    BY <2>1, <2>2, <2>3, DayParts
  <2> QED
    BY <2>3, <2>4
<1>6. CASE MonthOver(t, stray) /\ t.month < 12
  <2>1. u.day = 1 /\ u.month = t.month + 1 /\ u.year = t.year
        /\ t.day = DaysIn(t)
    BY <1>1, <1>2, <1>3, <1>6 DEF Follows
  <2>2. DaysIn(u) \in 28 .. 31 /\ DaysBefore[u.month] \in Nat
        /\ u.month \in 1 .. 12
    BY <1>1, <1>6, <2>1, Months
  <2>3. Date(u)
    BY <1>1, <2>1, <2>2 DEF Date
  <2>4. DaysBefore[u.month] + (IF t.month = 2 /\ Leap(t.year) THEN 1 ELSE 0)
          = DaysBefore[t.month] + t.day
    BY <1>1, <1>6, <2>1, Months
  <2>5. Before(u) = Before(t) + t.day
    <3> DEFINE before == IF t.month > 2 /\ t.year % 4 = 0 THEN 1 ELSE 0
               after == IF u.month > 2 /\ u.year % 4 = 0 THEN 1 ELSE 0
               here == IF t.month = 2 /\ Leap(t.year) THEN 1 ELSE 0
    <3>1. before \in {0, 1} /\ after \in {0, 1} /\ here \in {0, 1}
          /\ after = before + here
      BY <1>1, <1>6, <2>1 DEF Leap
    <3>2. /\ Before(u) = DaysBefore[u.month] + after
          /\ Before(t) = DaysBefore[t.month] + before
          /\ DaysBefore[u.month] + here = DaysBefore[t.month] + t.day
      BY <2>4 DEF Before
    <3> HIDE DEF before, after, here
    <3> QED
      BY <1>1, <1>3, <2>2, <3>1, <3>2
  <2>6. DayNumber(u) = DayNumber(t) + 1
    BY <2>1, <2>3, <2>5, DayParts
  <2> QED
    BY <2>3, <2>6
<1>7. CASE MonthOver(t, stray) /\ t.month = 12
  <2>1. /\ u.day = 1 /\ u.month = 1 /\ t.day = DaysIn(t)
        /\ u.year = IF t.year = 99 THEN 0 ELSE t.year + 1
    BY <1>1, <1>2, <1>3, <1>7 DEF Follows
  <2>2. DaysIn(u) \in 28 .. 31 /\ DaysBefore[u.month] = 0
    BY <2>1, Months
  <2>3. Date(u) /\ Before(u) = 0
    BY <1>1, <2>1, <2>2 DEF Date, Before
  <2> DEFINE leap == IF t.year % 4 = 0 THEN 1 ELSE 0
  <2>4. Before(t) + t.day = 365 + leap /\ leap \in {0, 1}
    <3>1. DaysBefore[t.month] + t.day = 365
      BY <1>1, <1>7, <2>1, Months
    <3>2. Before(t) = DaysBefore[t.month] + leap
      BY <1>7 DEF Before
    <3>3. leap \in {0, 1}
      OBVIOUS
    <3> HIDE DEF leap
    <3> QED
      BY <1>1, <1>3, <3>1, <3>2, <3>3
  <2>5. Years(t.year + 1) = Years(t.year) + 365 + leap /\ Years(t.year) \in Nat
    <3>1. t.year \in Nat
      BY <1>1
    <3> QED
      BY <3>1, YearAfter
  <2> HIDE DEF leap
  <2>6. DayNumber(t) + 1 = Years(t.year + 1)
    BY <2>4, <2>5, DayParts
  <2>7. DayNumber(u) = Years(u.year)
    BY <2>1, <2>3, DayParts
  <2>8. Years(0) = 0 /\ Years(100) = 365 * 100 + 25
    BY DEF Years
  <2>9. CASE t.year = 99
    <3>1. u.year = 0 /\ t.year + 1 = 100
      BY <2>1, <2>9
    <3> QED
      BY <2>3, <2>6, <2>7, <2>8, <3>1
  <2>10. CASE t.year # 99
    BY <2>1, <2>3, <2>6, <2>7, <2>10
  <2> QED
    BY <2>9, <2>10
<1> QED
  BY <1>1, <1>5, <1>6, <1>7

(* geo_rtc_clk_inc steps to the next second of the day, or to the first of    *)
(* the next day.                                                              *)
LEMMA SecondAfter ==
  ASSUME NEW t \in Times, NEW stray, NEW u, u = ClkInc(t, stray)
  PROVE  /\ u \in Times
         /\ IF SecondOf(t) < 24 * 60 * 60 - 1
            THEN /\ SecondOf(u) = SecondOf(t) + 1
                 /\ DayNumber(u) = DayNumber(t) /\ u.weekday = t.weekday
            ELSE /\ SecondOf(u) = 0
                 /\ DayNumber(u) = (DayNumber(t) + 1) % (365 * 100 + 25)
                 /\ u.weekday = (t.weekday + 1) % 7
<1> DEFINE s == t.second + 1 >= 60
           mi == s /\ t.minute + 1 >= 60
           h == mi /\ t.hour + 1 >= 24
           over == MonthOver(t, stray)
<1>1. /\ t.year \in 0 .. 99 /\ t.month \in 1 .. 12 /\ t.weekday \in 0 .. 6
      /\ t.day \in 1 .. 31 /\ t.hour \in 0 .. 23 /\ t.minute \in 0 .. 59
      /\ t.second \in 0 .. 59 /\ t.day <= DaysIn(t) /\ Date(t)
  BY TimeFields DEF Date
<1>2. /\ u = [second |-> u.second, minute |-> u.minute, hour |-> u.hour,
              weekday |-> u.weekday, day |-> u.day, month |-> u.month,
              year |-> u.year]
      /\ u.second = IF s THEN 0 ELSE t.second + 1
      /\ u.minute = IF ~s THEN t.minute ELSE IF mi THEN 0 ELSE t.minute + 1
      /\ u.hour = IF ~mi THEN t.hour ELSE IF h THEN 0 ELSE t.hour + 1
      /\ u.weekday = IF ~h THEN t.weekday
                     ELSE IF t.weekday + 1 >= 7 THEN 0 ELSE t.weekday + 1
      /\ u.day = IF ~h THEN t.day ELSE IF h /\ over THEN 1 ELSE t.day + 1
      /\ u.month = IF ~(h /\ over) THEN t.month
                   ELSE IF h /\ over /\ t.month + 1 > 12 THEN 1
                   ELSE t.month + 1
      /\ u.year = IF ~(h /\ over /\ t.month + 1 > 12) THEN t.year
                  ELSE IF t.year + 1 >= 100 THEN 0 ELSE t.year + 1
  <2> HIDE DEF over
  <2> QED
    BY DEF ClkInc, Stepped, over
<1>3. SUFFICES /\ Date(u)
               /\ IF SecondOf(t) < 24 * 60 * 60 - 1
                  THEN /\ SecondOf(u) = SecondOf(t) + 1
                       /\ DayNumber(u) = DayNumber(t)
                       /\ u.weekday = t.weekday
                  ELSE /\ SecondOf(u) = 0
                       /\ DayNumber(u) = (DayNumber(t) + 1) % (365 * 100 + 25)
                       /\ u.weekday = (t.weekday + 1) % 7
  <2>1. /\ u.second \in 0 .. 59 /\ u.minute \in 0 .. 59 /\ u.hour \in 0 .. 23
        /\ u.weekday \in 0 .. 6
    BY <1>1, <1>2
  <2> QED
    BY <1>2, <1>3, <2>1 DEF Date, Times
<1>4. CASE ~h
  <2>1. u.day = t.day /\ u.month = t.month /\ u.year = t.year
        /\ u.weekday = t.weekday
    BY <1>2, <1>4
  <2>2. Date(u) /\ DayNumber(u) = DayNumber(t)
    BY <1>1, <2>1 DEF Date, DayNumber, DaysIn
  <2>3. SecondOf(t) < 24 * 60 * 60 - 1 /\ SecondOf(u) = SecondOf(t) + 1
    <3>1. \/ /\ u.second = t.second + 1 /\ u.minute = t.minute /\ u.hour = t.hour
             /\ t.second < 59
          \/ /\ u.second = 0 /\ u.minute = t.minute + 1 /\ u.hour = t.hour
             /\ t.second = 59 /\ t.minute < 59
          \/ /\ u.second = 0 /\ u.minute = 0 /\ u.hour = t.hour + 1
             /\ t.second = 59 /\ t.minute = 59 /\ t.hour < 23
      BY <1>1, <1>2, <1>4
    <3> DEFINE hour == t.hour
               minute == t.minute
               second == t.second
    <3>2. hour \in 0 .. 23 /\ minute \in 0 .. 59 /\ second \in 0 .. 59
      BY <1>1
    <3>3. SecondOf(t) = (hour * 60 + minute) * 60 + second
      BY DEF SecondOf
    <3>4. \/ /\ SecondOf(u) = (hour * 60 + minute) * 60 + (second + 1)
             /\ second < 59
          \/ /\ SecondOf(u) = (hour * 60 + (minute + 1)) * 60 + 0
             /\ second = 59 /\ minute < 59
          \/ /\ SecondOf(u) = ((hour + 1) * 60 + 0) * 60 + 0
             /\ second = 59 /\ minute = 59 /\ hour < 23
      BY <3>1 DEF SecondOf
    <3> HIDE DEF hour, minute, second
    <3> QED
      BY <3>2, <3>3, <3>4
  <2> QED
    BY <2>1, <2>2, <2>3
<1>5. CASE h
  <2>1. Follows(t, over, u)
    BY <1>2, <1>5 DEF Follows
  <2>2. Date(u) /\ DayNumber(u) = (DayNumber(t) + 1) % (365 * 100 + 25)
    BY <1>1, <2>1, DayAfter
  <2>3. t.second = 59 /\ t.minute = 59 /\ t.hour = 23
        /\ u.second = 0 /\ u.minute = 0 /\ u.hour = 0
    BY <1>1, <1>2, <1>5
  <2>4. ~(SecondOf(t) < 24 * 60 * 60 - 1) /\ SecondOf(u) = 0
    BY <2>3 DEF SecondOf
  <2>5. u.weekday = (t.weekday + 1) % 7
    BY <1>1, <1>2, <1>5
  <2> QED
    BY <2>2, <2>4, <2>5
<1> QED
  BY <1>4, <1>5

-----------------------------------------------------------------------------
(* The registers hold bits; what is left of the time that was read stands at  *)
(* the low end of the data register; and no interval is shorter than the      *)
(* shortest, which every call of geo_rtc_sync stays below.                    *)
Snapshot ==
  snap # NoTime =>
    \A i \in 1 .. Width - shifts : datareg[i] = Encoded(snap)[i + shifts]

RegInv ==
  /\ cmdreg \in [1 .. 4 -> {0, 1}] /\ datareg \in Bits48
  /\ shifts \in 0 .. Width
  /\ Snapshot
  /\ tpinterval \in Nat /\ tpinterval >= Shortest
  /\ tpcounter \in Nat


(* The rise of STB. *)
LEMMA PerformKeeps ==
  ASSUME RegInv, NEW c, Perform(c)
  PROVE  RegInv'
<1>1. cmdreg' \in [1 .. 4 -> {0, 1}]
  BY DEF Perform, RegInv
<1>2. tpinterval' \in Nat /\ tpinterval' >= Shortest
  BY IntervalBounds DEF Perform, RegInv
<1>3. tpcounter' \in Nat
  BY DEF Perform, RegInv
<1>4. CASE c = 3
  <2>1. datareg' = Encoded(time) /\ snap' = time /\ shifts' = 0
    BY <1>4 DEF Perform
  <2>2. datareg' \in Bits48 /\ shifts' \in 0 .. Width
    BY <2>1, EncodedType DEF Width
  <2>3. Snapshot'
    <3>1. \A i \in 1 .. Width - shifts' : i + shifts' = i
      BY <2>1 DEF Width
    <3> QED
      BY <2>1, <3>1 DEF Snapshot
  <2> QED
    BY <1>1, <1>2, <1>3, <2>2, <2>3 DEF RegInv
<1>5. CASE c # 3
  <2>1. UNCHANGED <<datareg, snap, shifts>>
    BY <1>5 DEF Perform
  <2> QED
    BY <1>1, <1>2, <1>3, <2>1 DEF RegInv, Snapshot
<1> QED
  BY <1>4, <1>5

(* The rise of CLK: each bit of the time moves down by one. *)
LEMMA ShiftKeeps ==
  ASSUME RegInv, NEW din \in {0, 1}, Shift(din)
  PROVE  RegInv'
<1>1. cmdreg' \in [1 .. 4 -> {0, 1}]
  <2>1. cmdreg' = Append(Tail(cmdreg), din) /\ cmdreg \in [1 .. 4 -> {0, 1}]
        /\ 4 \in Nat \ {0}
    BY DEF Shift, RegInv
  <2> QED
    BY <2>1, ShiftBits
<1>2. UNCHANGED <<tpinterval, tpcounter, snap, fmode>>
  BY DEF Shift, pulse
<1>3. CASE fmode # 1
  BY <1>1, <1>2, <1>3 DEF Shift, RegInv, Snapshot
<1>4. CASE fmode = 1
  <2>1. cmdreg[1] \in {0, 1} /\ datareg \in [1 .. Width -> {0, 1}]
        /\ Width \in Nat \ {0}
    BY DEF RegInv, Bits48, Width
  <2>2. datareg' = Append(Tail(datareg), cmdreg[1])
    BY <1>4 DEF Shift
  <2>3. /\ datareg' \in Bits48
        /\ \A i \in 1 .. Width - 1 : datareg'[i] = datareg[i + 1]
    <3>1. /\ Append(Tail(datareg), cmdreg[1]) \in [1 .. Width -> {0, 1}]
          /\ \A i \in 1 .. Width - 1 :
               Append(Tail(datareg), cmdreg[1])[i] = datareg[i + 1]
      BY <2>1, ShiftBits, Zenon
    <3> QED
      BY <2>2, <3>1, Zenon DEF Bits48
  <2>4. CASE shifts < Width
    <3>1. shifts' = shifts + 1 /\ shifts' \in 0 .. Width
      BY <1>4, <2>4 DEF Shift, RegInv, Width
    <3>2. ASSUME snap # NoTime, NEW i \in 1 .. Width - shifts'
          PROVE  datareg'[i] = Encoded(snap)[i + shifts']
      <4>1. /\ i \in 1 .. Width - 1 /\ i + 1 \in 1 .. Width - shifts
            /\ (i + 1) + shifts = i + shifts'
        BY <3>1, <3>2 DEF RegInv, Width
      <4>2. datareg'[i] = datareg[i + 1]
        BY <2>3, <4>1
      <4>3. datareg[i + 1] = Encoded(snap)[(i + 1) + shifts]
        BY <3>2, <4>1 DEF RegInv, Snapshot
      <4> QED
        BY <4>1, <4>2, <4>3
    <3>3. Snapshot'
      BY <1>2, <3>2 DEF Snapshot
    <3> QED
      BY <1>1, <1>2, <2>3, <3>1, <3>3 DEF RegInv
  <2>5. CASE ~(shifts < Width)
    <3>1. shifts' = shifts /\ Width - shifts' = 0
      BY <2>5 DEF Shift, RegInv, Width
    <3>2. Snapshot'
      BY <3>1 DEF Snapshot
    <3> QED
      BY <1>1, <1>2, <2>3, <3>1, <3>2 DEF RegInv
  <2> QED
    BY <2>4, <2>5
<1> QED
  BY <1>3, <1>4

LEMMA WrKeeps ==
  ASSUME RegInv, NEW din \in {0, 1}, NEW c, NEW s, Wr(din, c, s)
  PROVE  RegInv'
<1>1. CASE Perform(Command)
  BY <1>1, PerformKeeps
<1>2. CASE Shift(din)
  BY <1>2, ShiftKeeps
<1>3. CASE UNCHANGED <<cmdreg, datareg, fmode, time, pulse, snap, shifts>>
  BY <1>3 DEF RegInv, Snapshot, pulse
<1> QED
  BY <1>1, <1>2, <1>3 DEF Wr

(* Time passes. *)
LEMMA SyncKeeps ==
  ASSUME RegInv, NEW c \in Costs, Sync(c)
  PROVE  /\ RegInv'
         /\ c \in Nat /\ c < Shortest /\ tpinterval' = tpinterval
         /\ tpcounter' = IF tpmode = "run" THEN TpAfter(tpcounter + c)
                         ELSE tpcounter
<1>1. c \in Nat /\ c < Shortest
  BY CostAssumption, IntervalBounds DEF Shortest
<1>2. /\ tpcounter' = IF tpmode = "run" THEN TpAfter(tpcounter + c)
                      ELSE tpcounter
      /\ UNCHANGED <<cmdreg, datareg, tpinterval, snap, shifts>>
  BY DEF Sync
<1>3. tpcounter' \in Nat
  BY <1>1, <1>2 DEF TpAfter, RegInv
<1>4. RegInv'
  BY <1>2, <1>3 DEF RegInv, Snapshot
<1> QED
  BY <1>1, <1>2, <1>4

(* The clock shows a time there is, less than a second ago. *)
TimeInv == time \in Times /\ cycs \in Nat /\ cycs < SecondCycs

-----------------------------------------------------------------------------
(* The word on its way: the bits already sent are at the high end of the two  *)
(* registers taken as one, and todo has the others.                           *)
Register ==
  [i \in 1 .. Width + 4 |-> IF i <= Width THEN datareg[i] ELSE cmdreg[i - Width]]

Sent == Len(Bits(word)) - Len(todo) + clk

Arriving ==
  /\ Len(todo) <= Len(Bits(word))
  /\ \A i \in 1 .. Len(todo) :
       todo[i] = Bits(word)[Len(Bits(word)) - Len(todo) + i]
  /\ word.at # NoTime => fmode = 1
  /\ \A j \in 1 .. Sent : Register[Width + 4 - Sent + j] = Bits(word)[j]

WordInv ==
  /\ clk \in {0, 1} /\ stb \in {0, 1}
  /\ clk = 1 => todo # <<>>
  /\ stb = 1 => todo = <<>>
  /\ todo # <<>> => word # Nothing
  /\ word # Nothing => word \in program
  /\ word # Nothing /\ stb = 0 => Arriving

(* A word is bits: its command has four, and its data is a register. *)
LEMMA BitsType ==
  ASSUME NEW w, w.cmd \in 0 .. 15
  PROVE  /\ Bits(w) \in Seq({0, 1})
         /\ w.at = NoTime => Bits(w) = CommandBits(w.cmd) /\ Len(Bits(w)) = 4
         /\ w.at # NoTime =>
              /\ Len(Bits(w)) = Width + 4
              /\ \A j \in 1 .. Width : Bits(w)[j] = Encoded(w.at)[j]
              /\ \A j \in 1 .. 4 : Bits(w)[Width + j] = CommandBits(w.cmd)[j]
<1> DEFINE c == CommandBits(w.cmd)
           e == Encoded(w.at)
<1>1. c \in Seq({0, 1}) /\ Len(c) = 4
  <2>1. /\ w.cmd % 2 \in {0, 1} /\ (w.cmd \div 2) % 2 \in {0, 1}
        /\ (w.cmd \div 4) % 2 \in {0, 1} /\ w.cmd \div 8 \in {0, 1}
    OBVIOUS
  <2> QED
    BY <2>1 DEF CommandBits
<1>2. e \in Seq({0, 1}) /\ Len(e) = Width
  <2>1. e \in [1 .. Width -> {0, 1}] /\ Width \in Nat
    BY EncodedType DEF Bits48, Width
  <2>2. e \in Seq({0, 1})
    BY <2>1, SeqDef
  <2>3. DOMAIN e = 1 .. Width /\ DOMAIN e = 1 .. Len(e) /\ Len(e) \in Nat
    BY <2>1, <2>2, LenProperties
  <2> QED
    BY <2>1, <2>2, <2>3
<1>3. <<>> \o c = c
  BY <1>1, EmptySeq, ConcatEmptySeq
<1> HIDE DEF c, e
<1>4. /\ e \o c \in Seq({0, 1}) /\ Len(e \o c) = Len(e) + Len(c)
      /\ \A j \in 1 .. Len(e) : (e \o c)[j] = e[j]
      /\ \A j \in 1 .. Len(c) : (e \o c)[Len(e) + j] = c[j]
  BY <1>1, <1>2, ConcatBits, Zenon
<1>5. CASE w.at = NoTime
  <2>1. Bits(w) = c
    BY <1>3, <1>5 DEF Bits, c
  <2> QED
    BY <1>1, <1>5, <2>1 DEF c
<1>6. CASE w.at # NoTime
  <2>1. Bits(w) = e \o c
    BY <1>6 DEF Bits, c, e
  <2>2. Len(Bits(w)) = Width + 4 /\ Width = 48
    BY <1>1, <1>2, <1>4, <2>1 DEF Width
  <2>3. \A j \in 1 .. Width : Bits(w)[j] = e[j]
    BY <1>2, <1>4, <2>1, Zenon
  <2>4. \A j \in 1 .. 4 : Bits(w)[Width + j] = c[j]
    BY <1>1, <1>2, <1>4, <2>1, Zenon
  <2>5. Bits(w) \in Seq({0, 1})
    BY <1>4, <2>1
  <2> QED
    BY <1>6, <2>2, <2>3, <2>4, <2>5, Zenon DEF c, e
<1> QED
  BY <1>5, <1>6

(* A rise of CLK moves the bits of both registers down by one; those of the   *)
(* data register only in its shift mode.                                      *)
LEMMA RegisterShifts ==
  ASSUME RegInv, NEW din \in {0, 1}, Shift(din)
  PROVE  /\ Register'[Width + 4] = din
         /\ \A i \in 1 .. Width + 3 :
              i > Width \/ fmode = 1 => Register'[i] = Register[i + 1]
<1>1. /\ cmdreg \in [1 .. 4 -> {0, 1}] /\ datareg \in [1 .. Width -> {0, 1}]
      /\ Width \in Nat \ {0} /\ Width = 48 /\ 4 \in Nat \ {0}
  BY DEF RegInv, Bits48, Width
<1>2. cmdreg' = Append(Tail(cmdreg), din)
  BY DEF Shift
<1>3. /\ \A i \in 1 .. 4 - 1 : cmdreg'[i] = cmdreg[i + 1]
      /\ cmdreg'[4] = din
  <2>1. cmdreg'[4] = din
    BY <1>1, <1>2, ShiftBits
  <2>2. \A i \in 1 .. 4 - 1 : Append(Tail(cmdreg), din)[i] = cmdreg[i + 1]
    BY <1>1, ShiftBits, Zenon
  <2> QED
    BY <1>2, <2>1, <2>2, Zenon
<1>4. ASSUME fmode = 1
      PROVE  /\ \A i \in 1 .. Width - 1 : datareg'[i] = datareg[i + 1]
             /\ datareg'[Width] = cmdreg[1]
  <2>1. datareg' = Append(Tail(datareg), cmdreg[1])
    BY <1>4 DEF Shift
  <2>2. cmdreg[1] \in {0, 1}
    BY <1>1
  <2>3. /\ \A i \in 1 .. Width - 1 :
             Append(Tail(datareg), cmdreg[1])[i] = datareg[i + 1]
        /\ Append(Tail(datareg), cmdreg[1])[Width] = cmdreg[1]
    <3>1. datareg \in [1 .. Width -> {0, 1}] /\ Width \in Nat \ {0}
      BY <1>1
    <3> QED
      BY <2>2, <3>1, ShiftBits, Zenon
  <2> QED
    BY <2>1, <2>3, Zenon
<1>5. \A i \in 1 .. Width + 4 :
        Register'[i] = IF i <= Width THEN datareg'[i] ELSE cmdreg'[i - Width]
  BY DEF Register
<1>6. \A i \in 1 .. Width + 4 :
        Register[i] = IF i <= Width THEN datareg[i] ELSE cmdreg[i - Width]
  BY DEF Register
<1>7. Register'[Width + 4] = din
  BY <1>1, <1>3, <1>5
<1>8. ASSUME NEW i \in 1 .. Width + 3, i > Width
      PROVE  Register'[i] = Register[i + 1]
  <2>1. /\ i - Width \in 1 .. 4 - 1 /\ (i + 1) - Width = (i - Width) + 1
        /\ i \in 1 .. Width + 4 /\ i + 1 \in 1 .. Width + 4
        /\ ~(i <= Width) /\ ~(i + 1 <= Width)
    BY <1>1, <1>8
  <2>2. cmdreg'[i - Width] = cmdreg[(i - Width) + 1]
    BY <1>3, <2>1
  <2>3. Register'[i] = cmdreg'[i - Width] /\ Register[i + 1] = cmdreg[(i + 1) - Width]
    BY <1>5, <1>6, <2>1
  <2> QED
    BY <2>1, <2>2, <2>3
<1>9. ASSUME NEW i \in 1 .. Width + 3, i <= Width, fmode = 1
      PROVE  Register'[i] = Register[i + 1]
  <2>1. i \in 1 .. Width + 4 /\ i + 1 \in 1 .. Width + 4
    BY <1>1
  <2>2. CASE i = Width
    <3>1. ~(i + 1 <= Width) /\ (i + 1) - Width = 1
      BY <1>1, <2>2
    <3> QED
      BY <1>4, <1>5, <1>6, <1>9, <2>1, <2>2, <3>1
  <2>3. CASE i # Width
    <3>1. i \in 1 .. Width - 1 /\ i + 1 <= Width
      BY <1>1, <1>9, <2>3
    <3> QED
      BY <1>4, <1>5, <1>6, <1>9, <2>1, <3>1
  <2> QED
    BY <2>2, <2>3
<1>10. \A i \in 1 .. Width + 3 : i > Width \/ i <= Width
  BY <1>1
<1> QED
  BY <1>7, <1>8, <1>9, <1>10

(* What is known of a word that is on its way. *)
LEMMA WordFacts ==
  ASSUME program \in Programs, WordInv, word # Nothing
  PROVE  /\ word \in program /\ word.cmd \in 0 .. 15
         /\ Bits(word) \in Seq({0, 1}) /\ Len(Bits(word)) \in {4, Width + 4}
         /\ Len(Bits(word)) = Width + 4 <=> word.at # NoTime
         /\ Sent = Len(Bits(word)) - Len(todo) + clk
<1>1. word \in program /\ word.cmd \in 0 .. 15
  BY ProgramAssumption DEF WordInv
<1>2. Bits(word) \in Seq({0, 1})
  BY <1>1, BitsType
<1>3. word.at = NoTime => Len(Bits(word)) = 4
  BY <1>1, BitsType
<1>4. word.at # NoTime => Len(Bits(word)) = Width + 4
  BY <1>1, BitsType
<1>5. Width + 4 # 4
  BY DEF Width
<1> QED
  BY <1>1, <1>2, <1>3, <1>4, <1>5 DEF Sent

(* A rise of CLK sends the next bit. *)
LEMMA ClkRiseArrives ==
  ASSUME RegInv, todo \in Seq({0, 1}), program \in Programs, WordInv, ClkRise
  PROVE  WordInv' /\ Shift(Head(todo))
<1> DEFINE n == Len(Bits(word))
           l == Len(todo)
<1>1. todo # <<>> /\ clk = 0 /\ stb = 0 /\ word # Nothing
  BY DEF ClkRise, WordInv
<1>2. Wr(Head(todo), 1, 0) /\ UNCHANGED <<word, todo, program>>
  BY DEF ClkRise, Wr
<1>3. clk' = 1 /\ stb' = 0 /\ Shift(Head(todo))
  BY <1>1, <1>2 DEF Wr
<1>4. /\ Head(todo) \in {0, 1} /\ Head(todo) = todo[1] /\ l \in Nat /\ l >= 1
  BY <1>1
<1>5. /\ n \in {4, Width + 4}
      /\ n = Width + 4 <=> word.at # NoTime
      /\ Sent = n - l + clk
  BY <1>1, WordFacts
<1>6. Arriving
  BY <1>1 DEF WordInv
<1>7. n' = n /\ l' = l /\ l <= n /\ Sent = n - l /\ Width = 48
  BY <1>1, <1>2, <1>4, <1>5, <1>6 DEF Arriving, Width
<1>8. Sent' = Sent + 1 /\ Sent \in Nat /\ Sent + 1 <= n
  <2>1. Sent' = n' - l' + clk'
    BY DEF Sent
  <2>2. n \in Nat
    BY <1>5, <1>7
  <2> HIDE DEF n, l
  <2> QED
    BY <1>3, <1>4, <1>7, <2>1, <2>2
<1>9. fmode' = fmode
  BY <1>3 DEF Shift
<1>10. ASSUME NEW j \in 1 .. Sent'
       PROVE  Register'[Width + 4 - Sent' + j] = Bits(word)[j]
  <2> HIDE DEF n, l
  <2>1. CASE j = Sent'
    <3>1. Width + 4 - Sent' + j = Width + 4
      BY <1>7, <1>8, <2>1
    <3>2. Register'[Width + 4] = todo[1]
      BY <1>3, <1>4, RegisterShifts
    <3>3. 1 \in 1 .. l /\ n - l + 1 = j
      BY <1>4, <1>7, <1>8, <2>1
    <3>4. todo[1] = Bits(word)[n - l + 1]
      BY <1>6, <3>3 DEF Arriving, n, l
    <3> QED
      BY <3>1, <3>2, <3>3, <3>4
  <2>2. CASE j # Sent'
    <3> DEFINE i == Width + 4 - Sent' + j
    <3>1. j \in 1 .. Sent
      BY <1>8, <2>2
    <3>2. i \in 1 .. Width + 3 /\ i + 1 = Width + 4 - Sent + j
      <4>1. PICK k \in 0 .. 51 : Sent = k /\ Sent' = k + 1 /\ Width = 48
        <5>1. n \in {4, 52} /\ Sent \in Nat /\ Sent + 1 <= n
          BY <1>5, <1>7, <1>8
        <5>2. Sent \in 0 .. 51
          BY <5>1
        <5> QED
          BY <1>7, <1>8, <5>2, Zenon
      <4>2. k = Sent /\ j \in 1 .. k /\ i = 48 + 4 - (k + 1) + j
        BY <3>1, <4>1
      <4>3. i \in 1 .. 51 /\ i + 1 = 48 + 4 - k + j
        BY <4>1, <4>2
      <4> HIDE DEF i
      <4> QED
        BY <4>1, <4>2, <4>3
    <3>3. i > Width \/ fmode = 1
      <4>1. CASE word.at # NoTime
        BY <1>6, <4>1 DEF Arriving
      <4>2. CASE word.at = NoTime
        <5>1. n = 4
          BY <1>5, <1>7, <4>2
        <5> QED
          BY <1>7, <1>8, <3>1, <5>1
      <4> QED
        BY <4>1, <4>2
    <3>4. Register'[i] = Register[i + 1]
      BY <1>3, <1>4, <3>2, <3>3, RegisterShifts
    <3>5. Register[Width + 4 - Sent + j] = Bits(word)[j]
      BY <1>6, <3>1 DEF Arriving
    <3> QED
      BY <3>2, <3>4, <3>5
  <2> QED
    BY <2>1, <2>2
<1>11. Arriving'
  <2>1. Bits(word)' = Bits(word)
    BY <1>2 DEF Bits, Encoded, Digits, CommandBits, BitOf
  <2> QED
    BY <1>2, <1>6, <1>9, <1>10, <2>1 DEF Arriving
<1> QED
  BY <1>1, <1>2, <1>3, <1>11 DEF WordInv

(* Its fall keeps the registers and takes the bit off what is to come. *)
LEMMA ClkFallArrives ==
  ASSUME RegInv, todo \in Seq({0, 1}), program \in Programs, WordInv, ClkFall
  PROVE  /\ WordInv' /\ todo' \in Seq({0, 1})
         /\ UNCHANGED <<cmdreg, datareg, fmode, time, pulse, snap, shifts>>
<1> DEFINE n == Len(Bits(word))
           l == Len(todo)
<1>1. todo # <<>> /\ clk = 1 /\ stb = 0 /\ word # Nothing
  BY DEF ClkFall, WordInv
<1>2. /\ clk' = 0 /\ stb' = 0 /\ todo' = Tail(todo) /\ UNCHANGED <<word, program>>
      /\ UNCHANGED <<cmdreg, datareg, fmode, time, pulse, snap, shifts>>
  BY <1>1 DEF ClkFall, Wr
<1>3. /\ todo' \in Seq({0, 1}) /\ Len(todo') = l - 1 /\ l \in Nat
      /\ \A i \in 1 .. l - 1 : todo'[i] = todo[i + 1]
  BY <1>1, <1>2, HeadTailProperties
<1>4. Arriving
  BY <1>1 DEF WordInv
<1>5. Bits(word)' = Bits(word) /\ Register' = Register
  BY <1>2 DEF Bits, Encoded, Digits, CommandBits, BitOf, Register
<1>6. n \in Nat
  BY <1>1, WordFacts DEF Width
<1>7. Sent' = Sent
  <2>1. Sent = n - l + clk /\ Sent' = n - Len(todo') + clk'
    BY <1>5 DEF Sent
  <2> HIDE DEF n, l
  <2> QED
    BY <1>1, <1>2, <1>3, <1>6, <2>1
<1>8. Arriving'
  <2>1. Len(todo') <= n
    BY <1>3, <1>4, <1>6 DEF Arriving
  <2>2. ASSUME NEW i \in 1 .. Len(todo')
        PROVE  todo'[i] = Bits(word)[n - Len(todo') + i]
    <3> HIDE DEF n, l
    <3>1. i \in 1 .. l - 1 /\ i + 1 \in 1 .. l /\ n - Len(todo') + i = n - l + (i + 1)
      BY <1>3, <1>6
    <3>2. todo[i + 1] = Bits(word)[n - l + (i + 1)]
      BY <1>4, <3>1 DEF Arriving, n, l
    <3> QED
      BY <1>3, <3>1, <3>2
  <2>3. word'.at # NoTime => fmode' = 1
    BY <1>2, <1>4 DEF Arriving
  <2> QED
    BY <1>4, <1>5, <1>7, <2>1, <2>2, <2>3 DEF Arriving
<1> QED
  BY <1>1, <1>2, <1>3, <1>8 DEF WordInv

(* A new word has all its bits to come. *)
LEMMA TakeArrives ==
  ASSUME RegInv, todo \in Seq({0, 1}), program \in Programs, WordInv,
         NEW w \in program, Take(w)
  PROVE  WordInv' /\ todo' \in Seq({0, 1})
<1>1. /\ clk = 0 /\ stb = 0 /\ word' = w /\ todo' = Bits(w)
      /\ w.at # NoTime => fmode = 1
      /\ UNCHANGED <<clk, stb, fmode, program>>
  BY DEF Take
<1>2. w.cmd \in 0 .. 15 /\ w # Nothing
  BY ProgramAssumption DEF Nothing
<1>3. Bits(w) \in Seq({0, 1}) /\ Len(Bits(w)) \in Nat
  BY <1>2, BitsType
<1>4. Bits(word)' = Bits(w)
  BY <1>1 DEF Bits, Encoded, Digits, CommandBits, BitOf
<1>5. Sent' = 0
  <2>1. Sent' = Len(Bits(w)) - Len(Bits(w)) + 0
    BY <1>1, <1>4 DEF Sent
  <2> QED
    BY <1>3, <2>1
<1>6. Arriving'
  <2> DEFINE n == Len(Bits(w))
  <2> HIDE DEF n
  <2>1. n \in Nat
    BY <1>3 DEF n
  <2>2. ASSUME NEW i \in 1 .. n PROVE Bits(w)[i] = Bits(w)[n - n + i]
    BY <2>1
  <2> QED
    BY <1>1, <1>4, <1>5, <2>1, <2>2 DEF Arriving, n
<1> QED
  BY <1>1, <1>2, <1>3, <1>6 DEF WordInv

(* When STB rises, the command register holds the word's command, and the     *)
(* data register its data if it has any.                                      *)
LEMMA CommandArrives ==
  ASSUME RegInv, program \in Programs, WordInv, StbRise
  PROVE  /\ WordInv' /\ Perform(word.cmd) /\ Command = word.cmd /\ stb = 0
         /\ word \in program /\ word.cmd \in 0 .. 15
         /\ UNCHANGED <<cycs, word, todo, program>>
         /\ word.at # NoTime => fmode = 1 /\ datareg = Encoded(word.at)
<1> DEFINE n == Len(Bits(word))
<1>1. todo = <<>> /\ word # Nothing /\ stb = 0 /\ clk = 0 /\ Arriving
  BY DEF StbRise, WordInv
<1>2. /\ Perform(Command) /\ clk' = 0 /\ stb' = 1
      /\ UNCHANGED <<cycs, word, todo, program>>
  BY <1>1 DEF StbRise, Wr
<1>3. WordInv'
  BY <1>1, <1>2 DEF WordInv
<1>4. /\ word \in program /\ word.cmd \in 0 .. 15 /\ n \in {4, Width + 4}
      /\ n = Width + 4 <=> word.at # NoTime
      /\ Sent = n - Len(todo) + clk
  BY <1>1, WordFacts
<1>5. Sent = n /\ Width = 48
  <2>1. Len(todo) = 0 /\ Width = 48
    BY <1>1 DEF Width
  <2> HIDE DEF n
  <2> QED
    BY <1>1, <1>4, <2>1
<1>6. \A j \in 1 .. n : Register[Width + 4 - n + j] = Bits(word)[j]
  BY <1>1, <1>5 DEF Arriving
<1>7. /\ cmdreg[1] = Register[49] /\ cmdreg[2] = Register[50]
      /\ cmdreg[3] = Register[51] /\ cmdreg[4] = Register[52]
      /\ \A i \in 1 .. Width : datareg[i] = Register[i]
  BY DEF Register, Width
<1>8. ASSUME NEW k \in 1 .. 4 PROVE Register[48 + k] = CommandBits(word.cmd)[k]
  <2>1. CASE word.at = NoTime
    <3>1. n = 4 /\ Bits(word) = CommandBits(word.cmd)
      BY <1>4, <2>1, BitsType
    <3>2. Width + 4 - n + k = 48 + k
      BY <1>5, <3>1
    <3> QED
      BY <1>6, <3>1, <3>2
  <2>2. CASE word.at # NoTime
    <3>1. n = Width + 4 /\ Bits(word)[Width + k] = CommandBits(word.cmd)[k]
      BY <1>4, <2>2, BitsType
    <3>2. Width + k \in 1 .. n /\ Width + 4 - n + (Width + k) = 48 + k
      BY <1>5, <3>1
    <3> QED
      BY <1>6, <3>1, <3>2
  <2> QED
    BY <2>1, <2>2
<1>9. Command = word.cmd
  <2> DEFINE c == word.cmd
  <2>1. /\ CommandBits(c)[1] = c % 2 /\ CommandBits(c)[2] = (c \div 2) % 2
        /\ CommandBits(c)[3] = (c \div 4) % 2 /\ CommandBits(c)[4] = c \div 8
    BY DEF CommandBits
  <2>2. /\ Register[49] = c % 2 /\ Register[50] = (c \div 2) % 2
        /\ Register[51] = (c \div 4) % 2 /\ Register[52] = c \div 8
    <3>1. /\ Register[48 + 1] = CommandBits(c)[1]
          /\ Register[48 + 2] = CommandBits(c)[2]
          /\ Register[48 + 3] = CommandBits(c)[3]
          /\ Register[48 + 4] = CommandBits(c)[4]
      BY <1>8
    <3> QED
      BY <2>1, <3>1
  <2>3. Command = (c % 2) + 2 * ((c \div 2) % 2) + 4 * ((c \div 4) % 2)
                    + 8 * (c \div 8)
    BY <1>7, <2>2 DEF Command
  <2>4. ASSUME NEW v \in 0 .. 15
        PROVE  v = (v % 2) + 2 * ((v \div 2) % 2) + 4 * ((v \div 4) % 2)
                     + 8 * (v \div 8)
    OBVIOUS
  <2> QED
    BY <1>4, <2>3, <2>4
<1>10. ASSUME word.at # NoTime PROVE fmode = 1 /\ datareg = Encoded(word.at)
  <2>1. n = Width + 4
    BY <1>4, <1>10
  <2>2. ASSUME NEW j \in 1 .. Width PROVE datareg[j] = Encoded(word.at)[j]
    <3>1. j \in 1 .. n /\ Width + 4 - n + j = j
      BY <1>5, <2>1
    <3>2. Bits(word)[j] = Encoded(word.at)[j]
      BY <1>4, <1>10, BitsType
    <3>3. Register[Width + 4 - n + j] = Bits(word)[j]
      BY <1>6, <3>1
    <3> QED
      BY <1>7, <3>1, <3>2, <3>3
  <2>3. datareg \in Bits48 /\ Encoded(word.at) \in Bits48
    BY EncodedType DEF RegInv
  <2>4. datareg = Encoded(word.at)
    BY <2>2, <2>3, SameBits
  <2> QED
    BY <1>1, <1>10, <2>4 DEF Arriving
<1> QED
  BY <1>1, <1>2, <1>3, <1>4, <1>9, <1>10

LEMMA WordUnchanged ==
  ASSUME WordInv, UNCHANGED <<cmdreg, datareg, fmode, clk, stb, software>>
  PROVE  WordInv'
<1>1. Bits(word)' = Bits(word) /\ Register' = Register
  BY DEF Bits, Encoded, Digits, CommandBits, BitOf, Register, software
<1>2. Sent' = Sent
  BY <1>1 DEF Sent, software
<1>3. Arriving => Arriving'
  BY <1>1, <1>2 DEF Arriving, software
<1> QED
  BY <1>3 DEF WordInv, software

(* All of it together. *)
IInv ==
  /\ RegInv /\ todo \in Seq({0, 1}) /\ program \in Programs
  /\ WordInv /\ TimeInv

LEMMA InitInv == Init => IInv
<1> SUFFICES ASSUME Init PROVE IInv
  OBVIOUS
<1>1. cmdreg \in [1 .. 4 -> {0, 1}] /\ datareg \in Bits48 /\ shifts \in 0 .. Width
  BY DEF Init, Bits48, Width
<1>2. tpinterval \in Nat /\ tpinterval >= Shortest /\ tpcounter \in Nat
  BY IntervalBounds DEF Init
<1>3. Snapshot /\ todo \in Seq({0, 1}) /\ program \in Programs
  BY DEF Init, Snapshot
<1>4. WordInv
  BY DEF Init, WordInv
<1>5. TimeInv
  BY TimeAssumption, IntervalBounds DEF Init, TimeInv
<1> QED
  BY <1>1, <1>2, <1>3, <1>4, <1>5 DEF IInv, RegInv

-----------------------------------------------------------------------------
(* The clock as a calendar. *)

LEMMA TimeRange ==
  ASSUME NEW t \in Times
  PROVE  /\ DayNumber(t) \in 0 .. Clock!Days - 1
         /\ SecondOf(t) \in 0 .. Clock!DaySeconds - 1
         /\ t.weekday \in 0 .. 6
<1>1. /\ t.weekday \in 0 .. 6 /\ t.hour \in 0 .. 23 /\ t.minute \in 0 .. 59
      /\ t.second \in 0 .. 59 /\ Date(t)
  BY TimeFields DEF Date
<1>2. DayNumber(t) \in Nat /\ DayNumber(t) <= 365 * 100 + 24
  BY <1>1, DayRange
<1>3. SecondOf(t) \in Nat /\ SecondOf(t) <= 24 * 60 * 60 - 1
  <2>1. PICK h \in 0 .. 23, m \in 0 .. 59, s \in 0 .. 59 :
          SecondOf(t) = (h * 60 + m) * 60 + s
    BY <1>1 DEF SecondOf
  <2> QED
    BY <2>1
<1>4. /\ Clock!Days \in Nat /\ 365 * 100 + 24 <= Clock!Days - 1
      /\ Clock!DaySeconds \in Nat /\ 24 * 60 * 60 - 1 <= Clock!DaySeconds - 1
  BY DEF Clock!Days, Clock!DaySeconds
<1> QED
  BY <1>1, <1>2, <1>3, <1>4

(* geo_rtc_sync counts a second when one is over, and only then. *)
LEMMA SyncElapses ==
  ASSUME TimeInv, NEW c \in Costs, Sync(c)
  PROVE  TimeInv' /\ Clock!Elapse
<1>1. /\ c \in Nat /\ 1 <= c /\ c < SecondCycs /\ SecondCycs \in Nat
      /\ cycs \in Nat /\ cycs < SecondCycs /\ time \in Times
  <2>1. c \in 1 .. Shortest - 1
    BY CostAssumption DEF Shortest
  <2> QED
    BY <2>1, IntervalBounds DEF TimeInv
<1>2. CASE cycs + c >= SecondCycs
  <2>1. PICK stray \in BOOLEAN : time' = ClkInc(time, stray)
    BY <1>2 DEF Sync
  <2>2. cycs' = cycs + c - SecondCycs
    BY <1>2 DEF Sync
  <2>3. /\ cycs' \in Nat /\ cycs' < SecondCycs /\ cycs' < cycs
    BY <1>1, <1>2, <2>2
  <2>4. /\ time' \in Times
        /\ IF SecondOf(time) < 24 * 60 * 60 - 1
           THEN /\ SecondOf(time') = SecondOf(time) + 1
                /\ DayNumber(time') = DayNumber(time)
                /\ time'.weekday = time.weekday
           ELSE /\ SecondOf(time') = 0
                /\ DayNumber(time') = (DayNumber(time) + 1) % (365 * 100 + 25)
                /\ time'.weekday = (time.weekday + 1) % 7
    BY <1>1, <2>1, SecondAfter
  <2>5. Clock!Second
    BY <2>4 DEF Clock!Second, Clock!Days, Clock!DaySeconds, SecondOf
  <2> QED
    BY <1>1, <2>3, <2>4, <2>5 DEF TimeInv, Clock!Elapse
<1>3. CASE ~(cycs + c >= SecondCycs)
  <2>1. cycs' = cycs + c /\ time' = time
    BY <1>3 DEF Sync
  <2>2. cycs' \in Nat /\ cycs' < SecondCycs /\ cycs' # cycs /\ ~(cycs' < cycs)
    BY <1>1, <1>3, <2>1
  <2> QED
    BY <1>1, <2>1, <2>2 DEF TimeInv, Clock!Elapse
<1> QED
  BY <1>2, <1>3

(* Time Set is given a time; no other command moves the clock. *)
LEMMA StbRiseSets ==
  ASSUME RegInv, program \in Programs, WordInv, TimeInv, StbRise
  PROVE  /\ TimeInv' /\ cycs' = cycs
         /\ time' = time \/ Clock!Set
         /\ fmode = 1 /\ word.cmd = 2 /\ word.at # NoTime => time' = word.at
<1>1. /\ Perform(word.cmd) /\ Command = word.cmd /\ stb = 0
      /\ word \in program /\ cycs' = cycs
      /\ word.at # NoTime => datareg = Encoded(word.at)
  BY CommandArrives
<1>2. CASE word.cmd = 2
  <2>1. word.at # NoTime /\ word.at \in Times
    BY <1>1, <1>2, TimeAssumption
  <2>2. time' = word.at
    <3>1. time' = Decoded
      BY <1>1, <1>2 DEF Perform
    <3>2. Decoded = word.at
      BY <1>1, <2>1, DecodedBack
    <3> QED
      BY <3>1, <3>2
  <2>3. /\ DayNumber(time') \in 0 .. Clock!Days - 1
        /\ SecondOf(time') \in 0 .. Clock!DaySeconds - 1
        /\ time'.weekday \in 0 .. 6
    BY <2>1, <2>2, TimeRange
  <2>4. Clock!Set
    BY <1>1, <1>2, <2>3 DEF Clock!Set, SecondOf
  <2> QED
    BY <1>1, <2>1, <2>2, <2>4 DEF TimeInv
<1>3. CASE word.cmd # 2
  <2>1. time' = time
    BY <1>1, <1>3 DEF Perform
  <2> QED
    BY <1>1, <1>3, <2>1 DEF TimeInv
<1> QED
  BY <1>2, <1>3

LEMMA RegUnchanged ==
  ASSUME RegInv,
         UNCHANGED <<cmdreg, datareg, tpinterval, tpcounter, snap, shifts>>
  PROVE  RegInv'
BY DEF RegInv, Snapshot

(* Every step keeps the invariant. *)
LEMMA StepInv == IInv /\ [Next]_vars => IInv'
<1> SUFFICES ASSUME IInv, [Next]_vars PROVE IInv'
  OBVIOUS
<1>0. /\ RegInv /\ todo \in Seq({0, 1}) /\ program \in Programs
      /\ WordInv /\ TimeInv
  BY DEF IInv
<1>1. ASSUME NEW w \in program, Take(w) PROVE IInv'
  <2>1. RegInv'
    BY <1>0, <1>1, RegUnchanged DEF Take, pulse, ghosts
  <2>2. WordInv' /\ todo' \in Seq({0, 1})
    BY <1>0, <1>1, TakeArrives
  <2> QED
    BY <1>0, <1>1, <2>1, <2>2 DEF IInv, Take, TimeInv
<1>2. CASE ClkRise
  <2>1. Wr(Head(todo), 1, 0) /\ Head(todo) \in {0, 1}
        /\ UNCHANGED <<cycs, todo, program>>
    BY <1>0, <1>2 DEF ClkRise, WordInv, Wr
  <2>2. RegInv'
    BY <1>0, <2>1, WrKeeps
  <2>3. WordInv' /\ time' = time
    BY <1>0, <1>2, ClkRiseArrives DEF Shift
  <2> QED
    BY <1>0, <2>1, <2>2, <2>3 DEF IInv, TimeInv
<1>3. CASE ClkFall
  <2>1. /\ WordInv' /\ todo' \in Seq({0, 1})
        /\ UNCHANGED <<cmdreg, datareg, fmode, time, pulse, snap, shifts>>
    BY <1>0, <1>3, ClkFallArrives
  <2>2. UNCHANGED <<cycs, program>>
    BY <1>3 DEF ClkFall, Wr
  <2>3. RegInv'
    BY <1>0, <2>1, RegUnchanged DEF pulse
  <2> QED
    BY <1>0, <2>1, <2>2, <2>3 DEF IInv, TimeInv
<1>4. CASE StbRise
  <2>1. RegInv'
    BY <1>0, <1>4, WrKeeps DEF StbRise
  <2>2. WordInv' /\ TimeInv' /\ UNCHANGED <<todo, program>>
    BY <1>0, <1>4, CommandArrives, StbRiseSets
  <2> QED
    BY <1>0, <2>1, <2>2 DEF IInv
<1>5. CASE StbFall
  <2>1. /\ clk' = 0 /\ stb' = 0 /\ word' = Nothing /\ stb = 1
        /\ UNCHANGED <<cmdreg, datareg, fmode, time, pulse, snap, shifts>>
        /\ UNCHANGED <<cycs, todo, program>>
    BY <1>5 DEF StbFall, Wr
  <2>2. RegInv'
    BY <1>0, <2>1, RegUnchanged DEF pulse
  <2>3. WordInv'
    BY <1>0, <2>1 DEF WordInv
  <2> QED
    BY <1>0, <2>1, <2>2, <2>3 DEF IInv, TimeInv
<1>6. ASSUME NEW c \in Costs, Sync(c) PROVE IInv'
  <2>1. RegInv'
    BY <1>0, <1>6, SyncKeeps
  <2>2. WordInv'
    BY <1>0, <1>6, WordUnchanged DEF Sync
  <2>3. TimeInv' /\ UNCHANGED <<todo, program>>
    BY <1>0, <1>6, SyncElapses DEF Sync, software
  <2> QED
    BY <1>0, <2>1, <2>2, <2>3 DEF IInv
<1>7. CASE UNCHANGED vars
  <2>1. RegInv' /\ WordInv'
    BY <1>0, <1>7, RegUnchanged, WordUnchanged DEF vars, pulse, ghosts
  <2> QED
    BY <1>0, <1>7, <2>1 DEF IInv, TimeInv, vars, software
<1> QED
  BY <1>1, <1>2, <1>3, <1>4, <1>5, <1>6, <1>7 DEF Next

(* The registers hold bits and the copy of the time that was read, and the    *)
(* pulse interval is never below the shortest the chip has: geo_rtc_wr and    *)
(* geo_rtc_sync keep it so, whatever is written and however long it runs.     *)
THEOREM Invariance == Spec => []IInv
<1> QED
  BY InitInv, StepInv, PTL DEF Spec

(* A time that software shifts out of the uPD4990A is the time of one         *)
(* instant: geo_rtc_sync goes on between the 48 reads, and geo_rtc_rd still   *)
(* returns the bits that Time Read took.                                      *)
THEOREM SnapshotCorrect == Spec => []SnapshotShifts
<1>1. IInv => SnapshotShifts
  <2> SUFFICES ASSUME IInv, snap # NoTime, fmode = 1, shifts < Width
               PROVE  DataOut = Encoded(snap)[shifts + 1]
    BY DEF SnapshotShifts
  <2>1. DataOut = datareg[1]
    BY DEF DataOut
  <2>2. 1 \in 1 .. Width - shifts /\ 1 + shifts = shifts + 1
    BY DEF IInv, RegInv, Width
  <2>3. datareg[1] = Encoded(snap)[1 + shifts]
    BY <2>2 DEF IInv, RegInv, Snapshot
  <2> QED
    BY <2>1, <2>2, <2>3
<1> QED
  BY <1>1, Invariance, PTL

(* The pulse counter is stepped by geo_rtc_sync without losing its phase, and *)
(* each call brings it inside its interval or nearer to it, so that TP cannot *)
(* stay high for good after a change to a shorter interval.                   *)
THEOREM PulseCorrect == Spec => PulseCatchesUp
<1> DEFINE Step(c) ==
      /\ (tpcounter' - tpcounter - c) % tpinterval = 0
      /\ tpcounter' < tpinterval \/ tpcounter' < tpcounter
<1>1. ASSUME IInv, NEW c \in Costs, Sync(c), tpmode = "run" PROVE Step(c)
  <2>1. /\ c \in Nat /\ c < Shortest /\ tpcounter \in Nat
        /\ tpinterval \in Nat /\ tpinterval >= Shortest /\ Shortest \in Nat
        /\ tpcounter' = TpAfter(tpcounter + c)
    BY <1>1, SyncKeeps, IntervalBounds DEF IInv, RegInv
  <2>2. CASE tpcounter + c >= tpinterval
    <3>1. tpcounter' = tpcounter + c - tpinterval
      BY <2>1, <2>2 DEF TpAfter
    <3>2. tpcounter' - tpcounter - c = -tpinterval /\ tpcounter' < tpcounter
      BY <2>1, <3>1
    <3>3. (-tpinterval) % tpinterval = 0
      BY <2>1, IntervalBounds
    <3> QED
      BY <3>2, <3>3
  <2>3. CASE ~(tpcounter + c >= tpinterval)
    <3>1. tpcounter' = tpcounter + c
      BY <2>1, <2>3 DEF TpAfter
    <3>2. tpcounter' - tpcounter - c = 0 /\ tpcounter' < tpinterval
      BY <2>1, <2>3, <3>1
    <3>3. 0 % tpinterval = 0
      BY <2>1, IntervalBounds
    <3> QED
      BY <3>2, <3>3
  <2> QED
    BY <2>2, <2>3
<1>2. IInv /\ [Next]_vars =>
        [\A c \in Costs : Sync(c) /\ tpmode = "run" => Step(c)]_vars
  BY <1>1
<1> QED
  BY <1>2, Invariance, PTL DEF Spec, PulseCatchesUp

(* However the cycles of the instructions add up, geo_rtc_sync counts every   *)
(* second of the century once, through the ends of minutes, days, months,     *)
(* leap Februaries and the century, and geo_rtc_wr moves the clock by Time    *)
(* Set only, and then to a time there is: Rtc implements Calendar.            *)
THEOREM ClockCorrect == Spec => ClockSpec
<1>1. ASSUME IInv, [Next]_vars PROVE [Clock!Next]_<<time, cycs>>
  <2>0. /\ RegInv /\ todo \in Seq({0, 1}) /\ program \in Programs
        /\ WordInv /\ TimeInv
    BY <1>1 DEF IInv
  <2>1. ASSUME NEW w \in program, Take(w) PROVE UNCHANGED <<time, cycs>>
    BY <2>1 DEF Take
  <2>2. CASE ClkRise
    BY <2>0, <2>2, ClkRiseArrives DEF Shift, ClkRise, Wr
  <2>3. CASE ClkFall
    BY <2>0, <2>3, ClkFallArrives DEF ClkFall, Wr
  <2>4. CASE StbRise
    BY <2>0, <2>4, StbRiseSets DEF Clock!Next
  <2>5. CASE StbFall
    BY <2>5 DEF StbFall, Wr
  <2>6. ASSUME NEW c \in Costs, Sync(c) PROVE Clock!Next
    BY <2>0, <2>6, SyncElapses DEF Clock!Next
  <2>7. CASE UNCHANGED vars
    BY <2>7 DEF vars
  <2> QED
    BY <1>1, <2>1, <2>2, <2>3, <2>4, <2>5, <2>6, <2>7 DEF Next
<1>2. IInv /\ [Next]_vars => [Clock!Next]_<<time, cycs>>
  BY <1>1
<1> QED
  BY <1>2, Invariance, PTL DEF Spec, ClockSpec

(* A time that software shifts in reaches the clock: the 52 bits go through   *)
(* the command register into the data register, and Time Set finds each digit *)
(* where it looks for it, whatever geo_rtc_sync does meanwhile.               *)
THEOREM SetCorrect == Spec => SetArrives
<1> DEFINE Sets == StbRise /\ fmode = 1 /\ word.cmd = 2 /\ word.at # NoTime
                     => time' = word.at
<1>1. ASSUME IInv PROVE Sets
  BY <1>1, StbRiseSets DEF IInv
<1>2. IInv /\ [Next]_vars => [Sets]_vars
  BY <1>1
<1> QED
  BY <1>2, Invariance, PTL DEF Spec, SetArrives
=============================================================================

---------------------------- MODULE Lc8951_proofs ----------------------------
(***************************************************************************)
(* The decoder's ring of sectors, for every size of the buffer and of a    *)
(* sector, every depth that fits and every disc.                           *)
(***************************************************************************)
EXTENDS Lc8951, SequenceTheorems, TLAPS

LEMMA Sizes ==
  /\ Base \in Nat /\ Base > 1
  /\ BufSize \in Nat
  /\ HeaderSize \in Nat /\ DataSize \in Nat /\ SectorSize \in Nat
  /\ StoreSize \in Nat /\ HeaderSize < StoreSize
  /\ StoreSize <= SectorSize /\ SectorSize < BufSize
BY SizesAssumption DEF BufSize, StoreSize

(***************************************************************************)
(* Arithmetic of addresses.                                                *)
(***************************************************************************)

LEMMA WrapIsAddress ==
  ASSUME NEW a \in Nat, a < 2 * BufSize
  PROVE  Wrap(a) \in Address
BY Sizes DEF Wrap, Address

LEMMA AheadIsBounded ==
  ASSUME NEW a \in Address, NEW b \in Address
  PROVE  Ahead(a, b) \in Nat /\ Ahead(a, b) < BufSize
BY Sizes DEF Ahead, Address

(* Two addresses as far ahead of a third are the same. *)
LEMMA AheadIsInjective ==
  ASSUME NEW p \in Address, NEW a \in Address, NEW b \in Address,
         Ahead(a, p) = Ahead(b, p)
  PROVE  a = b
BY Sizes DEF Ahead, Address

LEMMA AheadOfWrap ==
  ASSUME NEW p \in Address, NEW n \in Nat, n < BufSize
  PROVE  Wrap(p + n) \in Address /\ Ahead(Wrap(p + n), p) = n
BY Sizes DEF Wrap, Ahead, Address

(* What lies `at' bytes into a sector that starts k behind w is B - k + at    *)
(* ahead of w, as long as it does not reach w.                                *)
LEMMA AheadBehind ==
  ASSUME NEW w \in Address, NEW p \in Address, NEW at \in Nat,
         at < Ahead(w, p)
  PROVE  /\ Wrap(p + at) \in Address
         /\ Ahead(Wrap(p + at), w) = BufSize - Ahead(w, p) + at
<1>1. p + at < 2 * BufSize
  BY Sizes DEF Ahead, Address
<1>2. Wrap(p + at) \in Address
  BY <1>1, WrapIsAddress, Sizes DEF Address
<1>3. CASE w >= p
  BY <1>3, Sizes DEF Wrap, Ahead, Address
<1>4. CASE w < p
  BY <1>4, Sizes DEF Wrap, Ahead, Address
<1> QED
  BY <1>2, <1>3, <1>4, Sizes DEF Address

(* A sector further on. *)
LEMMA AheadNext ==
  ASSUME NEW w \in Address, NEW p \in Address, NEW n \in Nat,
         Ahead(w, p) + n < BufSize
  PROVE  Ahead(Wrap(w + n), p) = Ahead(w, p) + n
BY Sizes DEF Wrap, Ahead, Address

(* Depth sectors fit, so that fewer do. *)
LEMMA FewerFit ==
  ASSUME NEW i \in Nat, i < Depth
  PROVE  /\ i * SectorSize \in Nat
         /\ i * SectorSize + StoreSize <= BufSize
<1> DEFINE rest == Depth - 1 - i
<1>1. rest \in Nat /\ Depth - 1 = i + rest
  BY DepthAssumption
<1>2. i * SectorSize \in Nat /\ rest * SectorSize \in Nat
  BY <1>1, Sizes
<1>3. (i + rest) * SectorSize = i * SectorSize + rest * SectorSize
  BY <1>1, Sizes
<1>4. (Depth - 1) * SectorSize + StoreSize <= BufSize
  BY DepthAssumption
<1> HIDE DEF rest
<1> QED
  BY <1>1, <1>2, <1>3, <1>4, Sizes

(***************************************************************************)
(* The inductive invariant.  Holds says that a sector is whole, not why    *)
(* the next one will not touch it: for that, the sectors must be spaced.   *)
(***************************************************************************)

Entry == [at : Address, lba : Lba]

(* Sector i starts i sectors before WAL; only the oldest may be overwritten.  *)
Spaced ==
  \A i \in 1..Len(recent) :
    i < Depth => Ahead(wal, recent[i].at) = i * SectorSize

Ring ==
  /\ wal \in Address
  /\ recent \in Seq(Entry)
  /\ Len(recent) <= Depth
  /\ Spaced
  /\ RecentIntact

(* Holds, of any contents of the buffer. *)
HoldsIn(buf, pos, lba) ==
  \A at \in 0..StoreSize - 1 :
    /\ buf[Wrap(pos + at)].at = at
    /\ at < HeaderSize => buf[Wrap(pos + at)].src = lba
    /\ (at >= HeaderSize /\ lba \in Readable) => buf[Wrap(pos + at)].src = lba

LEMMA RecentHolds ==
  /\ RecentIntact <=>
       \A i \in 1..Len(recent) : HoldsIn(buffer, recent[i].at, recent[i].lba)
  /\ RecentIntact' <=>
       \A i \in 1..Len(recent') : HoldsIn(buffer', recent'[i].at, recent'[i].lba)
BY DEF RecentIntact, Holds, HoldsIn

(* What the array holds once a sector has been decoded: a sector that can be  *)
(* read is the disc's, and is patched only when the bypass is spent on it.    *)
LEMMA ArrayAfter ==
  ASSUME NEW lba \in Lba, SectorDecoded(lba)
  PROVE  /\ Store(wal, lba, sector')
         /\ lba \in Readable => sector'.src = lba
         /\ lba \in Readable /\ sector'.patched => ~bypassed /\ bypassed'
         /\ bypassed => bypassed'
<1>1. PICK data \in ReadSector(lba) : Bypass(data)
  BY DEF SectorDecoded
<1>2. ASSUME lba \in Readable
      PROVE  /\ sector'.src = lba
             /\ sector'.patched => ~bypassed /\ bypassed'
  <2>1. data = [src |-> lba, patched |-> FALSE]
    BY <1>2 DEF ReadSector, Disc
  <2> QED
    BY <1>1, <2>1 DEF Bypass, Patch, Matches
<1>3. bypassed => bypassed'
  BY <1>1 DEF Bypass
<1> QED
  BY <1>2, <1>3 DEF SectorDecoded

(* A sector that is decoded is whole. *)
LEMMA NewHolds ==
  ASSUME wal \in Address, NEW lba \in Lba, NEW data,
         lba \in Readable => data.src = lba,
         Store(wal, lba, data)
  PROVE  HoldsIn(buffer', wal, lba)
<1> SUFFICES ASSUME NEW at \in 0..StoreSize - 1
             PROVE  /\ buffer'[Wrap(wal + at)].at = at
                    /\ at < HeaderSize => buffer'[Wrap(wal + at)].src = lba
                    /\ (at >= HeaderSize /\ lba \in Readable) =>
                         buffer'[Wrap(wal + at)].src = lba
  BY DEF HoldsIn
<1>1. at \in Nat /\ at < StoreSize /\ at < BufSize
  BY Sizes
<1>2. Wrap(wal + at) \in Address /\ Ahead(Wrap(wal + at), wal) = at
  BY <1>1, AheadOfWrap
<1>3. buffer'[Wrap(wal + at)] = SectorByte(lba, data, at)
  BY <1>1, <1>2 DEF Store
<1> QED
  BY <1>1, <1>3, Sizes DEF SectorByte

(* It leaves one alone that starts far enough behind it. *)
LEMMA OldHolds ==
  ASSUME wal \in Address, NEW lba, NEW data,
         Store(wal, lba, data),
         NEW p \in Address, NEW old, HoldsIn(buffer, p, old),
         StoreSize <= Ahead(wal, p), Ahead(wal, p) + StoreSize <= BufSize
  PROVE  HoldsIn(buffer', p, old)
<1> SUFFICES ASSUME NEW at \in 0..StoreSize - 1
             PROVE  buffer'[Wrap(p + at)] = buffer[Wrap(p + at)]
  BY DEF HoldsIn
<1>1. at \in Nat /\ at < StoreSize
  BY Sizes
<1>2. Ahead(wal, p) \in Nat /\ at < Ahead(wal, p)
  BY <1>1, AheadIsBounded, Sizes
<1>3. /\ Wrap(p + at) \in Address
      /\ Ahead(Wrap(p + at), wal) = BufSize - Ahead(wal, p) + at
  BY <1>1, <1>2, AheadBehind
<1>4. ~(Ahead(Wrap(p + at), wal) < StoreSize)
  BY <1>1, <1>2, <1>3, Sizes
<1> QED
  BY <1>3, <1>4 DEF Store

(* The history after a sector: the new one first, the others as they were.    *)
LEMMA Pushed ==
  ASSUME recent \in Seq(Entry), Len(recent) <= Depth, NEW e \in Entry,
         recent' = SubSeq(<<e>> \o recent, 1,
                      IF Len(recent) < Depth THEN Len(recent) + 1 ELSE Depth)
  PROVE  /\ recent' \in Seq(Entry)
         /\ Len(recent') <= Depth /\ Len(recent') <= Len(recent) + 1
         /\ Len(recent') = Depth \/ Len(recent') = Len(recent) + 1
         /\ recent'[1] = e
         /\ \A i \in 2..Len(recent') : recent'[i] = recent[i - 1]
<1> DEFINE all == <<e>> \o recent
           n == IF Len(recent) < Depth THEN Len(recent) + 1 ELSE Depth
<1>1. /\ all \in Seq(Entry) /\ Len(all) = Len(recent) + 1
      /\ all[1] = e
      /\ \A i \in 2..Len(all) : all[i] = recent[i - 1]
  OBVIOUS
<1>2. n \in 1..Len(all) /\ n <= Depth
  BY <1>1, DepthAssumption
<1>3. recent' = SubSeq(all, 1, n)
  OBVIOUS
<1>5. n = Depth \/ n = Len(recent) + 1
  OBVIOUS
<1> HIDE DEF all, n
<1>4. /\ recent' \in Seq(Entry) /\ Len(recent') = n
      /\ \A i \in 1..n : recent'[i] = all[i]
  <2>1. \A i \in 1..n : all[i] \in Entry
    BY <1>1, <1>2
  <2>2. n \in Int /\ 1 <= n
    BY <1>1, <1>2
  <2>3. /\ SubSeq(all, 1, n) \in Seq(Entry)
        /\ Len(SubSeq(all, 1, n)) = n
        /\ \A i \in 1..n - 1 + 1 : SubSeq(all, 1, n)[i] = all[1 + i - 1]
    BY <2>1, <2>2, SubSeqProperties
  <2>4. \A i \in 1..n : i \in 1..n - 1 + 1 /\ 1 + i - 1 = i
    BY <2>2
  <2> DEFINE first == SubSeq(all, 1, n)
  <2>5. recent' = first
    BY <1>3
  <2>6. /\ first \in Seq(Entry) /\ Len(first) = n
        /\ \A i \in 1..n - 1 + 1 : first[i] = all[1 + i - 1]
    BY <2>3
  <2> HIDE DEF first
  <2>7. \A i \in 1..n : first[i] = all[i]
    BY <2>4, <2>6
  <2> QED
    BY <2>5, <2>6, <2>7
<1> QED
  BY <1>1, <1>2, <1>4, <1>5

(* The heart of the argument: what is decoded at WAL is whole, what was       *)
(* decoded before is as far behind as it is old, and Depth such sectors fit.  *)
LEMMA DecodedKeepsRing ==
  ASSUME Ring, NEW lba \in Lba, SectorDecoded(lba)
  PROVE  Ring'
<1> DEFINE e == [at |-> wal, lba |-> lba]
<1>1. /\ wal \in Address /\ wal' = Wrap(wal + SectorSize)
      /\ recent \in Seq(Entry) /\ Len(recent) \in Nat /\ Len(recent) <= Depth
      /\ e \in Entry
  BY DEF Ring, SectorDecoded, PointAtSector, Entry
<1>2. /\ recent' \in Seq(Entry)
      /\ Len(recent') <= Depth /\ Len(recent') <= Len(recent) + 1
      /\ recent'[1] = e
      /\ \A i \in 2..Len(recent') : recent'[i] = recent[i - 1]
  <2>1. recent' = SubSeq(<<e>> \o recent, 1,
                    IF Len(recent) < Depth THEN Len(recent) + 1 ELSE Depth)
    BY DEF SectorDecoded
  <2> HIDE DEF e
  <2> QED
    BY <1>1, <2>1, Pushed
<1>3. Len(recent') \in Nat
  BY <1>2
<1>4. Store(wal, lba, sector') /\ (lba \in Readable => sector'.src = lba)
  BY ArrayAfter
<1>5. ASSUME NEW i \in 2..Len(recent')
      PROVE  /\ i - 1 \in 1..Len(recent) /\ i - 1 < Depth
             /\ recent'[i] = recent[i - 1]
             /\ recent[i - 1].at \in Address
             /\ Ahead(wal, recent[i - 1].at) = (i - 1) * SectorSize
  <2>1. i \in Int /\ i - 1 \in 1..Len(recent) /\ i - 1 < Depth
    BY <1>1, <1>2, <1>3, DepthAssumption
  <2>2. recent[i - 1] \in Entry
    BY <1>1, <2>1
  <2> QED
    BY <1>2, <2>1, <2>2 DEF Ring, Spaced, Entry
<1>6. wal' \in Address
  <2>1. wal + SectorSize \in Nat /\ wal + SectorSize < 2 * BufSize
    BY <1>1, Sizes DEF Address
  <2> QED
    BY <1>1, <2>1, WrapIsAddress
<1>7. Spaced'
  <2> SUFFICES ASSUME NEW i \in 1..Len(recent'), i < Depth
               PROVE  Ahead(wal', recent'[i].at) = i * SectorSize
    BY DEF Spaced
  <2>1. CASE i = 1
    <3>1. Ahead(Wrap(wal + SectorSize), wal) = SectorSize
      BY <1>1, AheadOfWrap, Sizes
    <3> QED
      BY <1>1, <1>2, <2>1, <3>1, Sizes
  <2>2. CASE i # 1
    <3>1. i \in 2..Len(recent') /\ i \in Nat /\ i - 1 \in Nat
      BY <1>3, <2>2
    <3> DEFINE p == recent[i - 1].at
               k == (i - 1) * SectorSize
    <3>2. p \in Address /\ Ahead(wal, p) = k /\ recent'[i].at = p
      BY <1>5, <3>1
    <3>3. k + SectorSize = i * SectorSize
      BY <3>1, Sizes
    <3>4. i * SectorSize \in Nat /\ i * SectorSize + StoreSize <= BufSize
      BY <3>1, FewerFit
    <3>5. Ahead(wal, p) + SectorSize < BufSize
      BY <3>2, <3>3, <3>4, Sizes
    <3> HIDE DEF p, k
    <3>6. Ahead(Wrap(wal + SectorSize), p) = Ahead(wal, p) + SectorSize
      BY <1>1, <3>2, <3>5, AheadNext, Sizes
    <3> QED
      BY <1>1, <3>2, <3>3, <3>6
  <2> QED
    BY <2>1, <2>2
<1>8. \A i \in 1..Len(recent') :
        HoldsIn(buffer', recent'[i].at, recent'[i].lba)
  <2> SUFFICES ASSUME NEW i \in 1..Len(recent')
               PROVE  HoldsIn(buffer', recent'[i].at, recent'[i].lba)
    OBVIOUS
  <2>1. CASE i = 1
    <3>1. HoldsIn(buffer', wal, lba)
      BY <1>1, <1>4, NewHolds
    <3> QED
      BY <1>2, <2>1, <3>1
  <2>2. CASE i # 1
    <3>1. i \in 2..Len(recent') /\ i - 1 \in Nat /\ i - 1 >= 1
      BY <1>3, <2>2
    <3> DEFINE r == recent[i - 1]
               k == (i - 1) * SectorSize
    <3>2. r.at \in Address /\ Ahead(wal, r.at) = k /\ recent'[i] = r
          /\ i - 1 \in 1..Len(recent) /\ i - 1 < Depth
      BY <1>5, <3>1
    <3>3. HoldsIn(buffer, r.at, r.lba)
      BY <3>2, RecentHolds DEF Ring
    <3>4. k \in Nat /\ k + StoreSize <= BufSize
      BY <3>1, <3>2, FewerFit
    <3>5. SectorSize <= k
      <4>1. ASSUME NEW n \in Nat, n >= 1 PROVE SectorSize <= n * SectorSize
        <5>1. n - 1 \in Nat /\ (n - 1) * SectorSize \in Nat
          BY <4>1, Sizes
        <5>2. n * SectorSize = (n - 1) * SectorSize + SectorSize
          BY <4>1, Sizes
        <5> QED
          BY <5>1, <5>2, Sizes
      <4> QED
        BY <3>1, <4>1
    <3> HIDE DEF r, k
    <3>6. StoreSize <= Ahead(wal, r.at) /\ Ahead(wal, r.at) + StoreSize <= BufSize
      BY <3>2, <3>4, <3>5, Sizes
    <3>7. HoldsIn(buffer', r.at, r.lba)
      BY <1>1, <1>4, <3>2, <3>3, <3>6, OldHolds
    <3> QED
      BY <3>2, <3>7
  <2> QED
    BY <2>1, <2>2
<1> QED
  BY <1>2, <1>6, <1>7, <1>8, RecentHolds DEF Ring

(***************************************************************************)
(* The steps of the decoder's ring.                                        *)
(***************************************************************************)

LEMMA DigitBelow ==
  ASSUME NEW n \in Nat, NEW q \in Nat, q < n, NEW d \in Digit
  PROVE  q * Base + d \in Nat /\ q * Base + d < n * Base
<1>1. n - 1 - q \in Nat /\ n = q + 1 + (n - 1 - q)
  OBVIOUS
<1>2. n * Base = q * Base + Base + (n - 1 - q) * Base
  BY <1>1, Sizes
<1>3. q * Base \in Nat /\ (n - 1 - q) * Base \in Nat
  BY <1>1, Sizes
<1> QED
  BY <1>2, <1>3, Sizes DEF Digit

(* A number of two digits has them. *)
LEMMA Digits ==
  ASSUME NEW n \in Nat, NEW a \in Nat, a < n * Base
  PROVE  /\ a \div Base \in Nat /\ a \div Base < n
         /\ a % Base \in Digit
<1>1. a \div Base \in Nat /\ a % Base \in Nat /\ a % Base < Base
  BY Sizes
<1>2. a = Base * (a \div Base) + (a % Base)
  BY Sizes
<1>3. ASSUME NEW q \in Nat, q >= n, a = Base * q + (a % Base) PROVE FALSE
  <2>1. q - n \in Nat /\ Base * q = Base * n + Base * (q - n)
    BY <1>3, Sizes
  <2>2. Base * (q - n) \in Nat /\ Base * n = n * Base
    BY <2>1, Sizes
  <2> QED
    BY <1>1, <1>3, <2>1, <2>2, Sizes
<1> QED
  BY <1>1, <1>2, <1>3, Sizes DEF Digit

(* Writing either byte of a register gives a number of its width. *)
LEMMA WithDigits ==
  ASSUME NEW n \in Nat, n > 0, NEW a \in Nat, a < n * Base, NEW d \in Digit
  PROVE  /\ WithLow(a, d) \in Nat /\ WithLow(a, d) < n * Base
         /\ d < n => WithHigh(a, d) \in Nat /\ WithHigh(a, d) < n * Base
<1>1. /\ a \div Base \in Nat /\ a \div Base < n
      /\ a % Base \in Digit /\ d \in Nat
  BY Digits DEF Digit
<1> QED
  BY <1>1, DigitBelow DEF WithLow, WithHigh

LEMMA WithAddress ==
  ASSUME NEW a \in Address, NEW d \in Digit
  PROVE  WithLow(a, d) \in Address /\ WithHigh(a, d) \in Address
<1>1. a \in Nat /\ a < Base * Base /\ d < Base
  BY Sizes DEF Address, BufSize, Digit
<1> QED
  BY <1>1, WithDigits, Sizes DEF Address, BufSize

LEMMA RingElsewhere ==
  ASSUME Ring, UNCHANGED <<buffer, wal, recent>>
  PROVE  Ring'
BY DEF Ring, Spaced, RecentIntact, Holds

LEMMA RingRestarts ==
  ASSUME wal' \in Address, recent' = <<>>
  PROVE  Ring'
<1>1. recent' \in Seq(Entry) /\ Len(recent') = 0
  OBVIOUS
<1> QED
  BY <1>1, DepthAssumption DEF Ring, Spaced, RecentIntact

LEMMA RingStep ==
  ASSUME Ring, [Next]_vars
  PROVE  Ring'
<1> USE DEF Ring
<1>1. ASSUME NEW lba \in Lba, SectorDecoded(lba) PROVE Ring'
  BY <1>1, DecodedKeepsRing
<1>2. ASSUME NEW reg \in 0..15, SelectReg(reg) PROVE Ring'
  BY <1>2, RingElsewhere DEF SelectReg
<1>3. CASE ReadReg \/ Transfer
  BY <1>3, RingElsewhere DEF ReadReg, Transfer
<1>4. CASE WriteIgnored \/ WriteDtrg \/ WriteDtack
  BY <1>4, RingElsewhere DEF WriteIgnored, WriteDtrg, WriteDtack
<1>5. CASE WriteReset
  BY <1>5, RingRestarts, Sizes DEF WriteReset, ResetState, Address
<1>6. ASSUME NEW enables \in SUBSET Enables, WriteIfctrl(enables) PROVE Ring'
  BY <1>6, RingElsewhere DEF WriteIfctrl
<1>7. ASSUME NEW d \in Digit, WriteDbc(d) \/ WriteDac(d) \/ WritePtl(d)
      PROVE  Ring'
  BY <1>7, RingElsewhere DEF WriteDbc, WriteDac, WritePtl
<1>8. ASSUME NEW d \in Digit, WriteWal(d) PROVE Ring'
  <2>1. WithLow(wal, d) \in Address /\ WithHigh(wal, d) \in Address
    BY WithAddress
  <2>2. wal' \in Address /\ recent' = <<>>
    BY <1>8, <2>1 DEF WriteWal
  <2> QED
    BY <2>2, RingRestarts
<1>9. ASSUME NEW on \in BOOLEAN, WriteCtrl0(on) \/ WriteCtrl1(on) PROVE Ring'
  BY <1>9, RingElsewhere DEF WriteCtrl0, WriteCtrl1
<1>10. CASE UNCHANGED vars
  BY <1>10, RingElsewhere DEF vars
<1> QED
  BY <1>1, <1>2, <1>3, <1>4, <1>5, <1>6, <1>7, <1>8, <1>9, <1>10
  DEF Next, Write

LEMMA RingInit == Init => Ring
<1> SUFFICES ASSUME Init PROVE Ring
  OBVIOUS
<1>1. recent \in Seq(Entry) /\ Len(recent) = 0
  BY DEF Init
<1> QED
  BY <1>1, Sizes, DepthAssumption
  DEF Init, Ring, Spaced, RecentIntact, Address

(* Depth sectors stay whole behind WAL, wherever software has set it, however *)
(* often it has wrapped and whatever else is written and transferred.         *)
THEOREM RecentCorrect == Spec => []RecentIntact
<1>1. Spec => []Ring
  BY RingInit, RingStep, PTL DEF Spec
<1>2. Ring => RecentIntact
  BY DEF Ring
<1> QED
  BY <1>1, <1>2, PTL

(***************************************************************************)
(* The protection bypass.                                                  *)
(***************************************************************************)

(* No sector that could be read is patched before the bypass is spent, and one *)
(* at most after.  What the array on the stack holds does not matter.          *)
Once ==
  /\ wal \in Address
  /\ ~bypassed => \A a \in Address : ~PatchedRead(a)
  /\ PatchedOnce

LEMMA DecodedPatchesOnce ==
  ASSUME Once, NEW lba \in Lba, SectorDecoded(lba)
  PROVE  Once'
<1> DEFINE patch == ~bypassed /\ bypassed'
<1>1. /\ Store(wal, lba, sector')
      /\ lba \in Readable /\ sector'.patched => patch
      /\ bypassed => bypassed'
  BY ArrayAfter
<1>2. ASSUME NEW a \in Address, PatchedRead(a)'
      PROVE  \/ PatchedRead(a)
             \/ patch /\ Ahead(a, wal) = HeaderSize
  <2>1. CASE Ahead(a, wal) < StoreSize
    <3>1. buffer'[a] = SectorByte(lba, sector', Ahead(a, wal))
      BY <1>1, <2>1 DEF Store
    <3>2. /\ buffer'[a].of = lba
          /\ buffer'[a].patched = (sector'.patched /\ Ahead(a, wal) = HeaderSize)
      BY <3>1 DEF SectorByte
    <3>3. buffer'[a].patched /\ buffer'[a].of \in Readable
      BY <1>2 DEF PatchedRead
    <3> QED
      BY <1>1, <3>2, <3>3
  <2>2. CASE ~(Ahead(a, wal) < StoreSize)
    BY <1>1, <1>2, <2>2 DEF Store, PatchedRead
  <2> QED
    BY <2>1, <2>2
<1>3. wal' \in Address
  <2>1. wal + SectorSize \in Nat /\ wal + SectorSize < 2 * BufSize
    BY Sizes DEF Once, Address
  <2> QED
    BY <2>1, WrapIsAddress DEF SectorDecoded, PointAtSector
<1>4. ASSUME ~bypassed', NEW a \in Address PROVE ~PatchedRead(a)'
  BY <1>1, <1>2, <1>4 DEF Once
<1>5. ASSUME NEW a \in Address, NEW b \in Address,
             PatchedRead(a)', PatchedRead(b)'
      PROVE  a = b
  <2>1. CASE patch
    <3>1. ~PatchedRead(a) /\ ~PatchedRead(b)
      BY <2>1 DEF Once
    <3>2. Ahead(a, wal) = Ahead(b, wal)
      BY <1>2, <1>5, <3>1
    <3> QED
      BY <3>2, AheadIsInjective DEF Once
  <2>2. CASE ~patch
    <3>1. PatchedRead(a) /\ PatchedRead(b)
      BY <1>2, <1>5, <2>2
    <3> QED
      BY <3>1 DEF Once, PatchedOnce
  <2> QED
    BY <2>1, <2>2
<1>6. Address' = Address
  BY DEF Address, BufSize
<1> QED
  BY <1>3, <1>4, <1>5, <1>6 DEF Once, PatchedOnce

LEMMA OnceElsewhere ==
  ASSUME Once, UNCHANGED <<buffer, wal, bypassed>>
  PROVE  Once'
BY DEF Once, PatchedOnce, PatchedRead

LEMMA OnceStep ==
  ASSUME Once, [Next]_vars
  PROVE  Once'
<1>1. ASSUME NEW lba \in Lba, SectorDecoded(lba) PROVE Once'
  BY <1>1, DecodedPatchesOnce
<1>2. ASSUME NEW reg \in 0..15, SelectReg(reg) PROVE Once'
  BY <1>2, OnceElsewhere DEF SelectReg
<1>3. CASE ReadReg \/ Transfer
  BY <1>3, OnceElsewhere DEF ReadReg, Transfer
<1>4. CASE WriteIgnored \/ WriteDtrg \/ WriteDtack
  BY <1>4, OnceElsewhere DEF WriteIgnored, WriteDtrg, WriteDtack
<1>5. CASE WriteReset
  BY <1>5, Sizes
  DEF WriteReset, ResetState, ZeroByte, Once, PatchedOnce, PatchedRead,
      Address
<1>6. ASSUME NEW enables \in SUBSET Enables, WriteIfctrl(enables) PROVE Once'
  BY <1>6, OnceElsewhere DEF WriteIfctrl
<1>7. ASSUME NEW d \in Digit, WriteDbc(d) \/ WriteDac(d) \/ WritePtl(d)
      PROVE  Once'
  BY <1>7, OnceElsewhere DEF WriteDbc, WriteDac, WritePtl
<1>8. ASSUME NEW d \in Digit, WriteWal(d) PROVE Once'
  <2>1. WithLow(wal, d) \in Address /\ WithHigh(wal, d) \in Address
    BY WithAddress DEF Once
  <2>2. wal' \in Address /\ UNCHANGED <<buffer, bypassed>>
    BY <1>8, <2>1 DEF WriteWal
  <2> QED
    BY <2>2 DEF Once, PatchedOnce, PatchedRead
<1>9. ASSUME NEW on \in BOOLEAN, WriteCtrl0(on) \/ WriteCtrl1(on) PROVE Once'
  BY <1>9, OnceElsewhere DEF WriteCtrl0, WriteCtrl1
<1>10. CASE UNCHANGED vars
  BY <1>10, OnceElsewhere DEF vars
<1> QED
  BY <1>1, <1>2, <1>3, <1>4, <1>5, <1>6, <1>7, <1>8, <1>9, <1>10
  DEF Next, Write

(* The bypass changes at most one byte of the sectors that could be read,     *)
(* however often the protected one is read, however many look like it, and    *)
(* whatever sectors that cannot be read leave in the array and in the buffer. *)
THEOREM PatchCorrect == Spec => []PatchedOnce
<1>1. Init => Once
  BY Sizes DEF Init, Once, PatchedOnce, PatchedRead, ZeroByte, Address
<1>2. Spec => []Once
  BY <1>1, OnceStep, PTL DEF Spec
<1>3. Once => PatchedOnce
  BY DEF Once
<1> QED
  BY <1>2, <1>3, PTL

(***************************************************************************)
(* Types.                                                                  *)
(***************************************************************************)

LEMMA SectorByteType ==
  ASSUME NEW lba \in Lba, NEW data \in Contents, NEW at \in 0..StoreSize - 1
  PROVE  SectorByte(lba, data, at) \in Byte
<1>1. data.src \in Lba \cup {Garbage} /\ data.patched \in BOOLEAN
  BY DEF Contents
<1>2. (data.patched /\ at = HeaderSize) \in BOOLEAN
  OBVIOUS
<1> QED
  BY <1>1, <1>2 DEF SectorByte, Byte

LEMMA ArrayType ==
  ASSUME TypeOK, NEW lba \in Lba, SectorDecoded(lba)
  PROVE  sector' \in Contents /\ bypassed' \in BOOLEAN
<1>1. PICK data \in ReadSector(lba) : Bypass(data)
  BY DEF SectorDecoded
<1>2. data \in Contents
  <2>1. \A src \in Lba \cup {Garbage} : Disc(src) \in Contents
    BY DEF Disc, Contents
  <2>2. sector \in Contents
    BY DEF TypeOK
  <2>3. data \in {sector, Disc(Garbage), Disc(lba)}
    BY <1>1 DEF ReadSector
  <2> QED
    BY <2>1, <2>2, <2>3
<1>3. sector' = [data EXCEPT !.patched = @ \/ (~bypassed /\ Matches(data))]
  BY <1>1 DEF Bypass, Patch
<1>4. (data.patched \/ (~bypassed /\ Matches(data))) \in BOOLEAN
  OBVIOUS
<1> QED
  BY <1>1, <1>2, <1>3, <1>4 DEF Bypass, Contents

LEMMA DecodedType ==
  ASSUME TypeOK, NEW lba \in Lba, SectorDecoded(lba)
  PROVE  TypeOK'
<1> USE DEF TypeOK
<1>1. /\ Store(wal, lba, sector')
      /\ sector' \in Contents /\ bypassed' \in BOOLEAN
  BY ArrayAfter, ArrayType
<1>2. buffer' \in [Address -> Byte]
  <2>2. buffer' = [a \in Address |->
                     IF Ahead(a, wal) < StoreSize
                     THEN SectorByte(lba, sector', Ahead(a, wal))
                     ELSE buffer[a]]
    BY <1>1 DEF Store
  <2>3. ASSUME NEW a \in Address, Ahead(a, wal) < StoreSize
        PROVE  SectorByte(lba, sector', Ahead(a, wal)) \in Byte
    <3>1. Ahead(a, wal) \in Nat
      BY AheadIsBounded
    <3>2. Ahead(a, wal) \in 0..StoreSize - 1
      BY <2>3, <3>1, Sizes
    <3> QED
      BY <1>1, <3>2, SectorByteType
  <2> QED
    BY <2>2, <2>3
<1>3. wal' \in Address
  <2>1. wal + SectorSize \in Nat /\ wal + SectorSize < 2 * BufSize
    BY Sizes DEF Address
  <2> QED
    BY <2>1, WrapIsAddress DEF SectorDecoded, PointAtSector
<1>4. recent' \in Seq([at : Address, lba : Lba]) /\ Len(recent') <= Depth
  <2> DEFINE e == [at |-> wal, lba |-> lba]
  <2>1. e \in Entry /\ recent \in Seq(Entry)
    BY DEF Entry
  <2>2. recent' = SubSeq(<<e>> \o recent, 1,
                    IF Len(recent) < Depth THEN Len(recent) + 1 ELSE Depth)
    BY DEF SectorDecoded
  <2> HIDE DEF e
  <2>3. recent' \in Seq(Entry) /\ Len(recent') <= Depth
    BY <2>1, <2>2, Pushed
  <2> QED
    BY <2>3 DEF Entry
<1>5. ifstat' \subseteq Flags
  BY DEF SectorDecoded, Flags
<1> QED
  BY <1>1, <1>2, <1>3, <1>4, <1>5 DEF SectorDecoded, PointAtSector

LEMMA RegisterTypes ==
  ASSUME TypeOK, NEW d \in Digit
  PROVE  /\ WithLow(dbc, d) \in 0..Base * DbcHighs - 1
         /\ WithHigh(dbc, d % DbcHighs) \in 0..Base * DbcHighs - 1
         /\ WithLow(dac, d) \in Address /\ WithHigh(dac, d) \in Address
         /\ WithLow(ptl, d) \in Address /\ WithHigh(ptl, d) \in Address
         /\ WithLow(wal, d) \in Address /\ WithHigh(wal, d) \in Address
<1>1. DbcHighs \in Nat /\ DbcHighs > 0 /\ DbcHighs <= Base
  BY SizesAssumption
<1>2. Base * DbcHighs = DbcHighs * Base /\ DbcHighs * Base \in Nat
  BY <1>1, Sizes
<1>3. dbc \in Nat /\ dbc < DbcHighs * Base
  BY <1>2 DEF TypeOK
<1>4. d \in Nat /\ d % DbcHighs \in Nat /\ d % DbcHighs < DbcHighs
  BY <1>1, Sizes DEF Digit
<1>5. d % DbcHighs \in Digit
  BY <1>1, <1>4, Sizes DEF Digit
<1>6. WithLow(dbc, d) \in Nat /\ WithLow(dbc, d) < DbcHighs * Base
  BY <1>1, <1>3, WithDigits
<1>7. /\ WithHigh(dbc, d % DbcHighs) \in Nat
      /\ WithHigh(dbc, d % DbcHighs) < DbcHighs * Base
  BY <1>1, <1>3, <1>4, <1>5, WithDigits
<1> QED
  BY <1>2, <1>6, <1>7, WithAddress DEF TypeOK

LEMMA TransferType ==
  ASSUME TypeOK, Transfer
  PROVE  TypeOK'
<1>1. DbcHighs \in Nat /\ DbcHighs > 0 /\ DbcHighs <= Base
  BY SizesAssumption
<1>2. Base * DbcHighs \in Nat /\ Base * DbcHighs > 0 /\ Base * DbcHighs <= BufSize
  <2>1. Base - DbcHighs \in Nat /\ Base = DbcHighs + (Base - DbcHighs)
    BY <1>1, Sizes
  <2>2. Base * Base = Base * DbcHighs + Base * (Base - DbcHighs)
    BY <1>1, <2>1, Sizes
  <2>3. Base * (Base - DbcHighs) \in Nat /\ Base * DbcHighs \in Nat
    BY <1>1, <2>1, Sizes
  <2>4. Base * DbcHighs > 0
    BY <1>1, Sizes
  <2> QED
    BY <2>2, <2>3, <2>4 DEF BufSize
<1>3. /\ dac \in Address /\ dbc \in Nat /\ dbc < Base * DbcHighs
  BY <1>2 DEF TypeOK
<1>4. dac + dbc + 1 \in Nat /\ dac + dbc + 1 < 2 * BufSize
  BY <1>2, <1>3, Sizes DEF Address
<1>5. dac' \in Address
  BY <1>4, WrapIsAddress DEF Transfer, DacAfter
<1>6. dbc' \in 0..Base * DbcHighs - 1
  BY <1>2 DEF Transfer
<1>7. ifstat' \subseteq Flags
  BY DEF Transfer, TypeOK, Flags
<1> QED
  BY <1>5, <1>6, <1>7 DEF Transfer, TypeOK

LEMMA ResetType == ASSUME TypeOK, ResetState PROVE TypeOK'
<1>1. ZeroByte \in Byte
  BY Sizes DEF ZeroByte, Byte
<1>2. buffer' \in [Address -> Byte]
  BY <1>1 DEF ResetState
<1>3. recent' \in Seq([at : Address, lba : Lba]) /\ Len(recent') <= Depth
  BY DepthAssumption DEF ResetState
<1>4. 0 \in Address /\ SectorSize \in Address
  BY Sizes DEF Address
<1>5. 0 \in 0..Base * DbcHighs - 1
  BY SizesAssumption
<1>6. sector' \in Contents
  BY DEF ResetState, TypeOK, Contents
<1> QED
  BY <1>2, <1>3, <1>4, <1>5, <1>6 DEF ResetState, TypeOK

LEMMA TypeStep ==
  ASSUME TypeOK, [Next]_vars
  PROVE  TypeOK'
<1> USE DEF TypeOK
<1>1. ASSUME NEW lba \in Lba, SectorDecoded(lba) PROVE TypeOK'
  BY <1>1, DecodedType
<1>2. ASSUME NEW reg \in 0..15, SelectReg(reg) PROVE TypeOK'
  BY <1>2 DEF SelectReg
<1>3. NextReg(regptr) \in 0..15
  BY DEF NextReg
<1>4. CASE ReadReg
  BY <1>3, <1>4 DEF ReadReg
<1>5. CASE Transfer
  BY <1>5, TransferType
<1>6. CASE WriteIgnored
  BY <1>3, <1>6 DEF WriteIgnored
<1>7. CASE WriteDtrg
  BY <1>3, <1>7 DEF WriteDtrg, Flags
<1>8. CASE WriteDtack
  BY <1>3, <1>8 DEF WriteDtack
<1>9. CASE WriteReset
  BY <1>9, ResetType DEF WriteReset
<1>10. ASSUME NEW enables \in SUBSET Enables, WriteIfctrl(enables) PROVE TypeOK'
  BY <1>3, <1>10 DEF WriteIfctrl
<1>11. ASSUME NEW d \in Digit, WriteDbc(d) PROVE TypeOK'
  BY <1>3, <1>11, RegisterTypes DEF WriteDbc
<1>12. ASSUME NEW d \in Digit, WriteDac(d) PROVE TypeOK'
  BY <1>3, <1>12, RegisterTypes DEF WriteDac
<1>13. ASSUME NEW d \in Digit, WritePtl(d) PROVE TypeOK'
  BY <1>3, <1>13, RegisterTypes DEF WritePtl
<1>14. ASSUME NEW d \in Digit, WriteWal(d) PROVE TypeOK'
  <2>1. recent' \in Seq([at : Address, lba : Lba]) /\ Len(recent') <= Depth
    BY <1>14, DepthAssumption DEF WriteWal
  <2> QED
    BY <1>3, <1>14, <2>1, RegisterTypes DEF WriteWal
<1>15. ASSUME NEW on \in BOOLEAN, WriteCtrl0(on) \/ WriteCtrl1(on) PROVE TypeOK'
  BY <1>3, <1>15 DEF WriteCtrl0, WriteCtrl1
<1>16. CASE UNCHANGED vars
  BY <1>16 DEF vars, regVars
<1> QED
  BY <1>1, <1>2, <1>4, <1>5, <1>6, <1>7, <1>8, <1>9, <1>10, <1>11, <1>12,
     <1>13, <1>14, <1>15, <1>16
  DEF Next, Write

(* Every register stays within its width, however it is put together from     *)
(* bytes and moved by sectors and transfers.                                  *)
THEOREM TypeCorrect == Spec => []TypeOK
<1>1. Init => TypeOK
  <2> SUFFICES ASSUME Init PROVE TypeOK
    OBVIOUS
  <2>1. ZeroByte \in Byte
    BY Sizes DEF ZeroByte, Byte
  <2>2. recent \in Seq([at : Address, lba : Lba]) /\ Len(recent) <= Depth
    BY DepthAssumption DEF Init
  <2>3. 0 \in Address /\ SectorSize \in Address
    BY Sizes DEF Address
  <2>4. 0 \in 0..Base * DbcHighs - 1
    BY SizesAssumption
  <2>5. Disc(Garbage) \in Contents
    BY DEF Disc, Contents
  <2> QED
    BY <2>1, <2>2, <2>3, <2>4, <2>5 DEF Init, TypeOK
<1> QED
  BY <1>1, TypeStep, PTL DEF Spec

(***************************************************************************)
(* What a step does.                                                       *)
(***************************************************************************)

(* DECI is raised with PTL at the header of the sector that HEAD names and    *)
(* its data behind it.                                                        *)
THEOREM DeciCorrect == Spec => DeciDescribesSector
<1>1. ASSUME TypeOK, Next, recent' # recent, recent' # <<>>
      PROVE  Holds(ptl, head)'
  <2>1. PICK lba \in Lba : SectorDecoded(lba)
    BY <1>1
    DEF Next, SelectReg, ReadReg, Write, Transfer, WriteIgnored, WriteDtrg,
        WriteDtack, WriteReset, ResetState, WriteIfctrl, WriteDbc, WriteDac,
        WriteWal, WritePtl, WriteCtrl0, WriteCtrl1
  <2>4. HoldsIn(buffer', wal, lba)
    BY <1>1, <2>1, ArrayAfter, NewHolds DEF TypeOK
  <2>5. ptl' = wal /\ head' = lba
    BY <2>1 DEF SectorDecoded, PointAtSector
  <2> QED
    BY <2>4, <2>5 DEF Holds, HoldsIn
<1>2. TypeOK /\ [Next]_vars =>
        [recent' # recent /\ recent' # <<>> => Holds(ptl, head)']_vars
  BY <1>1
<1> QED
  BY <1>2, TypeCorrect, PTL DEF Spec, DeciDescribesSector

(* A transfer of whole words that the descriptor covers leaves DAC right      *)
(* behind what was read.                                                      *)
THEOREM TransferCorrect == Spec => TransferContinues
<1>1. ASSUME TypeOK, NEW len \in DmaWords, Transfer, dbc % 2 = 1, 2 * len > dbc
      PROVE  Len(Fetched(len)) = Ahead(dac', dac)
  <2>1. len \in Nat /\ len > 0
    BY SoftwareAssumption
  <2>2. dbc \in Nat /\ dbc + 1 < BufSize
    <3>1. /\ DbcHighs \in Nat /\ DbcHighs > 0
          /\ Base - 1 - DbcHighs \in Nat
          /\ Base = DbcHighs + 1 + (Base - 1 - DbcHighs)
      BY SizesAssumption
    <3>2. Base * Base =
            Base * DbcHighs + Base + Base * (Base - 1 - DbcHighs)
      BY <3>1, Sizes
    <3>3. Base * (Base - 1 - DbcHighs) \in Nat /\ Base * DbcHighs \in Nat
      BY <3>1, Sizes
    <3>4. dbc \in Nat /\ dbc < Base * DbcHighs
      BY <1>1, <3>3 DEF TypeOK
    <3> QED
      BY <3>2, <3>3, <3>4, Sizes DEF BufSize
  <2>3. 2 * WordsMoved(len) = dbc + 1
    BY <1>1, <2>1, <2>2 DEF WordsMoved
  <2>4. Len(Fetched(len)) = dbc + 1
    <3>1. Fetched(len) =
            [i \in 1..dbc + 1 |-> buffer[(dac + i - 1) % BufSize]]
      BY <2>3 DEF Fetched
    <3> QED
      BY <2>2, <3>1
  <2>5. Ahead(Wrap(dac + (dbc + 1)), dac) = dbc + 1
    BY <1>1, <2>2, AheadOfWrap DEF TypeOK
  <2>6. dac' = Wrap(dac + (dbc + 1))
    BY <1>1, <2>2, Sizes DEF Transfer, DacAfter, TypeOK, Address
  <2> QED
    BY <2>4, <2>5, <2>6
<1>2. TypeOK /\ [Next]_vars =>
        [\A len \in DmaWords :
           Transfer /\ dbc % 2 = 1 /\ 2 * len > dbc =>
             Len(Fetched(len)) = Ahead(dac', dac)]_vars
  BY <1>1
<1> QED
  BY <1>2, TypeCorrect, PTL DEF Spec, TransferContinues
=============================================================================

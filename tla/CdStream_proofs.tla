--------------------------- MODULE CdStream_proofs ---------------------------
(***************************************************************************)
(* The path of a data sector, for every disc, size of the buffer and speed *)
(* of the handler that the assumptions allow: the composition of drive,    *)
(* decoder chip, interrupt controller and handler hands out whole sectors  *)
(* in order and strands none.                                              *)
(***************************************************************************)
EXTENDS CdStream, CdIrq_proofs, SequenceTheorems

\* The chip with what is proved of it.
LCP == INSTANCE Lc8951_proofs WITH Readable  <- Lba,
                                   Protected <- {},
                                   DmaWords  <- {DataSize \div 2}

\* The chip's own assumptions hold of the chip in the composition.
LEMMA Chip ==
  /\ LCP!SizesAssumption /\ LCP!DepthAssumption
  /\ LCP!DiscAssumption /\ LCP!SoftwareAssumption
BY ChipAssumption, LateAssumption, EvenAssumption
DEF LC!SizesAssumption, LC!DepthAssumption, LC!DiscAssumption,
    LCP!SizesAssumption, LCP!DepthAssumption, LCP!DiscAssumption,
    LCP!SoftwareAssumption, LC!StoreSize, LC!BufSize, LCP!StoreSize, LCP!BufSize

LEMMA ChipSizes ==
  /\ Base \in Nat /\ Base > 1
  /\ LC!BufSize \in Nat /\ LC!BufSize = LCP!BufSize
  /\ HeaderSize \in Nat /\ DataSize \in Nat /\ DataSize > 0
  /\ LCP!StoreSize = HeaderSize + DataSize
  /\ HeaderSize + DataSize < LC!BufSize
  /\ DbcHighs \in Nat /\ DbcHighs > 0 /\ DataSize <= DbcHighs * Base
  /\ Depth \in Nat /\ MaxLate \in Nat /\ MaxLate < Depth /\ Last \in Nat
BY ChipAssumption, LateAssumption
DEF LC!SizesAssumption, LC!DepthAssumption, LC!StoreSize, LCP!StoreSize,
    LC!BufSize, LCP!BufSize

(***************************************************************************)
(* Bytes and addresses.                                                    *)
(***************************************************************************)

LEMMA DivMod ==
  ASSUME NEW n \in Nat \ {0}, NEW q \in Nat, NEW r \in 0..n - 1
  PROVE  (q * n + r) \div n = q /\ (q * n + r) % n = r
<1> DEFINE a == q * n + r
<1>1. a \in Nat /\ a = q * n + r
  OBVIOUS
<1> HIDE DEF a
<1>2. a \div n = q /\ a % n = r
  BY <1>1
<1> QED
  BY <1>2 DEF a

LEMMA ModSmall ==
  ASSUME NEW n \in Nat \ {0}, NEW r \in 0..n - 1
  PROVE  r % n = r
OBVIOUS

LEMMA LowHigh ==
  ASSUME NEW a \in Nat
  PROVE  /\ Low(a) \in 0..Base - 1 /\ High(a) \in Nat
         /\ High(a) * Base + Low(a) = a
<1> SUFFICES /\ a % Base \in 0..Base - 1 /\ a \div Base \in Nat
             /\ (a \div Base) * Base + (a % Base) = a
  BY DEF Low, High
<1> QED
  BY ChipSizes

(* A register whose low byte has been written has it.                       *)
LEMMA LowWritten ==
  ASSUME NEW b \in Nat, NEW a \in Nat
  PROVE  LC!WithLow(b, Low(a)) \in Nat /\ Low(LC!WithLow(b, Low(a))) = Low(a)
<1>1. Low(a) \in 0..Base - 1 /\ High(b) \in Nat /\ Base \in Nat \ {0}
  BY LowHigh, ChipSizes
<1>2. LC!WithLow(b, Low(a)) = High(b) * Base + Low(a)
  BY DEF LC!WithLow, High
<1> DEFINE q == High(b)
           r == Low(a)
<1>3. q \in Nat /\ r \in 0..Base - 1 /\ Base \in Nat \ {0}
  BY <1>1
<1> HIDE DEF q, r
<1>4. (q * Base + r) % Base = r /\ q * Base + r \in Nat
  BY <1>3, DivMod
<1>5. (High(b) * Base + Low(a)) % Base = Low(a)
  BY <1>4 DEF q, r
<1>6. High(b) * Base + Low(a) \in Nat
  BY <1>4 DEF q, r
<1> QED
  BY <1>2, <1>5, <1>6 DEF Low

LEMMA LowOfLow ==
  ASSUME NEW a \in Nat
  PROVE  Low(Low(a)) = Low(a)
<1>1. Low(a) \in 0..Base - 1 /\ Base \in Nat \ {0}
  BY LowHigh, ChipSizes
<1>2. Low(a) % Base = Low(a)
  BY <1>1, ModSmall
<1> QED
  BY <1>2 DEF Low

(* With the high byte it is the number it was written from.                 *)
LEMMA HighWritten ==
  ASSUME NEW b \in Nat, NEW a \in Nat, Low(b) = Low(a)
  PROVE  LC!WithHigh(b, High(a)) = a
<1>1. LC!WithHigh(b, High(a)) = High(a) * Base + Low(b)
  BY DEF LC!WithHigh, Low
<1> QED
  BY <1>1, LowHigh

(* The four bits of DBC's high byte hold that of the length of the data.    *)
LEMMA DbcHolds ==
  /\ DataSize - 1 \in Nat
  /\ High(DataSize - 1) % DbcHighs = High(DataSize - 1)
<1>1. /\ DataSize - 1 \in Nat /\ DataSize - 1 < DbcHighs * Base
      /\ DbcHighs \in Nat \ {0}
  BY ChipSizes
<1> DEFINE a == DataSize - 1
<1>2. a \in Nat /\ a < DbcHighs * Base
  BY <1>1
<1> HIDE DEF a
<1>3. a \div Base \in Nat /\ a \div Base < DbcHighs
  BY <1>1, <1>2, LCP!Digits, Chip
<1>4. High(a) \in 0..DbcHighs - 1
  BY <1>1, <1>3 DEF High
<1>5. High(a) % DbcHighs = High(a)
  BY <1>1, <1>4, ModSmall
<1> QED
  BY <1>1, <1>5 DEF a

(* Behind the header that PTL names.                                        *)
LEMMA DataAtType ==
  ASSUME address \in LCP!Address
  PROVE  DataAt \in Nat
BY ChipSizes DEF DataAt, LC!Wrap, LCP!Address

(* What a transfer reads that starts behind a whole sector's header.        *)
LEMMA WholeSector ==
  ASSUME NEW lba \in Lba, address \in LCP!Address, LCP!Holds(address, lba),
         dac = DataAt, dbc = DataSize - 1
  PROVE  /\ DOMAIN LC!Fetched(DataSize \div 2) = 1..DataSize
         /\ \A i \in 1..DataSize :
              /\ LC!Fetched(DataSize \div 2)[i].src = lba
              /\ LC!Fetched(DataSize \div 2)[i].at = HeaderSize + i - 1
<1>1. 2 * LC!WordsMoved(DataSize \div 2) = DataSize
  BY ChipSizes, EvenAssumption DEF LC!WordsMoved
<1>2. LC!Fetched(DataSize \div 2) =
        [i \in 1..DataSize |-> buffer[(dac + i - 1) % LC!BufSize]]
  BY <1>1 DEF LC!Fetched
<1>3. ASSUME NEW i \in 1..DataSize
      PROVE  /\ buffer[(dac + i - 1) % LC!BufSize].src = lba
             /\ buffer[(dac + i - 1) % LC!BufSize].at = HeaderSize + i - 1
  <2> DEFINE at == HeaderSize + i - 1
  <2>1. at \in 0..LCP!StoreSize - 1 /\ at >= HeaderSize
    BY ChipSizes
  <2>2. (dac + i - 1) % LC!BufSize = LCP!Wrap(address + at)
    <3> HIDE DEF at
    <3>1. address \in 0..LC!BufSize - 1 /\ LC!BufSize \in Nat \ {0}
      BY ChipSizes DEF LCP!Address
    <3>2. dac = IF address + HeaderSize >= LC!BufSize
                THEN (address + HeaderSize) - LC!BufSize
                ELSE address + HeaderSize
      BY DEF DataAt, LC!Wrap
    <3> DEFINE w == LCP!Wrap(address + at)
    <3>3. w = IF address + at >= LC!BufSize
              THEN (address + at) - LC!BufSize
              ELSE address + at
      BY ChipSizes DEF LCP!Wrap
    <3>4. /\ w \in 0..LC!BufSize - 1
          /\ \/ dac + i - 1 = 0 * LC!BufSize + w
             \/ dac + i - 1 = 1 * LC!BufSize + w
      BY <3>1, <3>2, <3>3, ChipSizes DEF at
    <3> HIDE DEF w
    <3>5. /\ (0 * LC!BufSize + w) % LC!BufSize = w
          /\ (1 * LC!BufSize + w) % LC!BufSize = w
      BY <3>1, <3>4, DivMod
    <3>6. (dac + i - 1) % LC!BufSize = w
      BY <3>4, <3>5
    <3> QED
      BY <3>6 DEF w
  <2> HIDE DEF at
  <2>3. /\ buffer[LCP!Wrap(address + at)].src = lba
        /\ buffer[LCP!Wrap(address + at)].at = at
    BY <2>1 DEF LCP!Holds
  <2> QED
    BY <2>2, <2>3 DEF at
<1> QED
  BY <1>2, <1>3

(***************************************************************************)
(* The inductive invariant.                                                *)
(***************************************************************************)

\* Where software is: before the decoder runs, and in the handler before it
\* knows the sector's address, before it has the data, and after.
Booting     == {"boot", "gate", "enable", "ifctrl", "decoder", "ctrl0"}
Locating    == {"select", "low", "high"}
Programming == {"status", "stat3", "count", "dbcl", "dbch", "dacl", "dach",
                "dtrg", "dma"}
Finishing   == {"done", "dtack", "return"}
Handling    == Locating \cup Programming \cup Finishing

\* The handler is entered from level 0 and not nested: only the CD's line is
\* ever asserted once the reset has been acknowledged.
CpuInv ==
  /\ pc \in Booting \cup {"unmask", "idle"} \cup Handling
  /\ pc \in Booting \cup {"unmask"} => frames = <<>> /\ intMask = 7
  /\ pc = "idle" => frames = <<>> /\ intMask = 0
  /\ pc \in Handling =>
       Len(frames) = 1 /\ Head(frames).sr = 0 /\ intMask = CdLevel
  /\ virq \subseteq IF pc = "boot" THEN {CdLevel, TimerLevel} ELSE {CdLevel}

\* When the decoder runs, its interrupt is enabled in the chip and in the
\* controller.
GateInv ==
  /\ gates \subseteq {"decoder"}
  /\ pending \subseteq {"decoder"}
  /\ pc \notin {"boot", "gate"} => gates = {"decoder"}
  /\ pc \notin {"boot", "gate", "enable", "ifctrl"} => "DECIEN" \in ifctrl
  /\ decoding => pc \notin Booting

\* The ring names the sectors right behind the drive, and PTL the newest.
DiscInv ==
  /\ playLba \in Nat
  /\ \A i \in 1..Len(recent) : recent[i].lba + i = playLba
  /\ playLba > 0 => Len(recent) > 0 /\ recent[1].at = ptl

\* How late the handler is says what software has not been handed: outside
\* the handler an interrupt is pending for it, inside it is what `late'
\* counts, and a period that ended meanwhile has left its own interrupt.
LateInv ==
  /\ late \in Nat /\ got \in Nat /\ got <= playLba
  /\ pc \in Booting => playLba = 0 /\ got = 0 /\ pending = {}
  /\ pc \in {"unmask", "idle"} =>
       IF pending # {} THEN got < playLba ELSE missed \/ got = playLba
  /\ pc \in Handling => /\ pending # {} => late > 0
                        /\ late > 0 => pending # {} \/ missed
  /\ pc \in Locating => late = 0
  /\ pc \in Locating \cup Programming =>
       late <= MaxLate /\ late < Len(recent) /\ got + late < playLba
  /\ pc \in Finishing => got + late = playLba

\* The registers that the handler has programmed so far, byte by byte.
AddressInv ==
  /\ address \in Nat /\ dac \in Nat /\ dbc \in Nat
  /\ pc = "high" => Low(address) = Low(ptl)
  /\ pc \in Programming => address = recent[late + 1].at
  /\ pc = "dbcl" => regptr = 2
  /\ pc = "dbch" => regptr = 3 /\ Low(dbc) = Low(DataSize - 1)
  /\ pc \in {"dacl", "dach", "dtrg", "dma"} => dbc = DataSize - 1
  /\ pc = "dacl" => regptr = 4
  /\ pc = "dach" => regptr = 5 /\ Low(dac) = Low(DataAt)
  /\ pc \in {"dtrg", "dma"} => dac = DataAt

StreamInv ==
  /\ IInv
  /\ LCP!Ring
  /\ CpuInv
  /\ GateInv
  /\ DiscInv
  /\ LateInv
  /\ AddressInv

(***************************************************************************)
(* What a step leaves alone.                                               *)
(***************************************************************************)

\* Only a sector period moves the ring.
LEMMA RingRests ==
  ASSUME NextStream, ~SectorPeriod
  PROVE  UNCHANGED <<buffer, wal, recent, ptl, playLba>>
<1>1. CASE Begin
  BY <1>1 DEF Begin, chipVars
<1>2. CASE Boot
  BY <1>2 DEF Boot, Elsewhere, chipVars, LC!SelectReg, LC!WriteIfctrl,
              LC!WriteCtrl0
<1>3. CASE Unmask \/ Return
  BY <1>3 DEF Unmask, Return, Resume, chipVars
<1>4. CASE Access
  BY <1>4 DEF Access, LC!SelectReg, LC!ReadReg, LC!WriteDbc, LC!WriteDac,
              LC!WriteDtrg, LC!WriteDtack
<1>5. CASE StartDma
  BY <1>5 DEF StartDma, LC!Transfer
<1>6. CASE Acknowledge
  BY <1>6 DEF Acknowledge, Elsewhere, chipVars
<1>7. CASE Wait \/ NothingHappens
  BY <1>7 DEF Wait, NothingHappens, chipVars
<1> QED
  BY <1>1, <1>2, <1>3, <1>4, <1>5, <1>6, <1>7 DEF NextStream, Software

LEMMA Decoded ==
  ASSUME SectorPeriod
  PROVE  LCP!SectorDecoded(playLba) /\ playLba \in Lba
BY DEF SectorPeriod, LC!SectorDecoded, LCP!SectorDecoded, LC!ReadSector,
       LCP!ReadSector, LC!Bypass, LCP!Bypass, LC!Patch, LCP!Patch, LC!Matches,
       LCP!Matches, LC!Disc, LCP!Disc, LC!Store, LCP!Store,
       LC!PointAtSector, LCP!PointAtSector, LC!Ahead, LCP!Ahead, LC!Address,
       LCP!Address, LC!BufSize, LCP!BufSize, LC!StoreSize, LCP!StoreSize,
       LC!SectorByte, LCP!SectorByte, LC!Wrap, LCP!Wrap

LEMMA RingKept ==
  ASSUME LCP!Ring, [NextStream]_streamVars
  PROVE  LCP!Ring'
<1>1. CASE SectorPeriod
  BY <1>1, Decoded, LCP!DecodedKeepsRing, Chip
<1>2. CASE ~SectorPeriod
  <2>1. UNCHANGED <<buffer, wal, recent>>
    BY <1>2, RingRests DEF streamVars, chipVars
  <2> QED
    BY <2>1, LCP!RingElsewhere, Chip
<1> QED
  BY <1>1, <1>2

\* A step of the whole is one of interrupt delivery; the mask that the boot
\* code lowers need not be among those of CdIrq.
LEMMA IrqStep ==
  ASSUME NextStream
  PROVE  Next \/ WriteSr(0) \/ UNCHANGED vars
<1>1. CASE Begin
  BY <1>1 DEF Begin, Next, Cpu
<1>2. CASE Boot
  <2>1. /\ {"decoder"} \in SUBSET Source
        /\ {TimerLevel} \in SUBSET {VblLevel, TimerLevel}
    BY DEF Source
  <2> QED
    BY <1>2, <2>1 DEF Boot, Next, Cpu
<1>3. CASE Unmask
  BY <1>3 DEF Unmask
<1>4. CASE Access
  BY <1>4 DEF Access, Next, Cpu
<1>5. CASE StartDma
  BY <1>5 DEF StartDma, Next, Cpu
<1>6. CASE Acknowledge
  <2>1. {"decoder"} \in SUBSET Source
    BY DEF Source
  <2> QED
    BY <1>6, <2>1 DEF Acknowledge, Next, Cpu
<1>7. CASE Return
  BY <1>7 DEF Return, Next, Cpu
<1>8. CASE Wait
  BY <1>8 DEF Wait, Next, Cpu
<1>9. CASE SectorPeriod
  <2>1. DecoderFires \in BOOLEAN
    BY DEF DecoderFires
  <2> QED
    BY <1>9, <2>1, Zenon DEF SectorPeriod, Next, Devices
<1>10. CASE NothingHappens
  BY <1>10 DEF NothingHappens, Next, Devices, WatchdogIncrement
<1> QED
  BY <1>1, <1>2, <1>3, <1>4, <1>5, <1>6, <1>7, <1>8, <1>9, <1>10
  DEF NextStream, Software

LEMMA IrqKept ==
  ASSUME IInv, [NextStream]_streamVars
  PROVE  IInv'
<1>1. CASE WriteSr(0)
  <2>1. 0 \in 0..7 /\ frames \in Seq(Frame) /\ turn' \in Turn
    BY <1>1 DEF WriteSr, Instruction, IInv, TypeOK, Turn
  <2>2. FALSE \in BOOLEAN
    OBVIOUS
  <2> QED
    BY <1>1, <2>1, <2>2, CheckStep DEF WriteSr
<1>2. CASE [Next]_vars
  BY <1>2, NextIInv
<1> QED
  BY <1>1, <1>2, IrqStep DEF streamVars

(***************************************************************************)
(* The 68K: the only interrupt is the decoder's.                           *)
(***************************************************************************)

USE DEF VblLevel, CdLevel, TimerLevel

Taking(stack, mask) ==
  /\ pending # {} /\ pending' = {}
  /\ intMask' = CdLevel
  /\ Len(frames') = Len(stack) + 1
  /\ Head(frames').sr = mask

Passing(stack, mask) ==
  /\ pending' = pending
  /\ intMask' = mask
  /\ frames' = stack

LEMMA Pushed ==
  ASSUME NEW stack \in Seq(Frame), NEW frame \in Frame
  PROVE  /\ Len(<<frame>> \o stack) = Len(stack) + 1
         /\ Head(<<frame>> \o stack) = frame
OBVIOUS

\* At level 0 the decoder's interrupt is taken if it is pending, at any
\* other mask of this software it is not.
LEMMA Checked ==
  ASSUME IInv, pending \subseteq {"decoder"}, virq \subseteq {CdLevel},
         NEW mask \in 0..7, NEW stack \in Seq(Frame), NEW halt,
         CheckInterrupts(mask, stack, halt)
  PROVE  /\ virq' \subseteq {CdLevel}
         /\ mask = 0 /\ pending # {} => Taking(stack, mask)
         /\ mask >= CdLevel \/ pending = {} => Passing(stack, mask)
<1>1. pending = {} <=> virq = {}
  BY DEF IInv, LineFollowsPending
<1>2. CASE /\ \A level \in Lines : ~Selects(level, mask)
           /\ intMask' = mask
           /\ frames' = stack
           /\ stopped' = halt
           /\ UNCHANGED <<pending, virq>>
  <2>1. Passing(stack, mask)
    BY <1>2 DEF Passing
  <2>2. mask = 0 => pending = {}
    <3> SUFFICES ASSUME mask = 0, pending # {} PROVE FALSE
      OBVIOUS
    <3>1. virq = {CdLevel}
      BY <1>1
    <3>2. Selects(CdLevel, mask)
      BY <3>1 DEF Selects
    <3> QED
      BY <1>2, <3>2 DEF Lines
  <2> QED
    BY <1>2, <2>1, <2>2
<1>3. CASE \E level \in Lines :
             /\ Selects(level, mask)
             /\ IntAck(level)
             /\ intMask' = level
             /\ frames' = <<[vec |-> VectorOf(level), sr |-> mask]>> \o stack
             /\ stopped' = FALSE
  <2>1. PICK level \in Lines :
             /\ Selects(level, mask)
             /\ IntAck(level)
             /\ intMask' = level
             /\ frames' = <<[vec |-> VectorOf(level), sr |-> mask]>> \o stack
    BY <1>3
  <2>2. level = CdLevel /\ mask < CdLevel
    BY <2>1 DEF Selects
  <2>3. pending = {"decoder"}
    BY <1>1, <2>1 DEF Selects
  <2>4. pending' = {} /\ virq' \subseteq {CdLevel}
    BY <2>1, <2>2, <2>3 DEF IntAck, Served, CdUpdateInterrupts
  <2>5. [vec |-> VectorOf(level), sr |-> mask] \in Frame
    BY DEF VectorOf, Frame, Lines, Vectors, DecoderVector, CommVector,
           TimerVector, VblVector
  <2>6. /\ Len(frames') = Len(stack) + 1
        /\ Head(frames') = [vec |-> VectorOf(level), sr |-> mask]
    BY <2>1, <2>5, Pushed
  <2>7. Taking(stack, mask)
    BY <2>1, <2>2, <2>3, <2>4, <2>6 DEF Taking
  <2> QED
    BY <2>2, <2>3, <2>4, <2>7
<1> QED
  BY <1>2, <1>3 DEF CheckInterrupts

(***************************************************************************)
(* Steps of the 68K.                                                       *)
(***************************************************************************)

Core == CpuInv /\ GateInv /\ DiscInv /\ LateInv /\ AddressInv

Unchip == UNCHANGED <<chipVars, playLba, address, got, out>>

LEMMA DiscRests ==
  ASSUME DiscInv, UNCHANGED <<playLba, recent, ptl>>
  PROVE  DiscInv'
BY DEF DiscInv

\* The decoder's interrupt is taken from level 0: software has something to
\* fetch, and its handler starts with the newest sector.
LEMMA Entering ==
  ASSUME StreamInv, Taking(<<>>, 0), Enter, Unchip, UNCHANGED gates,
         virq' \subseteq {CdLevel}, pc \notin Booting, got < playLba
  PROVE  Core'
<1> USE DEF Booting, Locating, Programming, Finishing, Handling
<1>1. pc' = "select" /\ late' = 0 /\ pending' = {}
  BY DEF Enter, Taking
<1>2. CpuInv'
  BY <1>1 DEF CpuInv, Taking
<1>3. GateInv'
  BY <1>1 DEF GateInv, StreamInv, Unchip, chipVars
<1>4. DiscInv'
  BY DiscRests DEF StreamInv, Unchip, chipVars
<1>5. LateInv'
  <2>1. /\ got \in Nat /\ playLba \in Nat /\ got <= playLba
        /\ got + 0 < playLba /\ 0 < Len(recent) /\ 0 <= MaxLate
    BY ChipSizes DEF StreamInv, LateInv, DiscInv
  <2> QED
    BY <1>1, <2>1 DEF LateInv, Unchip, chipVars
<1>6. AddressInv'
  BY <1>1 DEF AddressInv, StreamInv, Unchip, chipVars
<1> QED
  BY <1>2, <1>3, <1>4, <1>5, <1>6 DEF Core

\* Nothing is pending, and software waits.
LEMMA Idling ==
  ASSUME StreamInv, Passing(<<>>, 0), pc' = "idle", Unchip, UNCHANGED gates,
         virq' \subseteq {CdLevel}, pc \notin Booting,
         UNCHANGED <<late, missed>>,
         pending = {}, missed \/ got = playLba
  PROVE  Core'
<1> USE DEF Booting, Locating, Programming, Finishing, Handling
<1>1. CpuInv'
  BY DEF CpuInv, Passing
<1>2. GateInv'
  BY DEF GateInv, StreamInv, Unchip, chipVars, Passing
<1>3. DiscInv'
  BY DiscRests DEF StreamInv, Unchip, chipVars
<1>4. LateInv'
  BY DEF LateInv, StreamInv, Unchip, chipVars, Passing
<1>5. AddressInv'
  BY DEF AddressInv, StreamInv, Unchip, chipVars
<1> QED
  BY <1>1, <1>2, <1>3, <1>4, <1>5 DEF Core

\* A check that takes nothing while software is anywhere.
LEMMA Unmoved ==
  ASSUME StreamInv, UNCHANGED <<pending, gates, intMask, frames, virq>>,
         Unchip, UNCHANGED <<pc, late, missed>>
  PROVE  Core'
<1>1. CpuInv'
  BY DEF CpuInv, StreamInv
<1>2. GateInv'
  BY DEF GateInv, StreamInv, Unchip, chipVars
<1>3. DiscInv'
  BY DiscRests DEF StreamInv, Unchip, chipVars
<1>4. LateInv'
  BY DEF LateInv, StreamInv, Unchip, chipVars
<1>5. AddressInv'
  BY DEF AddressInv, StreamInv, Unchip, chipVars, DataAt
<1> QED
  BY <1>1, <1>2, <1>3, <1>4, <1>5 DEF Core

LEMMA BeginCore ==
  ASSUME StreamInv, Begin
  PROVE  Core'
<1> USE DEF Booting, Locating, Programming, Finishing, Handling
<1>1. CheckInterrupts(intMask, frames, stopped) /\ UNCHANGED gates /\ Unchip
  BY DEF Begin, BeginExecute, Unchip
<1>2. intMask \in 0..7 /\ frames \in Seq(Frame) /\ virq \subseteq Lines
  BY DEF StreamInv, IInv, TypeOK
<1>3. CASE pc = "idle"
  <2>1. /\ virq' \subseteq {CdLevel}
        /\ pending # {} => Taking(<<>>, 0)
        /\ pending = {} => Passing(<<>>, 0)
    <3>1. intMask = 0 /\ frames = <<>> /\ virq \subseteq {CdLevel}
      BY <1>3 DEF StreamInv, CpuInv
    <3> QED
      BY <1>1, <1>2, <3>1, Checked DEF StreamInv, GateInv
  <2>2. frames = <<>> /\ Len(frames) = 0
    BY <1>3 DEF StreamInv, CpuInv
  <2>3. CASE pending # {}
    <3>1. Enter
      BY <2>1, <2>2, <2>3 DEF Taking, Begin
    <3>2. got < playLba
      BY <1>3, <2>3 DEF StreamInv, LateInv
    <3> QED
      BY <1>1, <1>3, <2>1, <2>3, <3>1, <3>2, Entering
  <2>4. CASE pending = {}
    <3>1. UNCHANGED <<pc, acked, late, missed>>
      BY <2>1, <2>2, <2>4 DEF Passing, Begin
    <3>2. missed \/ got = playLba
      BY <1>3, <2>4 DEF StreamInv, LateInv
    <3> QED
      BY <1>1, <1>3, <2>1, <2>4, <3>1, <3>2, Idling
  <2> QED
    BY <2>3, <2>4
<1>4. CASE pc # "idle"
  <2>1. intMask \in {CdLevel, 7}
    BY <1>4 DEF StreamInv, CpuInv
  <2>2. pending' = pending /\ intMask' = intMask /\ frames' = frames
        /\ virq' \subseteq IF pc = "boot" THEN {CdLevel, TimerLevel}
                                          ELSE {CdLevel}
    <3>1. CASE pc = "boot"
      <4>1. intMask = 7
        BY <3>1 DEF StreamInv, CpuInv
      <4>2. \A level \in Lines : ~Selects(level, intMask)
        BY <4>1 DEF Selects, Lines
      <4> QED
        BY <1>1, <3>1, <4>2 DEF CheckInterrupts, StreamInv, CpuInv
    <3>2. CASE pc # "boot"
      <4>1. virq \subseteq {CdLevel}
        BY <3>2 DEF StreamInv, CpuInv
      <4>2. virq' \subseteq {CdLevel} /\ Passing(frames, intMask)
        BY <1>1, <1>2, <2>1, <4>1, Checked DEF StreamInv, GateInv
      <4> QED
        BY <4>2 DEF Passing
    <3> QED
      BY <3>1, <3>2
  <2>3. UNCHANGED <<pc, acked, late, missed>>
    BY <1>2, <2>2 DEF Begin
  <2>4. CpuInv'
    BY <2>2, <2>3 DEF CpuInv, StreamInv
  <2>5. GateInv' /\ LateInv'
    BY <1>1, <2>2, <2>3 DEF GateInv, LateInv, StreamInv, Unchip, chipVars
  <2>6. DiscInv'
    BY <1>1, DiscRests DEF StreamInv, Unchip, chipVars
  <2>7. AddressInv'
    BY <1>1, <2>3 DEF AddressInv, StreamInv, Unchip, chipVars, DataAt
  <2> QED
    BY <2>4, <2>5, <2>6, <2>7 DEF Core
<1> QED
  BY <1>3, <1>4

LEMMA UnmaskCore ==
  ASSUME StreamInv, Unmask
  PROVE  Core'
<1> USE DEF Booting, Locating, Programming, Finishing, Handling
<1>1. CheckInterrupts(0, frames, FALSE) /\ UNCHANGED gates /\ Unchip
  BY DEF Unmask, WriteSr, Resume, Unchip
<1>2. pc = "unmask" /\ frames = <<>> /\ virq \subseteq {CdLevel}
  BY DEF Unmask, StreamInv, CpuInv
<1>3. /\ virq' \subseteq {CdLevel}
      /\ pending # {} => Taking(<<>>, 0)
      /\ pending = {} => Passing(<<>>, 0)
  <2>1. frames \in Seq(Frame) /\ 0 \in 0..7
    BY DEF StreamInv, IInv, TypeOK
  <2> QED
    BY <1>1, <1>2, <2>1, Checked DEF StreamInv, GateInv
<1>4. CASE pending # {}
  <2>1. Enter
    <3>1. frames' # <<>>
      BY <1>3, <1>4 DEF Taking
    <3> QED
      BY <3>1 DEF Unmask, Resume
  <2>2. got < playLba
    BY <1>2, <1>4 DEF StreamInv, LateInv
  <2> QED
    BY <1>1, <1>2, <1>3, <1>4, <2>1, <2>2, Entering
<1>5. CASE pending = {}
  <2>1. pc' = "idle" /\ UNCHANGED <<acked, late, missed>>
    BY <1>3, <1>5 DEF Passing, Unmask, Resume
  <2>2. missed \/ got = playLba
    BY <1>2, <1>5 DEF StreamInv, LateInv
  <2> QED
    BY <1>1, <1>2, <1>3, <1>5, <2>1, <2>2, Idling
<1> QED
  BY <1>4, <1>5

LEMMA ReturnCore ==
  ASSUME StreamInv, Return
  PROVE  Core'
<1> USE DEF Booting, Locating, Programming, Finishing, Handling
<1>1. /\ pc = "return" /\ frames # <<>>
      /\ CheckInterrupts(Head(frames).sr, Tail(frames), FALSE)
      /\ UNCHANGED gates /\ Unchip
  BY DEF Return, Rte, Resume, Unchip
<1>2. Len(frames) = 1 /\ Head(frames).sr = 0 /\ virq \subseteq {CdLevel}
  BY <1>1 DEF StreamInv, CpuInv
<1>3. frames \in Seq(Frame)
  BY DEF StreamInv, IInv, TypeOK
<1>4. Tail(frames) = <<>>
  <2> DEFINE rest == Tail(frames)
  <2>1. rest \in Seq(Frame) /\ Len(rest) = 0
    BY <1>1, <1>2, <1>3, HeadTailProperties
  <2> HIDE DEF rest
  <2>2. rest = <<>>
    BY <2>1, EmptySeq
  <2> QED
    BY <2>2 DEF rest
<1>5. CheckInterrupts(0, <<>>, FALSE)
  BY <1>1, <1>2, <1>4
<1>6. /\ virq' \subseteq {CdLevel}
      /\ pending # {} => Taking(<<>>, 0)
      /\ pending = {} => Passing(<<>>, 0)
  <2>1. 0 \in 0..7 /\ <<>> \in Seq(Frame)
    OBVIOUS
  <2> QED
    BY <1>2, <1>5, <2>1, Checked DEF StreamInv, GateInv
<1>7. /\ got + late = playLba /\ late \in Nat /\ got \in Nat /\ playLba \in Nat
      /\ pending # {} => late > 0
      /\ late > 0 => pending # {} \/ missed
  BY <1>1 DEF StreamInv, LateInv, DiscInv
<1>8. CASE pending # {}
  <2>1. Enter
    <3>1. frames' # <<>>
      BY <1>6, <1>8 DEF Taking
    <3> QED
      BY <3>1 DEF Return, Resume
  <2>2. got < playLba
    BY <1>7, <1>8
  <2> QED
    BY <1>1, <1>6, <1>8, <2>1, <2>2, Entering
<1>9. CASE pending = {}
  <2>1. pc' = "idle" /\ UNCHANGED <<acked, late, missed>>
    BY <1>6, <1>9 DEF Passing, Return, Resume
  <2>2. missed \/ got = playLba
    BY <1>7, <1>9
  <2> QED
    BY <1>1, <1>6, <1>9, <2>1, <2>2, Idling
<1> QED
  BY <1>8, <1>9

LEMMA BootCore ==
  ASSUME StreamInv, Boot
  PROVE  Core'
<1> USE DEF Booting, Locating, Programming, Finishing, Handling
<1>1. UNCHANGED <<playLba, recent, ptl>>
  BY DEF Boot, Elsewhere, chipVars, LC!SelectReg, LC!WriteIfctrl,
         LC!WriteCtrl0
<1>2. DiscInv'
  BY <1>1, DiscRests DEF StreamInv
<1>3. CASE Goto("boot", "gate") /\ WriteIrqAck({TimerLevel}) /\ Elsewhere
           /\ UNCHANGED <<acked, missed>>
  <2>1. CpuInv'
    <3>1. virq' \subseteq {CdLevel}
      BY <1>3 DEF WriteIrqAck, StreamInv, CpuInv, Goto
    <3> QED
      BY <1>3, <3>1 DEF CpuInv, StreamInv, Goto, WriteIrqAck
  <2>2. GateInv' /\ LateInv' /\ AddressInv'
    BY <1>3 DEF GateInv, LateInv, AddressInv, StreamInv, Goto, WriteIrqAck,
                cdVars, Elsewhere, chipVars
  <2> QED
    BY <1>2, <2>1, <2>2 DEF Core
<1>4. CASE Goto("gate", "enable") /\ WriteIrqMask1({"decoder"}) /\ Elsewhere
           /\ UNCHANGED <<acked, missed>>
  <2>1. CpuInv'
    BY <1>4 DEF CpuInv, StreamInv, Goto, WriteIrqMask1, cpuVars
  <2>2. GateInv' /\ LateInv' /\ AddressInv'
    BY <1>4 DEF GateInv, LateInv, AddressInv, StreamInv, Goto, WriteIrqMask1,
                Elsewhere, chipVars
  <2> QED
    BY <1>2, <2>1, <2>2 DEF Core
<1>5. CASE /\ Idle
           /\ UNCHANGED <<playLba, address, acked, late, missed, got, out>>
           /\ \/ Goto("enable", "ifctrl") /\ LC!SelectReg(1)
              \/ Goto("ifctrl", "decoder") /\ LC!WriteIfctrl(LC!Enables)
              \/ Goto("decoder", "ctrl0") /\ LC!SelectReg(10)
              \/ Goto("ctrl0", "unmask") /\ LC!WriteCtrl0(TRUE)
  <2>1. CpuInv'
    BY <1>5 DEF CpuInv, StreamInv, Goto, Idle, cpuVars
  <2>2. GateInv'
    BY <1>5 DEF GateInv, StreamInv, Goto, Idle, cdVars, LC!SelectReg,
                LC!WriteIfctrl, LC!WriteCtrl0, LC!Enables
  <2>3. LateInv' /\ AddressInv'
    BY <1>5 DEF LateInv, AddressInv, StreamInv, Goto, Idle, cdVars,
                LC!SelectReg, LC!WriteIfctrl, LC!WriteCtrl0
  <2> QED
    BY <1>2, <2>1, <2>2, <2>3 DEF Core
<1> QED
  BY <1>3, <1>4, <1>5 DEF Boot

LEMMA AcknowledgeCore ==
  ASSUME StreamInv, Acknowledge
  PROVE  Core'
<1> USE DEF Booting, Locating, Programming, Finishing, Handling
<1>1. pc \in Handling
  BY DEF Acknowledge, InHandler, StreamInv, CpuInv
<1>2. CpuInv'
  BY <1>1 DEF CpuInv, StreamInv, Acknowledge, WriteCdIrqAck,
              CdUpdateInterrupts
<1>3. GateInv'
  BY DEF GateInv, StreamInv, Acknowledge, WriteCdIrqAck, Elsewhere, chipVars
<1>4. DiscInv'
  BY DiscRests DEF StreamInv, Acknowledge, Elsewhere, chipVars
<1>5. LateInv'
  <2>1. pending' = {} /\ missed' = (missed \/ "decoder" \in pending)
    BY DEF Acknowledge, WriteCdIrqAck, StreamInv, GateInv
  <2>2. late > 0 => missed'
    <3>1. pending # {} => "decoder" \in pending
      BY DEF StreamInv, GateInv
    <3>2. late > 0 => pending # {} \/ missed
      BY <1>1 DEF StreamInv, LateInv
    <3> QED
      BY <2>1, <3>1, <3>2
  <2> QED
    BY <1>1, <2>1, <2>2 DEF LateInv, StreamInv, Acknowledge, Elsewhere,
                            chipVars
<1>6. AddressInv'
  BY DEF AddressInv, StreamInv, Acknowledge, Elsewhere, chipVars, DataAt
<1> QED
  BY <1>2, <1>3, <1>4, <1>5, <1>6 DEF Core

LEMMA RestCore ==
  ASSUME StreamInv, Wait \/ NothingHappens \/ UNCHANGED streamVars
  PROVE  Core'
<1>1. /\ UNCHANGED <<pending, gates, intMask, frames, virq>>
      /\ Unchip /\ UNCHANGED <<pc, late, missed>>
  <2>1. CASE Wait
    BY <2>1 DEF Wait, Idle, cdVars, cpuVars, hostVars, Unchip
  <2>2. CASE NothingHappens
    BY <2>2 DEF NothingHappens, Quiet, cdVars, cpuVars, hostVars, Unchip
  <2>3. CASE UNCHANGED streamVars
    BY <2>3 DEF streamVars, vars, cdVars, cpuVars, hostVars, Unchip
  <2> QED
    BY <2>1, <2>2, <2>3
<1> QED
  BY <1>1, Unmoved

(***************************************************************************)
(* The handler's accesses.                                                 *)
(***************************************************************************)

\* Each of them moves software on and touches registers only.
LEMMA AccessRests ==
  ASSUME StreamInv, Access
  PROVE  /\ UNCHANGED <<pending, gates, intMask, frames, virq>>
         /\ UNCHANGED <<playLba, acked, late, missed, got, out>>
         /\ UNCHANGED <<buffer, wal, ptl, decoding, ifctrl, recent>>
BY DEF Access, Idle, cdVars, cpuVars, LC!SelectReg, LC!ReadReg, LC!WriteDbc,
       LC!WriteDac, LC!WriteDtrg, LC!WriteDtack

\* While it locates its sector, PTL is that sector's.
LEMMA Newest ==
  ASSUME StreamInv, pc \in Locating
  PROVE  ptl \in LCP!Address /\ late = 0 /\ recent[late + 1].at = ptl
<1>1. late = 0 /\ 0 < Len(recent) /\ recent[1].at = ptl
  BY DEF StreamInv, LateInv, DiscInv
<1>2. recent \in Seq(LCP!Entry)
  BY DEF StreamInv, LCP!Ring
<1>3. recent[1] \in LCP!Entry
  BY <1>1, <1>2
<1> QED
  BY <1>1, <1>3 DEF LCP!Entry

LEMMA Located ==
  ASSUME StreamInv, pc \in Programming
  PROVE  /\ late + 1 \in 1..Len(recent) /\ recent[late + 1] \in LCP!Entry
         /\ address \in LCP!Address /\ DataAt \in Nat
<1>1. late \in Nat /\ late < Len(recent) /\ address = recent[late + 1].at
  BY DEF StreamInv, LateInv, AddressInv
<1>2. recent \in Seq(LCP!Entry)
  BY DEF StreamInv, LCP!Ring
<1>3. late + 1 \in 1..Len(recent)
  BY <1>1, <1>2
<1>4. recent[late + 1] \in LCP!Entry
  BY <1>2, <1>3
<1>5. address \in LCP!Address
  BY <1>1, <1>4 DEF LCP!Entry
<1> QED
  BY <1>3, <1>4, <1>5, DataAtType

LEMMA AddressIsNat ==
  ASSUME NEW a \in LCP!Address
  PROVE  a \in Nat
BY ChipSizes DEF LCP!Address

LEMMA AccessAddress ==
  ASSUME StreamInv, Access
  PROVE  AddressInv'
<1> USE DEF Locating, Programming, Finishing, Goto
<1>1. /\ address \in Nat /\ dac \in Nat /\ dbc \in Nat
      /\ UNCHANGED <<playLba, late, ptl, recent>>
  BY AccessRests DEF StreamInv, AddressInv
<1>2. CASE Goto("select", "low") /\ LC!SelectReg(8) /\ UNCHANGED address
  BY <1>1, <1>2 DEF AddressInv, LC!SelectReg
<1>3. CASE Goto("low", "high") /\ LC!ReadReg /\ address' = Low(ptl)
  <2>1. ptl \in Nat
    BY <1>3, Newest, AddressIsNat
  <2>2. Low(ptl) \in Nat /\ Low(Low(ptl)) = Low(ptl)
    BY <2>1, LowHigh, LowOfLow, ChipSizes
  <2> QED
    BY <1>1, <1>3, <2>2 DEF AddressInv, LC!ReadReg
<1>4. CASE Goto("high", "status") /\ LC!ReadReg
           /\ address' = LC!WithHigh(address, High(ptl))
  <2>1. ptl \in Nat /\ recent[late + 1].at = ptl
    BY <1>4, Newest, AddressIsNat
  <2>2. LC!WithHigh(address, High(ptl)) = ptl
    BY <1>1, <1>4, <2>1, HighWritten DEF StreamInv, AddressInv
  <2> QED
    BY <1>1, <1>4, <2>1, <2>2 DEF AddressInv, LC!ReadReg
<1>5. CASE Goto("status", "stat3") /\ LC!SelectReg(15) /\ UNCHANGED address
  BY <1>1, <1>5 DEF StreamInv, AddressInv, LC!SelectReg
<1>6. CASE Goto("stat3", "count") /\ LC!ReadReg /\ UNCHANGED address
  BY <1>1, <1>6 DEF StreamInv, AddressInv, LC!ReadReg
<1>7. CASE Goto("count", "dbcl") /\ LC!SelectReg(2) /\ UNCHANGED address
  BY <1>1, <1>7 DEF StreamInv, AddressInv, LC!SelectReg
<1>8. CASE Goto("dbcl", "dbch") /\ LC!WriteDbc(Low(DataSize - 1))
           /\ UNCHANGED address
  <2>1. regptr = 2
    BY <1>8 DEF StreamInv, AddressInv
  <2>2. regptr' = 3 /\ dbc' = LC!WithLow(dbc, Low(DataSize - 1)) /\ dac' = dac
    BY <1>8, <2>1 DEF LC!WriteDbc, LC!NextReg
  <2>3. dbc' \in Nat /\ Low(dbc') = Low(DataSize - 1)
    BY <1>1, <2>2, LowWritten, DbcHolds
  <2> QED
    BY <1>1, <1>8, <2>2, <2>3 DEF StreamInv, AddressInv, Low
<1>9. CASE Goto("dbch", "dacl") /\ LC!WriteDbc(High(DataSize - 1))
           /\ UNCHANGED address
  <2>1. regptr = 3 /\ Low(dbc) = Low(DataSize - 1)
    BY <1>9 DEF StreamInv, AddressInv
  <2>2. /\ regptr' = 4 /\ dac' = dac
        /\ dbc' = LC!WithHigh(dbc, High(DataSize - 1) % DbcHighs)
    BY <1>9, <2>1 DEF LC!WriteDbc, LC!NextReg
  <2>3. dbc' = DataSize - 1 /\ dbc' \in Nat
    BY <1>1, <2>1, <2>2, HighWritten, DbcHolds
  <2> QED
    BY <1>1, <1>9, <2>2, <2>3 DEF StreamInv, AddressInv
<1>10. CASE Goto("dacl", "dach") /\ LC!WriteDac(Low(DataAt))
            /\ UNCHANGED address
  <2>1. regptr = 4 /\ dbc = DataSize - 1
    BY <1>10 DEF StreamInv, AddressInv
  <2>2. regptr' = 5 /\ dbc' = dbc /\ dac' = LC!WithLow(dac, Low(DataAt))
    BY <1>10, <2>1 DEF LC!WriteDac, LC!NextReg
  <2>3. DataAt \in Nat /\ DataAt' = DataAt
    BY <1>10, Located DEF DataAt
  <2>4. dac' \in Nat /\ Low(dac') = Low(DataAt)
    BY <1>1, <2>2, <2>3, LowWritten
  <2>5. Low(dac)' = Low(dac') /\ Low(DataAt)' = Low(DataAt)
    BY <2>3 DEF Low
  <2> QED
    BY <1>1, <1>10, <2>1, <2>2, <2>4, <2>5 DEF StreamInv, AddressInv
<1>11. CASE Goto("dach", "dtrg") /\ LC!WriteDac(High(DataAt))
            /\ UNCHANGED address
  <2>1. regptr = 5 /\ dbc = DataSize - 1 /\ Low(dac) = Low(DataAt)
    BY <1>11 DEF StreamInv, AddressInv
  <2>2. dbc' = dbc /\ dac' = LC!WithHigh(dac, High(DataAt))
    BY <1>11, <2>1 DEF LC!WriteDac
  <2>3. DataAt \in Nat /\ DataAt' = DataAt
    BY <1>11, Located DEF DataAt
  <2>4. dac' = DataAt /\ dac' \in Nat
    BY <1>1, <2>1, <2>2, <2>3, HighWritten
  <2> QED
    BY <1>1, <1>11, <2>1, <2>2, <2>3, <2>4 DEF StreamInv, AddressInv
<1>12. CASE Goto("dtrg", "dma") /\ LC!WriteDtrg /\ UNCHANGED address
  <2>1. DataAt' = DataAt
    BY <1>12 DEF DataAt
  <2> QED
    BY <1>1, <1>12, <2>1 DEF StreamInv, AddressInv, LC!WriteDtrg
<1>13. CASE Goto("done", "dtack") /\ LC!SelectReg(7) /\ UNCHANGED address
  BY <1>1, <1>13 DEF AddressInv, LC!SelectReg
<1>14. CASE Goto("dtack", "return") /\ LC!WriteDtack /\ UNCHANGED address
  BY <1>1, <1>14 DEF AddressInv, LC!WriteDtack
<1> QED
  BY <1>2, <1>3, <1>4, <1>5, <1>6, <1>7, <1>8, <1>9, <1>10, <1>11, <1>12,
     <1>13, <1>14
  DEF Access

LEMMA AccessCore ==
  ASSUME StreamInv, Access
  PROVE  Core'
<1> USE DEF Booting, Locating, Programming, Finishing, Handling
<1>1. \/ pc \in Locating /\ pc' \in Locating \cup Programming
      \/ pc \in Programming /\ pc' \in Programming
      \/ pc \in Finishing /\ pc' \in Finishing
  BY DEF Access, Goto
<1>2. CpuInv' /\ GateInv'
  BY <1>1, AccessRests DEF CpuInv, GateInv, StreamInv
<1>3. DiscInv'
  BY AccessRests, DiscRests DEF StreamInv
<1>4. LateInv'
  <2>1. pc' \in Locating => pc \in Locating
    BY <1>1
  <2> QED
    BY <1>1, <2>1, AccessRests DEF LateInv, StreamInv
<1> QED
  BY <1>2, <1>3, <1>4, AccessAddress DEF Core

(***************************************************************************)
(* The transfer.                                                           *)
(***************************************************************************)

\* The sector that the handler has programmed its transfer for.
Programmed == recent[late + 1].lba

LEMMA Delivery ==
  ASSUME StreamInv, StartDma
  PROVE  /\ Programmed \in Lba
         /\ Programmed + 1 + late = playLba
         /\ got <= Programmed
         /\ got' = Programmed + 1
         /\ DOMAIN out' = 1..DataSize
         /\ \A i \in 1..DataSize :
              /\ out'[i].src = Programmed
              /\ out'[i].at = HeaderSize + i - 1
<1> DEFINE lba == Programmed
<1>1. pc = "dma" /\ pc \in Programming
  BY DEF StartDma, Goto, Programming
<1>2. /\ late + 1 \in 1..Len(recent) /\ recent[late + 1] \in LCP!Entry
      /\ address \in LCP!Address
  BY <1>1, Located
<1>3. lba \in Lba
  BY <1>2 DEF Programmed, LCP!Entry
<1>4. lba + (late + 1) = playLba
  BY <1>2 DEF StreamInv, DiscInv, Programmed
<1>5. late \in Nat /\ got \in Nat /\ playLba \in Nat /\ got + late < playLba
  BY <1>1 DEF StreamInv, LateInv, DiscInv
<1>6. LCP!Holds(address, lba)
  <2>1. LCP!RecentIntact
    BY DEF StreamInv, LCP!Ring
  <2>2. address = recent[late + 1].at
    BY <1>1 DEF StreamInv, AddressInv
  <2> QED
    BY <1>2, <2>1, <2>2 DEF LCP!RecentIntact, Programmed
<1>7. dac = DataAt /\ dbc = DataSize - 1
  BY <1>1 DEF StreamInv, AddressInv
<1> HIDE DEF lba
<1>8. /\ DOMAIN out' = 1..DataSize
      /\ \A i \in 1..DataSize :
           out'[i].src = lba /\ out'[i].at = HeaderSize + i - 1
  <2>1. out' = LC!Fetched(DataSize \div 2)
    BY DEF StartDma
  <2> QED
    BY <1>2, <1>3, <1>6, <1>7, <2>1, WholeSector
<1>9. got' = lba + 1
  <2>1. out'[1].src = lba
    BY <1>8, ChipSizes
  <2> QED
    BY <1>3, <2>1 DEF StartDma
<1>10. lba \in Nat
  BY <1>3 DEF Lba
<1>11. lba + 1 + late = playLba /\ got <= lba
  BY <1>4, <1>5, <1>10
<1> QED
  BY <1>3, <1>8, <1>9, <1>11 DEF lba

LEMMA StartDmaCore ==
  ASSUME StreamInv, StartDma
  PROVE  Core'
<1> USE DEF Booting, Locating, Programming, Finishing, Handling
<1>1. pc = "dma" /\ pc' = "done"
  BY DEF StartDma, Goto
<1>2. /\ UNCHANGED <<pending, gates, intMask, frames, virq>>
      /\ UNCHANGED <<playLba, address, acked, late, missed>>
      /\ UNCHANGED <<regptr, ptl, recent, ifctrl, decoding>>
      /\ dac' = LC!DacAfter /\ dbc' = 0
  BY DEF StartDma, Idle, cdVars, cpuVars, LC!Transfer
<1>3. CpuInv' /\ GateInv'
  BY <1>1, <1>2 DEF CpuInv, GateInv, StreamInv
<1>4. DiscInv'
  BY <1>2, DiscRests DEF StreamInv
<1>5. LateInv'
  <2>1. Programmed \in Nat /\ Programmed + 1 + late = playLba
        /\ got' = Programmed + 1
    BY Delivery DEF Lba
  <2>2. late \in Nat /\ playLba \in Nat
        /\ (pending # {} => late > 0) /\ (late > 0 => pending # {} \/ missed)
    BY <1>1 DEF StreamInv, LateInv, DiscInv
  <2>3. got' \in Nat /\ got' + late = playLba /\ got' <= playLba
    BY <2>1, <2>2
  <2> QED
    BY <1>1, <1>2, <2>2, <2>3 DEF LateInv
<1>6. AddressInv'
  <2>1. DataAt \in Nat /\ dac = DataAt /\ dbc = DataSize - 1 /\ address \in Nat
        /\ address \in LCP!Address
    BY <1>1, Located, AddressIsNat DEF StreamInv, AddressInv
  <2>2. DataAt < LC!BufSize
    BY <2>1, ChipSizes DEF DataAt, LC!Wrap, LCP!Address
  <2>3. LC!DacAfter \in Nat
    BY <2>1, <2>2, ChipSizes DEF LC!DacAfter, LC!Wrap
  <2> QED
    BY <1>1, <1>2, <2>1, <2>3 DEF AddressInv
<1> QED
  BY <1>3, <1>4, <1>5, <1>6 DEF Core

(***************************************************************************)
(* The end of a sector period.                                             *)
(***************************************************************************)

\* The ring has the new sector first and the others behind it.
LEMMA RingMoves ==
  ASSUME StreamInv, SectorPeriod
  PROVE  /\ Len(recent) \in Nat /\ Len(recent') \in Nat /\ Len(recent') > 0
         /\ Len(recent') = Depth \/ Len(recent') = Len(recent) + 1
         /\ Len(recent') <= Len(recent) + 1
         /\ recent'[1] = [at |-> wal, lba |-> playLba]
         /\ ptl' = wal
         /\ \A i \in 2..Len(recent') : recent'[i] = recent[i - 1]
<1> DEFINE e == [at |-> wal, lba |-> playLba]
<1>1. recent \in Seq(LCP!Entry) /\ Len(recent) <= Depth /\ e \in LCP!Entry
  BY Decoded DEF StreamInv, LCP!Ring, LCP!Entry
<1>2. /\ recent' = SubSeq(<<e>> \o recent, 1,
                     IF Len(recent) < Depth THEN Len(recent) + 1 ELSE Depth)
      /\ ptl' = wal
  BY Decoded DEF LCP!SectorDecoded, LCP!PointAtSector
<1> HIDE DEF e
<1>3. /\ recent' \in Seq(LCP!Entry)
      /\ Len(recent') = Depth \/ Len(recent') = Len(recent) + 1
      /\ Len(recent') <= Len(recent) + 1
      /\ recent'[1] = e
      /\ \A i \in 2..Len(recent') : recent'[i] = recent[i - 1]
  BY <1>1, <1>2, LCP!Pushed, Chip
<1>4. Len(recent) \in Nat /\ Len(recent') \in Nat
  BY <1>1, <1>3
<1>5. Len(recent') > 0
  BY <1>3, <1>4, ChipSizes
<1> QED
  BY <1>2, <1>3, <1>4, <1>5 DEF e

\* Its interrupt is raised, whatever is pending already.
LEMMA Raised ==
  ASSUME StreamInv, SectorPeriod
  PROVE  /\ pc \notin Booting
         /\ pending' = {"decoder"} /\ virq' \subseteq {CdLevel}
         /\ UNCHANGED <<gates, intMask, frames, ifctrl, decoding>>
         /\ UNCHANGED <<regptr, dac, dbc>>
<1>1. /\ decoding /\ "DECI" \in ifstat'
      /\ UNCHANGED <<ifctrl, decoding, regptr, dac, dbc>>
  BY DEF SectorPeriod, LC!SectorDecoded
<1>2. pc \notin Booting /\ gates = {"decoder"} /\ "DECIEN" \in ifctrl
  BY <1>1 DEF StreamInv, GateInv, Booting
<1>3. DecoderFires
  BY <1>1, <1>2 DEF DecoderFires
<1> DEFINE raised == {s \in gates : /\ s = "decoder" => DecoderFires
                                    /\ s = "comm" => irqEnabled}
<1>4. raised = {"decoder"}
  BY <1>2, <1>3
<1>5. IrqSet(raised) /\ UNCHANGED <<gates, intMask, frames>>
  BY DEF SectorPeriod, CdTick
<1> HIDE DEF raised
<1>6. pending' = {"decoder"} /\ virq' = virq \cup {CdLevel}
  BY <1>4, <1>5 DEF IrqSet, CdUpdateInterrupts, StreamInv, GateInv
<1>7. virq \subseteq {CdLevel}
  BY <1>2 DEF StreamInv, CpuInv, Booting
<1> QED
  BY <1>1, <1>2, <1>5, <1>6, <1>7

LEMMA PeriodCore ==
  ASSUME StreamInv, SectorPeriod
  PROVE  Core'
<1> USE DEF Booting, Locating, Programming, Finishing, Handling
<1>1. /\ InTime /\ playLba' = playLba + 1
      /\ late' = IF InHandler THEN late + 1 ELSE late
      /\ UNCHANGED <<pc, address, acked, missed, got, out>>
  BY DEF SectorPeriod
<1>2. /\ pc \in {"unmask", "idle"} \cup Programming \cup Finishing
      /\ pc \in Programming => late < MaxLate
  BY <1>1, Raised DEF StreamInv, CpuInv, InTime
<1>3. pc \in Handling <=> InHandler
  BY <1>2 DEF StreamInv, CpuInv, InHandler
<1>4. CpuInv'
  BY <1>1, <1>2, Raised DEF StreamInv, CpuInv
<1>5. GateInv'
  BY <1>1, Raised DEF StreamInv, GateInv
<1>6. playLba \in Nat /\ late \in Nat /\ got \in Nat /\ got <= playLba
  BY DEF StreamInv, DiscInv, LateInv
<1>7. DiscInv'
  <2>1. ASSUME NEW i \in 1..Len(recent')
        PROVE  recent'[i].lba + i = playLba'
    <3>1. CASE i = 1
      BY <1>1, <3>1, RingMoves
    <3>2. CASE i # 1
      <4>1. i \in 2..Len(recent') /\ i - 1 \in 1..Len(recent)
        BY <3>2, RingMoves
      <4>2. recent'[i] = recent[i - 1]
        BY <4>1, RingMoves
      <4>3. recent[i - 1].lba + (i - 1) = playLba
        BY <4>1 DEF StreamInv, DiscInv
      <4>4. recent[i - 1].lba \in Nat
        <5>1. recent[i - 1] \in LCP!Entry
          BY <4>1 DEF StreamInv, LCP!Ring
        <5> QED
          BY <5>1 DEF LCP!Entry, Lba
      <4>5. i \in Nat
        BY <4>1, RingMoves
      <4> DEFINE lba == recent[i - 1].lba
      <4>6. lba \in Nat /\ lba + (i - 1) = playLba /\ recent'[i].lba = lba
        BY <4>2, <4>3, <4>4
      <4> HIDE DEF lba
      <4> QED
        BY <1>1, <4>5, <4>6
    <3> QED
      BY <3>1, <3>2
  <2>2. playLba' \in Nat /\ Len(recent') > 0 /\ recent'[1].at = ptl'
    BY <1>1, <1>6, RingMoves
  <2> QED
    BY <2>1, <2>2 DEF DiscInv
<1>8. LateInv'
  <2>1. CASE pc \in {"unmask", "idle"}
    <3>1. late' = late /\ pending' = {"decoder"} /\ got < playLba'
      BY <1>1, <1>3, <1>6, <2>1, Raised
    <3> QED
      BY <1>1, <1>6, <2>1, <3>1 DEF LateInv
  <2>2. CASE pc \in Programming
    <3>1. late' = late + 1 /\ late' > 0 /\ pending' = {"decoder"}
      BY <1>1, <1>3, <1>6, <2>2, Raised
    <3>2. late < Len(recent) /\ got + late < playLba /\ late < MaxLate
      BY <1>2, <2>2 DEF StreamInv, LateInv
    <3>3. late' <= MaxLate /\ late' < Len(recent') /\ got + late' < playLba'
      BY <1>1, <1>6, <3>1, <3>2, RingMoves, ChipSizes
    <3> QED
      BY <1>1, <1>6, <2>2, <3>1, <3>3 DEF LateInv
  <2>3. CASE pc \in Finishing
    <3>1. late' = late + 1 /\ late' > 0 /\ pending' = {"decoder"}
      BY <1>1, <1>3, <1>6, <2>3, Raised
    <3>2. got + late = playLba
      BY <2>3 DEF StreamInv, LateInv
    <3> QED
      BY <1>1, <1>6, <2>3, <3>1, <3>2 DEF LateInv
  <2> QED
    BY <1>2, <2>1, <2>2, <2>3
<1>9. AddressInv'
  <2>1. /\ address \in Nat /\ dac \in Nat /\ dbc \in Nat /\ DataAt' = DataAt
        /\ UNCHANGED <<pc, address, regptr, dac, dbc>>
    BY <1>1, Raised DEF StreamInv, AddressInv, DataAt
  <2>2. pc \in Programming => address' = recent'[late' + 1].at
    <3> SUFFICES ASSUME pc \in Programming
                 PROVE  address = recent'[late' + 1].at
      BY <1>1
    <3>1. late' = late + 1 /\ address = recent[late + 1].at
      BY <1>1, <1>3 DEF StreamInv, AddressInv
    <3>2. late' < Len(recent')
      BY <1>1, <1>8 DEF LateInv
    <3>3. late + 2 \in 2..Len(recent')
      BY <1>6, <3>1, <3>2, RingMoves
    <3>4. recent'[late + 2] = recent[(late + 2) - 1]
      BY <3>3, RingMoves
    <3>5. (late + 2) - 1 = late + 1 /\ late' + 1 = late + 2
      BY <1>6, <3>1
    <3> QED
      BY <3>1, <3>4, <3>5
  <2> QED
    BY <1>2, <2>1, <2>2 DEF StreamInv, AddressInv
<1> QED
  BY <1>4, <1>5, <1>7, <1>8, <1>9 DEF Core

(***************************************************************************)
(* The invariant holds of the whole.                                       *)
(***************************************************************************)

LEMMA StreamStep == StreamInv /\ [NextStream]_streamVars => StreamInv'
<1> SUFFICES ASSUME StreamInv, [NextStream]_streamVars PROVE StreamInv'
  OBVIOUS
<1>1. IInv' /\ LCP!Ring'
  BY IrqKept, RingKept DEF StreamInv
<1>2. Core'
  BY BeginCore, BootCore, UnmaskCore, AccessCore, StartDmaCore,
     AcknowledgeCore, ReturnCore, PeriodCore, RestCore
  DEF NextStream, Software
<1> QED
  BY <1>1, <1>2 DEF Core, StreamInv

LEMMA StreamStart == InitStream => StreamInv
<1> SUFFICES ASSUME InitStream PROVE StreamInv
  OBVIOUS
<1> USE DEF Booting, Locating, Programming, Finishing, Handling
<1>1. IInv
  BY InitIInv DEF InitStream
<1>2. LCP!Ring
  <2>1. LCP!Init
    BY DEF InitStream, LC!Init, LCP!Init, LC!Address, LCP!Address,
           LC!BufSize, LCP!BufSize, LC!ZeroByte, LCP!ZeroByte,
           LC!Disc, LCP!Disc
  <2> QED
    BY <2>1, LCP!RingInit, Chip
<1>3. CpuInv /\ GateInv
  BY DEF InitStream, Init, LC!Init, CpuInv, GateInv
<1>4. DiscInv
  BY DEF InitStream, LC!Init, DiscInv
<1>5. LateInv /\ AddressInv
  BY DEF InitStream, Init, LC!Init, LateInv, AddressInv
<1> QED
  BY <1>1, <1>2, <1>3, <1>4, <1>5 DEF StreamInv

\* The composition always satisfies the invariant.
THEOREM StreamInvariance == SpecStream => []StreamInv
BY StreamStart, StreamStep, PTL DEF SpecStream

\* What has been decoded is handed out before software waits with nothing
\* pending, unless it has acknowledged an interrupt unseen.
THEOREM StrandedCorrect == SpecStream => []NothingStranded
<1>1. StreamInv => NothingStranded
  BY DEF StreamInv, LateInv, NothingStranded
<1> QED
  BY <1>1, StreamInvariance, PTL

\* The detailed system implements the abstract stream: what a handler gets
\* through chip, controller and processor is a whole sector, later on the
\* disc than the one before and no more than Window behind the drive.
THEOREM StreamCorrect == SpecStream => StreamSpec
<1>1. InitStream => Stream!Init
  <2> SUFFICES ASSUME InitStream PROVE Stream!Init
    OBVIOUS
  <2>1. out = <<>> /\ playLba = 0 /\ got = 0
    BY DEF InitStream
  <2>2. OutData = <<>>
    BY <2>1 DEF OutData
  <2> QED
    BY <2>1, <2>2 DEF Stream!Init
<1>2. StreamInv /\ [NextStream]_streamVars => [Stream!Next]_(Stream!vars)
  <2> SUFFICES ASSUME StreamInv, [NextStream]_streamVars
               PROVE  Stream!Next \/ UNCHANGED Stream!vars
    OBVIOUS
  <2>1. CASE SectorPeriod
    <3>1. playLba' = playLba + 1 /\ UNCHANGED <<got, out>>
      BY <2>1 DEF SectorPeriod
    <3>2. OutData' = OutData
      BY <3>1 DEF OutData
    <3> QED
      BY <3>1, <3>2 DEF Stream!Next, Stream!Decode
  <2>2. CASE StartDma
    <3>1. Programmed \in Nat /\ late \in Nat /\ late <= MaxLate
      BY <2>2, Delivery
      DEF Lba, StreamInv, LateInv, StartDma, Goto, Programming
    <3>2. /\ Programmed \in got..playLba - 1
          /\ playLba <= Programmed + (MaxLate + 1)
      BY <2>2, <3>1, Delivery, ChipSizes DEF StreamInv, LateInv, DiscInv
    <3>3. OutData' = Stream!Data(Programmed)
      <4>1. OutData' = [i \in 1..DataSize |->
                          [src |-> out'[i].src,
                           at  |-> out'[i].at - HeaderSize + 1]]
        BY <2>2, Delivery DEF OutData
      <4>2. ASSUME NEW i \in 1..DataSize
            PROVE  /\ out'[i].src = Programmed
                   /\ out'[i].at - HeaderSize + 1 = i
        BY <2>2, Delivery, ChipSizes
      <4> QED
        BY <4>1, <4>2 DEF Stream!Data
    <3>4. got' = Programmed + 1 /\ playLba' = playLba
      BY <2>2, Delivery DEF StartDma
    <3> QED
      BY <3>2, <3>3, <3>4 DEF Stream!Next, Stream!Deliver
  <2>3. CASE ~SectorPeriod /\ ~StartDma
    <3>1. UNCHANGED <<playLba, got, out>>
      BY <2>3
      DEF NextStream, Software, Begin, Boot, Elsewhere, Unmask, Return, Resume,
          Access, Acknowledge, Wait, NothingHappens, hostVars, streamVars
    <3>2. OutData' = OutData
      BY <3>1 DEF OutData
    <3> QED
      BY <3>1, <3>2 DEF Stream!vars
  <2> QED
    BY <2>1, <2>2, <2>3
<1> QED
  BY <1>1, <1>2, StreamInvariance, PTL DEF SpecStream, StreamSpec, Stream!Spec
=============================================================================

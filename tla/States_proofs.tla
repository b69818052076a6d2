---------------------------- MODULE States_proofs ----------------------------
(* Proofs about what the machine holds in more than one place: interrupt      *)
(* delivery under saved states, the cartridge boards, the palette and the     *)
(* VRAM port, each for all values of its constants, then all four together.   *)
EXTENDS States, CdIrq_proofs

-----------------------------------------------------------------------------
(* Interrupt delivery, for every mask that software writes and every nesting: *)
(* neither loading an earlier state nor a restart takes the machine out of    *)
(* its invariant.                                                             *)

(* A file that exists satisfies the machine's invariant, as far as a machine  *)
(* between two frames is concerned.                                           *)
FileInv ==
  saved # NoSave =>
    /\ saved.pending \subseteq Source /\ saved.irqMask \subseteq Source
    /\ saved.irqEnabled \in BOOLEAN /\ saved.gates \subseteq Source
    /\ saved.vblEnabled \in BOOLEAN /\ saved.vblPending \in BOOLEAN
    /\ saved.virq \subseteq Lines /\ saved.intMask \in 0 .. 7
    /\ saved.frames \in Seq(Frame)
    /\ (CdLevel \in saved.virq) <=> (saved.pending # {})
    /\ saved.pending \subseteq saved.irqMask
    /\ saved.vblPending => ~saved.vblEnabled

SaveInv == IInv /\ FileInv

(* A machine that satisfies the invariant writes a file that does. *)
LEMMA SaveKeeps ==
  ASSUME SaveInv, Save
  PROVE  SaveInv'
<1>1. IInv'
  BY DEF SaveInv, Save, vars, cdVars, cpuVars, IInv, TypeOK,
         LineFollowsPending, PendingIsFlagged, LatchedVblIsMasked,
         PreciseInterrupts
<1>2. FileInv'
  BY DEF SaveInv, Save, Machine, FileInv, IInv, TypeOK, LineFollowsPending,
         PendingIsFlagged, LatchedVblIsMasked
<1> QED
  BY <1>1, <1>2 DEF SaveInv

(* Loading replaces the parts by those of the file, which agree. *)
LEMMA LoadKeeps ==
  ASSUME SaveInv, Load
  PROVE  SaveInv'
<1>1. FileInv /\ IInv /\ saved # NoSave /\ turn' = turn /\ turn = "check"
      /\ saved' = saved
  BY DEF SaveInv, Load
<1>2. TypeOK'
  BY <1>1 DEF Load, LoadCd, LoadM68k, FileInv, IInv, TypeOK
<1>3. LineFollowsPending' /\ PendingIsFlagged'
  BY <1>1 DEF Load, LoadCd, LoadM68k, FileInv, LineFollowsPending,
              PendingIsFlagged
<1>4. LatchedVblIsMasked'
  BY <1>1 DEF Load, LoadCd, FileInv, LatchedVblIsMasked
<1>5. PreciseInterrupts'
  BY <1>1 DEF PreciseInterrupts
<1>6. FileInv'
  BY <1>1 DEF FileInv
<1> QED
  BY <1>2, <1>3, <1>4, <1>5, <1>6 DEF SaveInv, IInv

(* A restart is the machine's initial state with the file kept. *)
LEMMA RestartKeeps ==
  ASSUME SaveInv, Restart
  PROVE  SaveInv'
<1>1. FileInv'
  BY DEF SaveInv, Restart, FileInv
<1>2. TypeOK'
  <2>1. frames' \in Seq(Frame) /\ intMask' \in 0 .. 7 /\ virq' \subseteq Lines
        /\ turn' \in Turn
    BY DEF Restart, Reset, Lines, Turn, VblLevel, CdLevel, TimerLevel
  <2> QED
    BY <2>1 DEF Restart, Reset, TypeOK
<1>3. LineFollowsPending' /\ PendingIsFlagged' /\ LatchedVblIsMasked'
      /\ PreciseInterrupts'
  BY DEF Restart, Reset, LineFollowsPending, PendingIsFlagged,
         LatchedVblIsMasked, PreciseInterrupts, CdLevel, TimerLevel
<1> QED
  BY <1>1, <1>2, <1>3 DEF SaveInv, IInv

LEMMA InitSaveInv == SaveInit => SaveInv
BY InitIInv DEF SaveInit, SaveInv, FileInv

LEMMA SaveStep ==
  ASSUME SaveInv, [SaveNext]_<<vars, saved>>
  PROVE  SaveInv'
<1>1. CASE [Next]_vars /\ UNCHANGED saved
  <2>1. IInv'
    BY <1>1, NextIInv DEF SaveInv
  <2>2. FileInv'
    BY <1>1 DEF SaveInv, FileInv
  <2> QED
    BY <2>1, <2>2 DEF SaveInv
<1>2. CASE Save
  BY <1>2, SaveKeeps
<1>3. CASE Load
  BY <1>3, LoadKeeps
<1>4. CASE Restart
  BY <1>4, RestartKeeps
<1> QED
  BY <1>1, <1>2, <1>3, <1>4 DEF SaveNext

(* The machine's invariant and the file's hold whenever states are saved and  *)
(* loaded and however often the program is restarted.                         *)
THEOREM SaveInvariance == SaveSpec => []SaveInv
<1>1. SaveInv /\ [SaveNext]_<<vars, saved>> => SaveInv'
  BY SaveStep
<1> QED
  BY <1>1, InitSaveInv, PTL DEF SaveSpec

(* What the 68K, geo_cd.c and FF000F hold of an interrupt agrees in every     *)
(* state, loaded ones included.                                               *)
THEOREM PartsCorrect == SaveSpec => []PartsAgree
<1>1. SaveInv => PartsAgree
  BY DEF SaveInv, IInv, PartsAgree
<1> QED
  BY <1>1, SaveInvariance, PTL

-----------------------------------------------------------------------------
(* The boards, for every set of systems, bytes and registers.                 *)

USE DEF switched, chips, selection

-----------------------------------------------------------------------------
(* The choice of the ROMs.  Both ways of choosing write all three copies.     *)

LEMMA SelectTogether == ASSUME NEW c, Select(c) PROVE SelectedTogether'
BY DEF Select, SelectedTogether

LEMMA SelectedElsewhere ==
  ASSUME SelectedTogether, UNCHANGED <<crtfix, mrom, fix, chosen>>
  PROVE  SelectedTogether'
BY DEF SelectedTogether

LEMMA SelectedStep ==
  ASSUME SelectedTogether, [CartNext]_cartVars
  PROVE  SelectedTogether'
<1>1. ASSUME NEW d \in Bytes,
             \/ SwitchBank(d) \/ SwitchBankKof98(d)
             \/ WriteOverlay(d) \/ KofLow(d)
      PROVE  SelectedTogether'
  BY <1>1, SelectedElsewhere DEF SwitchBank, SwitchBankKof98, WriteOverlay, KofLow
<1>2. CASE ReadPrn
  BY <1>2, SelectedElsewhere DEF ReadPrn
<1>3. ASSUME NEW i \in Registers, NEW v \in Bytes,
             PvcByte(i, v) \/ KofByte(i, v)
      PROVE  SelectedTogether'
  BY <1>3, SelectedElsewhere DEF PvcByte, KofByte, Triggered
<1>4. ASSUME NEW i \in Registers, NEW lo \in Bytes, NEW hi \in Bytes,
             PvcWord(i, lo, hi) \/ KofWord(i, lo, hi)
      PROVE  SelectedTogether'
  BY <1>4, SelectedElsewhere DEF PvcWord, KofWord, Triggered
<1>5. ASSUME NEW c \in {0, 1}, WriteFix(c)
      PROVE  SelectedTogether'
  BY <1>5, SelectTogether DEF WriteFix
<1>6. CASE ResetCart
  BY <1>6 DEF ResetCart, SelectedTogether
<1>7. CASE SaveCart
  BY <1>7, SelectedElsewhere DEF SaveCart
<1>8. CASE LoadCart
  BY <1>8, SelectTogether DEF LoadCart
<1>9. CASE RestartCart
  BY <1>9 DEF RestartCart, Start, SelectedTogether
<1>10. CASE UNCHANGED cartVars
  BY <1>10, SelectedElsewhere DEF cartVars
<1> QED
  BY <1>1, <1>2, <1>3, <1>4, <1>5, <1>6, <1>7, <1>8, <1>9, <1>10 DEF CartNext

(* The Z80's program and the characters are the ones the 68K's register names *)
(* from the first choice after a reset on, loaded states included.            *)
THEOREM SelectedCorrect == CartSpec => []SelectedTogether
<1>1. CartInit => SelectedTogether
  BY DEF CartInit, SelectedTogether
<1>2. SelectedTogether /\ [CartNext]_cartVars => SelectedTogether'
  BY SelectedStep
<1> QED
  BY <1>1, <1>2, PTL DEF CartSpec

-----------------------------------------------------------------------------
(* The generator of the NEO-SMA.                                              *)

(* The one value that the shift would empty has its top bit tapped. *)
LEMMA NextPrnAlive ==
  ASSUME NEW v \in Nat, 0 < v, v < 65536
  PROVE  NextPrn(v) \in Nat /\ 0 < NextPrn(v) /\ NextPrn(v) < 65536
<1>1. Parity(v) \in 0 .. 1
  BY DEF Parity
<1>2. CASE v < 32768
  BY <1>1, <1>2 DEF NextPrn
<1>3. CASE v > 32768
  <2>1. (2 * v) % 65536 = 2 * v - 65536
    BY <1>3
  <2> QED BY <1>1, <1>3, <2>1 DEF NextPrn
<1>4. CASE v = 32768
  BY <1>4 DEF NextPrn, Parity
<1> QED BY <1>2, <1>3, <1>4

LEMMA PrnStep == ASSUME PrnAlive, [CartNext]_cartVars PROVE PrnAlive'
<1> USE DEF PrnAlive
<1>1. ASSUME NEW d \in Bytes,
             \/ SwitchBank(d) \/ SwitchBankKof98(d)
             \/ WriteOverlay(d) \/ KofLow(d)
      PROVE  PrnAlive'
  BY <1>1 DEF SwitchBank, SwitchBankKof98, WriteOverlay, KofLow
<1>2. CASE ReadPrn
  BY <1>2, NextPrnAlive DEF ReadPrn
<1>3. ASSUME NEW i \in Registers, NEW v \in Bytes,
             PvcByte(i, v) \/ KofByte(i, v)
      PROVE  PrnAlive'
  BY <1>3 DEF PvcByte, KofByte, Triggered
<1>4. ASSUME NEW i \in Registers, NEW lo \in Bytes, NEW hi \in Bytes,
             PvcWord(i, lo, hi) \/ KofWord(i, lo, hi)
      PROVE  PrnAlive'
  BY <1>4 DEF PvcWord, KofWord, Triggered
<1>5. ASSUME NEW c \in {0, 1}, WriteFix(c)
      PROVE  PrnAlive'
  BY <1>5 DEF WriteFix
<1>6. CASE ResetCart
  BY <1>6 DEF ResetCart, Seed
<1>7. CASE SaveCart
  BY <1>7 DEF SaveCart
<1>8. CASE LoadCart
  BY <1>8 DEF LoadCart, LoadFields
<1>9. CASE RestartCart
  BY <1>9 DEF RestartCart, Start, Seed
<1>10. CASE UNCHANGED cartVars
  BY <1>10 DEF cartVars
<1> QED
  BY <1>1, <1>2, <1>3, <1>4, <1>5, <1>6, <1>7, <1>8, <1>9, <1>10 DEF CartNext

(* The numbers never run out: the register does not become zero, whatever is  *)
(* read, reset, saved and loaded.                                             *)
THEOREM PrnCorrect == CartSpec => []PrnAlive
<1>1. CartInit => PrnAlive
  BY DEF CartInit, PrnAlive, Seed
<1>2. PrnAlive /\ [CartNext]_cartVars => PrnAlive'
  BY PrnStep
<1> QED
  BY <1>1, <1>2, PTL DEF CartSpec

-----------------------------------------------------------------------------
(* The colours of the NEO-PVC.                                                *)

(* Unpacking and packing again gives every word back. *)
THEOREM PvcLossless == Lossless
<1> SUFFICES ASSUME NEW lo \in 0 .. 255, NEW hi \in 0 .. 255
             PROVE  Packed(Unpacked(lo, hi)) = [lo |-> lo, hi |-> hi]
  BY DEF Lossless
<1> DEFINE c == Unpacked(lo, hi)
<1>1. /\ c.b % 32 = c.b /\ c.g % 32 = c.g /\ c.r % 32 = c.r /\ c.d % 2 = c.d
  BY DEF Unpacked
<1>2. /\ c.b \div 2 = lo % 16 /\ c.b % 2 = (hi \div 16) % 2
  BY DEF Unpacked
<1>3. /\ c.g \div 2 = lo \div 16 /\ c.g % 2 = (hi \div 32) % 2
  BY DEF Unpacked
<1>4. /\ c.r \div 2 = hi % 16 /\ c.r % 2 = (hi \div 64) % 2
  BY DEF Unpacked
<1>5. c.d = hi \div 128
  BY DEF Unpacked
<1>6. (lo % 16) + 16 * (lo \div 16) = lo
  OBVIOUS
<1>7. (hi % 16) + 16 * ((hi \div 16) % 2) + 32 * ((hi \div 32) % 2)
        + 64 * ((hi \div 64) % 2) + 128 * (hi \div 128) = hi
  OBVIOUS
<1> HIDE DEF c
<1> QED
  BY <1>1, <1>2, <1>3, <1>4, <1>5, <1>6, <1>7 DEF Packed, c

-----------------------------------------------------------------------------
(* The palette, for every number of entries and all values of their halves.   *)

Ram == [P!Cells -> P!Word]

(* Palette RAM and the colours have a value for every cell; a file has        *)
(* palette RAM and no colours.                                                *)
PaletteInv ==
  /\ palram \in Ram
  /\ DOMAIN output = P!Cells
  /\ palbank \in P!Banks
  /\ palSaved # NoSave =>
       palSaved.palram \in Ram /\ palSaved.palbank \in P!Banks
  /\ PaletteCurrent

LEMMA InitPalette == ASSUME P!Init PROVE PaletteInv
<1> USE DEF P!Init
<1>1. palram \in Ram
  <2>1. P!Black \in P!Word
    BY StatesAssumption DEF P!Black, P!Word
  <2> QED
    BY <2>1 DEF Ram
<1>2. DOMAIN output = P!Cells /\ palbank \in P!Banks /\ palSaved = NoSave
  BY DEF P!Banks
<1>3. PaletteCurrent
  BY DEF PaletteCurrent, P!PaletteCurrent
<1> QED
  BY <1>1, <1>2, <1>3 DEF PaletteInv

(* A word that is stored is converted where it is stored; the other cells     *)
(* keep the colours of the words they keep.                                   *)
LEMMA StoreKeeps ==
  ASSUME PaletteInv, NEW e \in Entries, NEW w \in P!Word, P!Store(e, w)
  PROVE  PaletteInv'
<1>1. palram' \in Ram /\ DOMAIN output' = P!Cells
  BY DEF PaletteInv, P!Store, Ram
<1>2. ASSUME NEW c \in P!Cells
      PROVE  output'[c] = P!Converted(lut', palram'[c])
  <2>1. output[c] = P!Converted(lut, palram[c])
    BY DEF PaletteInv, PaletteCurrent, P!PaletteCurrent
  <2>2. c \in DOMAIN palram /\ c \in DOMAIN output /\ lut' = lut
    BY DEF PaletteInv, Ram, P!Store
  <2> QED
    BY <2>1, <2>2 DEF P!Store
<1>3. PaletteCurrent'
  BY <1>2 DEF PaletteCurrent, P!PaletteCurrent
<1> QED
  BY <1>1, <1>3 DEF PaletteInv, P!Store

(* The colours computed again are those of the memory given.                  *)
LEMMA RecomputeKeeps ==
  ASSUME palram' \in Ram, palbank' \in P!Banks,
         output' = P!Recomputed(lut', palram'),
         palSaved' # NoSave =>
           palSaved'.palram \in Ram /\ palSaved'.palbank \in P!Banks
  PROVE  PaletteInv'
<1>1. DOMAIN output' = P!Cells
  BY DEF P!Recomputed
<1>2. PaletteCurrent'
  BY DEF PaletteCurrent, P!PaletteCurrent, P!Recomputed
<1> QED
  BY <1>1, <1>2 DEF PaletteInv

LEMMA PaletteStep ==
  ASSUME PaletteInv, [P!Next]_pal
  PROVE  PaletteInv'
<1>1. ASSUME NEW e \in Entries, NEW w \in P!Word, P!WriteWord(e, w)
      PROVE  PaletteInv'
  BY <1>1, StoreKeeps DEF P!WriteWord
<1>2. ASSUME NEW a \in P!Addresses, NEW v \in Halves, P!WriteByte(a, v)
      PROVE  PaletteInv'
  <2> DEFINE e == a \div 2
             w == palram[<<palbank, e>>]
  <2>1. e \in Entries
    BY StatesAssumption DEF P!Addresses
  <2>2. w \in P!Word
    BY <2>1 DEF PaletteInv, Ram, P!Cells
  <2>3. [w EXCEPT !.lo = v] \in P!Word /\ [w EXCEPT !.hi = v] \in P!Word
    BY <2>2 DEF P!Word
  <2>4. \/ P!Store(e, [w EXCEPT !.lo = v])
        \/ P!Store(e, [w EXCEPT !.hi = v])
    BY <1>2 DEF P!WriteByte
  <2> QED
    BY <2>1, <2>3, <2>4, StoreKeeps
<1>3. ASSUME NEW b \in P!Banks, P!SelectBank(b)
      PROVE  PaletteInv'
  BY <1>3 DEF P!SelectBank, PaletteInv, PaletteCurrent, P!PaletteCurrent
<1>4. ASSUME NEW s \in {0, 1}, P!WriteShadow(s)
      PROVE  PaletteInv'
  BY <1>4 DEF P!WriteShadow, PaletteInv, PaletteCurrent, P!PaletteCurrent
<1>5. ASSUME NEW l \in P!Luts, P!SetPalette(l)
      PROVE  PaletteInv'
  BY <1>5, RecomputeKeeps DEF P!SetPalette, PaletteInv
<1>6. CASE P!Reset
  BY <1>6 DEF P!Reset, PaletteInv, PaletteCurrent, P!PaletteCurrent, P!Banks
<1>7. CASE P!Save
  BY <1>7 DEF P!Save, PaletteInv, PaletteCurrent, P!PaletteCurrent
<1>8. CASE P!Load
  BY <1>8, RecomputeKeeps DEF P!Load, PaletteInv
<1>9. CASE P!Restart
  <2>1. P!Black \in P!Word
    BY StatesAssumption DEF P!Black, P!Word
  <2>2. palram' \in Ram /\ palbank' \in P!Banks
    BY <1>9, <2>1 DEF P!Restart, Ram, P!Banks
  <2> QED
    BY <1>9, <2>2, RecomputeKeeps DEF P!Restart, PaletteInv
<1>10. CASE UNCHANGED pal
  BY <1>10 DEF pal, PaletteInv, PaletteCurrent, P!PaletteCurrent
<1> QED
  BY <1>1, <1>2, <1>3, <1>4, <1>5, <1>6, <1>7, <1>8, <1>9, <1>10 DEF P!Next

-----------------------------------------------------------------------------
(* The VRAM port, for halves of any size and all steps.                       *)

(* Whole halves make no difference to the place within a half.                *)
LEMMA ModShift ==
  ASSUME NEW H \in Nat \ {0}, NEW k \in Int, NEW y \in Int
  PROVE  (k * H + y) % H = y % H
<1>1. PICK q \in Int, r \in 0 .. H - 1 : y = q * H + r
  <2>1. y = (y \div H) * H + (y % H) /\ y % H \in 0 .. H - 1 /\ y \div H \in Int
    OBVIOUS
  <2> QED BY <2>1
<1>2. k * H + y = (k + q) * H + r
  BY <1>1
<1> QED
  BY <1>1, <1>2

(* Where the port stands: a, b and m are its address, half and step, n and w  *)
(* the address written last and the steps since, d whether there is one.      *)
Placed(a, b, n, w) ==
  b = V!HalfOf(n) /\ a = V!HalfOf(n) + ((n + w) % Half)

Stands(a, b, m, n, w, d) ==
  /\ a \in Int /\ b \in Int /\ m \in Int /\ n \in Int /\ w \in Int
  /\ d \in BOOLEAN
  /\ d => Placed(a, b, n, w)

(* The half of the address is kept beside it: without it the formula of       *)
(* WalkWraps does not survive the next write.                                 *)
PortInv ==
  /\ Stands(vramaddr, vrambank, vrammod, base, walk, addressed)
  /\ portSaved # NoSave =>
       Stands(portSaved.vramaddr, portSaved.vrambank, portSaved.vrammod,
              portSaved.base, portSaved.walk, portSaved.addressed)

LEMMA HalfType ==
  ASSUME NEW a \in Int PROVE V!HalfOf(a) \in Int
BY StatesAssumption DEF V!HalfOf

LEMMA AddressStands ==
  ASSUME NEW a \in Int, NEW m \in Int
  PROVE  Stands(a, V!HalfOf(a), m, a, 0, TRUE)
<1>1. a = (a \div Half) * Half + (a % Half)
  BY StatesAssumption
<1> QED
  BY <1>1, HalfType, StatesAssumption DEF Stands, Placed, V!HalfOf

(* A step from a place within the half is a step from the address written     *)
(* last, for it differs from what was walked by whole halves.                 *)
LEMMA StepStands ==
  ASSUME NEW a, NEW b, NEW m, NEW n, NEW w, NEW d,
         Stands(a, b, m, n, w, d)
  PROVE  Stands(((a + m) % Half) + b, b, m, n, w + m, d)
<1> USE StatesAssumption
<1>1. /\ a \in Int /\ b \in Int /\ m \in Int /\ n \in Int /\ w \in Int
      /\ d \in BOOLEAN
  BY DEF Stands
<1>2. ((a + m) % Half) + b \in Int
  BY <1>1
<1>3. ASSUME d = TRUE
      PROVE  (a + m) % Half = (n + (w + m)) % Half
  <2> DEFINE k == n \div Half
             y == n + w
             j == y \div Half
             r == y % Half
  <2>1. a = k * Half + r
    BY <1>3 DEF Stands, Placed, V!HalfOf
  <2>2. k \in Int /\ j \in Int /\ y \in Int /\ r \in Int /\ y = j * Half + r
    BY <1>1
  <2> HIDE DEF k, y, j, r
  <2>3. (a + m) % Half = (r + m) % Half
    <3>1. k * Half \in Int /\ r + m \in Int
      BY <1>1, <2>2
    <3>2. a + m = k * Half + (r + m)
      BY <1>1, <2>1, <2>2, <3>1
    <3>3. (k * Half + (r + m)) % Half = (r + m) % Half
      BY <2>2, <3>1, ModShift
    <3> QED
      BY <3>2, <3>3
  <2>4. (y + m) % Half = (r + m) % Half
    <3>1. j * Half \in Int /\ r + m \in Int
      BY <1>1, <2>2
    <3>2. y + m = j * Half + (r + m)
      BY <1>1, <2>2, <3>1
    <3>3. (j * Half + (r + m)) % Half = (r + m) % Half
      BY <2>2, <3>1, ModShift
    <3> QED
      BY <3>2, <3>3
  <2>5. y + m = n + (w + m)
    BY <1>1 DEF y
  <2> QED
    BY <2>3, <2>4, <2>5
<1>4. d => Placed(((a + m) % Half) + b, b, n, w + m)
  <2> SUFFICES ASSUME d PROVE Placed(((a + m) % Half) + b, b, n, w + m)
    OBVIOUS
  <2>1. Placed(a, b, n, w) /\ (a + m) % Half = (n + (w + m)) % Half
    BY <1>1, <1>3 DEF Stands
  <2>2. (n + (w + m)) % Half \in Int
    BY <1>1
  <2> QED
    BY <1>1, <2>1, <2>2 DEF Placed
<1> QED
  BY <1>1, <1>2, <1>4 DEF Stands

LEMMA InitPort == ASSUME V!Init PROVE PortInv
<1>1. Stands(0, 0, 0, 0, 0, FALSE)
  BY DEF Stands
<1> QED
  BY <1>1 DEF V!Init, PortInv

LEMMA PortStep ==
  ASSUME PortInv, [V!Next]_port
  PROVE  PortInv'
<1> USE DEF PortInv, V!port, V!ghosts
<1>1. ASSUME NEW a \in 0 .. 2 * Half - 1, V!WriteAddress(a)
      PROVE  PortInv'
  <2>1. vrammod \in Int /\ a \in Int
    BY StatesAssumption DEF Stands
  <2> QED
    BY <1>1, <2>1, AddressStands DEF V!WriteAddress
<1>2. ASSUME NEW m \in Steps, V!WriteStep(m)
      PROVE  PortInv'
  BY <1>2, StatesAssumption DEF V!WriteStep, Stands
<1>3. CASE V!Write
  BY <1>3, StepStands DEF V!Write, V!AfterWrite
<1>4. CASE V!Reset
  <2>1. Stands(0, vrambank, 0, 0, 0, FALSE)
    BY DEF Stands
  <2> QED
    BY <1>4, <2>1 DEF V!Reset
<1>5. CASE V!Save
  BY <1>5 DEF V!Save, V!Port
<1>6. CASE V!Load
  BY <1>6 DEF V!Load
<1>7. CASE UNCHANGED port
  BY <1>7 DEF port
<1> QED
  BY <1>1, <1>2, <1>3, <1>4, <1>5, <1>6, <1>7 DEF V!Next

-----------------------------------------------------------------------------
(* All four.                                                                  *)

StatesInv ==
  /\ SaveInv
  /\ SelectedTogether
  /\ PaletteInv
  /\ PortInv

(* A part that rests keeps what is said of it. *)
LEMMA PartsRest ==
  /\ SaveInv /\ UNCHANGED irqs => SaveInv'
  /\ SelectedTogether /\ UNCHANGED cartVars => SelectedTogether'
  /\ PaletteInv /\ UNCHANGED pal => PaletteInv'
  /\ PortInv /\ UNCHANGED port => PortInv'
<1>1. SaveInv /\ UNCHANGED irqs => SaveInv'
  BY SaveStep DEF irqs
<1>2. SelectedTogether /\ UNCHANGED cartVars => SelectedTogether'
  BY SelectedStep
<1>3. PaletteInv /\ UNCHANGED pal => PaletteInv'
  BY PaletteStep
<1>4. PortInv /\ UNCHANGED port => PortInv'
  BY PortStep
<1> QED
  BY <1>1, <1>2, <1>3, <1>4

LEMMA StatesStep ==
  ASSUME StatesInv, [NextStates]_statesVars
  PROVE  StatesInv'
<1> USE DEF StatesInv
<1>1. CASE SaveNext /\ UNCHANGED <<cartVars, pal, port>>
  BY <1>1, SaveStep, PartsRest
<1>2. CASE CartNext /\ UNCHANGED <<irqs, pal, port>>
  BY <1>2, SelectedStep, PartsRest
<1>3. CASE P!Next /\ UNCHANGED <<irqs, cartVars, port>>
  BY <1>3, PaletteStep, PartsRest
<1>4. CASE V!Next /\ UNCHANGED <<irqs, cartVars, pal>>
  BY <1>4, PortStep, PartsRest
<1>5. CASE UNCHANGED statesVars
  BY <1>5, PartsRest DEF statesVars
<1> QED
  BY <1>1, <1>2, <1>3, <1>4, <1>5 DEF NextStates

(* The four invariants hold together, whichever part is at work.              *)
THEOREM StatesInvariance == SpecStates => []StatesInv
<1>1. InitStates => StatesInv
  <2> SUFFICES ASSUME InitStates PROVE StatesInv
    OBVIOUS
  <2>1. SaveInv
    BY InitSaveInv DEF InitStates
  <2>2. SelectedTogether
    BY DEF InitStates, CartInit, SelectedTogether
  <2>3. PaletteInv /\ PortInv
    BY InitPalette, InitPort DEF InitStates
  <2> QED
    BY <2>1, <2>2, <2>3 DEF StatesInv
<1>2. StatesInv /\ [NextStates]_statesVars => StatesInv'
  BY StatesStep
<1> QED
  BY <1>1, <1>2, PTL DEF SpecStates

(* No colour of the picture is stale, whatever is written, by words or bytes, *)
(* to whatever bank, and whatever tables are in use when a state is loaded.   *)
THEOREM PaletteCorrect == SpecStates => []PaletteCurrent
<1>1. StatesInv => PaletteCurrent
  BY DEF StatesInv, PaletteInv
<1> QED
  BY <1>1, StatesInvariance, PTL

(* The port stands where the address written last and the steps since put it, *)
(* inside the half of that address, also after a state has been loaded.       *)
THEOREM WalkCorrect == SpecStates => []WalkWraps
<1>1. StatesInv => WalkWraps
  BY DEF StatesInv, PortInv, Stands, Placed, WalkWraps, V!WalkWraps
<1> QED
  BY <1>1, StatesInvariance, PTL

(* Where all four are in one machine, the parts of an interrupt agree and the *)
(* three copies of the choice of ROMs do.                                     *)
THEOREM TogetherCorrect == SpecStates => [](PartsAgree /\ SelectedTogether)
<1>1. StatesInv => PartsAgree /\ SelectedTogether
  BY DEF StatesInv, SaveInv, IInv, PartsAgree
<1> QED
  BY <1>1, StatesInvariance, PTL
=============================================================================

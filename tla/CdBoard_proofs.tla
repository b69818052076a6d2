--------------------------- MODULE CdBoard_proofs ---------------------------
(* The board of the CD system, proved for programs and uploads of every size  *)
(* and any number of resets: its registers keep their types, the Z80          *)
(* executes whole programs only, and the PCM memory is filled in order.       *)
EXTENDS CdBoard, TLAPS

LEMMA Sizes ==
  /\ ProgramBytes \in Nat /\ SectorWords \in Nat /\ DescSectors \in Nat
  /\ Sectors \in Nat /\ Window \in Nat /\ Window > 0
  /\ 2 * DescSectors * SectorWords \in Nat
<1>1. /\ SectorWords \in Nat /\ SectorWords > 0
      /\ WindowSectors \in Nat /\ WindowSectors > 0 /\ DescSectors \in Nat
      /\ ProgramBytes \in Nat /\ Sectors \in Nat
  BY SizeAssumption
<1>2. \A a, b \in Nat :
        a * b \in Nat /\ (a > 0 /\ b > 0 => a * b > 0)
  OBVIOUS
<1>3. 4 * SectorWords \in Nat /\ 4 * SectorWords > 0 /\ 2 * DescSectors \in Nat
  BY <1>1
<1> QED
  BY <1>1, <1>2, <1>3 DEF Window

(* Where the ROM is between choosing a program and having loaded it, and in   *)
(* the middle of a sector.                                                    *)
Uploading == {"mapZ80", "areaZ80", "load"}
InSector == {"stage", "program", "go", "advance"}

(* What keeps the Z80 off a torn program: its RAM is written only while the   *)
(* bus request flag is up, that flag is never up without the bus being taken, *)
(* and the bus is given back only to a program that is whole.                 *)
IInv ==
  /\ TypeOK
  /\ pc \in Uploading => version \in 1 .. 3
  /\ pc \in InSector => done < Sectors
  /\ "z80" \in busreq => bus
  /\ ~bus => Whole

Z80Steps == {"boot", "open", "greet", "main", "read", "answer"}

LEMMA AfterType == DOMAIN After = Z80Steps
BY DEF After, Z80Steps

LEMMA InitInv == Init => IInv
<1> SUFFICES ASSUME Init PROVE IInv
  OBVIOUS
<1>1. pc \notin Uploading /\ pc \notin InSector
  BY DEF Init, Start, Uploading, InSector
<1>2. TypeOK
  <2>1. z80pc \in DOMAIN After /\ z80ret \in DOMAIN After
    BY AfterType DEF Init, Z80Steps
  <2>2. dma \in [dst : Nat, len : Nat, enabled : BOOLEAN]
    BY DEF Init, NoDma
  <2>3. z80_ram \in [0 .. ProgramBytes - 1 -> 0 .. 3]
    BY Sizes DEF Init
  <2>4. /\ vectable \in BOOLEAN /\ pcm_bank \in {0, 1}
        /\ transarea \in {"spr", "pcm", "z80"}
        /\ busreq \subseteq {"pcm", "z80"}
        /\ z80_enabled \in BOOLEAN
    BY DEF Init
  <2>5. /\ biosLen \in Nat /\ staged \in {None} \cup 0 .. Sectors
        /\ lenLimit \in BOOLEAN
    BY DEF Init
  <2>6. /\ bus \in BOOLEAN /\ halted \in BOOLEAN
        /\ nmi_pending \in BOOLEAN /\ nmi_enabled \in BOOLEAN
    BY DEF Init
  <2>7. /\ version \in 0 .. 3 /\ offset \in Nat /\ bank \in Nat
        /\ done \in 0 .. Sectors
    BY Sizes DEF Init
  <2> QED
    BY <2>1, <2>2, <2>3, <2>4, <2>5, <2>6, <2>7 DEF TypeOK
<1> QED
  BY <1>1, <1>2 DEF Init, IInv

LEMMA VersionType ==
  ASSUME version \in 0 .. 3 PROVE NextVersion \in 1 .. 3
BY DEF NextVersion

(* A step that leaves the Z80's bus, its RAM and the bus request flags alone  *)
(* has only its types and the ROM's place to answer for.                      *)
LEMMA Aside ==
  ASSUME IInv, TypeOK', UNCHANGED <<bus, busreq, z80_ram>>,
         pc' \in Uploading => version' \in 1 .. 3,
         pc' \in InSector => done' < Sectors
  PROVE  IInv'
BY DEF IInv, Whole

(* The Z80's own steps. *)
LEMMA Z80Keeps ==
  ASSUME IInv, Z80Step \/ Z80Nop
  PROVE  IInv'
<1>1. TypeOK
  BY DEF IInv
<1>2. ASSUME NEW next \in DOMAIN After, TakeNmi(next)
      PROVE  /\ z80pc' \in DOMAIN After /\ z80ret' \in DOMAIN After
             /\ nmi_pending' \in BOOLEAN /\ halted' \in BOOLEAN
  BY <1>1, <1>2, AfterType DEF TakeNmi, TypeOK, Z80Steps
<1>3. After[z80pc] \in DOMAIN After /\ z80pc \in DOMAIN After
  BY <1>1, AfterType DEF TypeOK, After, Z80Steps
<1>4. /\ z80pc' \in DOMAIN After /\ z80ret' \in DOMAIN After
      /\ nmi_pending' \in BOOLEAN /\ halted' \in BOOLEAN
  BY <1>2, <1>3 DEF Z80Step, Z80Nop
<1>5. nmi_enabled' \in BOOLEAN
  BY <1>1 DEF Z80Step, NmiMask, Z80Nop, TypeOK
<1>6. UNCHANGED <<window, z80_enabled, engine, bus, memory, pc, rom>>
  BY DEF Z80Step, Z80Nop
<1>7. TypeOK'
  <2>1. (DOMAIN After)' = DOMAIN After
    BY AfterType DEF After, Z80Steps
  <2> QED
    BY <1>1, <1>4, <1>5, <1>6, <2>1 DEF TypeOK, window, engine, memory, rom
<1> QED
  BY <1>6, <1>7, Aside DEF IInv, window, memory, rom

(* The registers' own effects on the Z80's lines. *)
LEMMA Z80RstType ==
  ASSUME TypeOK, NEW on \in BOOLEAN, WriteZ80Rst(on)
  PROVE  /\ z80_enabled' \in BOOLEAN /\ halted' \in BOOLEAN
         /\ nmi_pending' \in BOOLEAN
         /\ z80pc' \in Z80Steps /\ z80ret' \in Z80Steps
BY AfterType DEF WriteZ80Rst, Z80Restart, TypeOK, Z80Steps

LEMMA SoundType ==
  ASSUME TypeOK, NEW c, WriteSound(c)
  PROVE  nmi_pending' \in BOOLEAN
BY DEF WriteSound, TypeOK

LEMMA AfterTypeNext == (DOMAIN After)' = Z80Steps
BY DEF After, Z80Steps

USE DEF At, Uploading, InSector

(* Loading a program. *)
LEMMA HoldKeeps ==
  ASSUME IInv, Hold
  PROVE  IInv'
<1>1. TypeOK
  BY DEF IInv
<1>2. /\ z80_enabled' \in BOOLEAN /\ halted' \in BOOLEAN
      /\ nmi_pending' \in BOOLEAN
      /\ z80pc' \in Z80Steps /\ z80ret' \in Z80Steps
  BY <1>1, Z80RstType DEF Hold
<1>3. version' \in 1 .. 3
  BY <1>1, VersionType DEF Hold, TypeOK
<1>4. TypeOK'
  BY <1>1, <1>2, <1>3, AfterTypeNext
     DEF Hold, TypeOK, window, engine, memory
<1> QED
  BY <1>3, <1>4, Aside DEF Hold, window, memory

LEMMA MapZ80Keeps ==
  ASSUME IInv, MapZ80
  PROVE  IInv'
<1>1. TypeOK
  BY DEF IInv
<1>2. bus' = TRUE /\ busreq' = busreq \cup {"z80"}
  BY DEF MapZ80, Map
<1>3. TypeOK'
  BY <1>1, <1>2, AfterType, AfterTypeNext
     DEF MapZ80, TypeOK, engine, memory, rom
<1> QED
  BY <1>2, <1>3 DEF IInv, MapZ80, rom

LEMMA AreaZ80Keeps ==
  ASSUME IInv, AreaZ80
  PROVE  IInv'
<1>1. TypeOK'
  BY AfterType, AfterTypeNext
     DEF IInv, AreaZ80, TypeOK, engine, z80, memory, rom
<1> QED
  BY <1>1, Aside DEF IInv, AreaZ80, z80, memory, rom

(* The RAM changes only behind the bus request. *)
LEMMA LoadKeeps ==
  ASSUME IInv, Load
  PROVE  IInv'
<1>1. TypeOK
  BY DEF IInv
<1>2. PICK i \in DOMAIN z80_ram : TransferZ80(i, version)
  BY DEF Load
<1>3. z80_ram' \in [0 .. ProgramBytes - 1 -> 0 .. 3]
  BY <1>1, <1>2 DEF TransferZ80, TypeOK
<1>4. UNCHANGED <<window, z80_enabled, engine, z80, pc, rom>>
  BY DEF Load
<1>5. TypeOK'
  BY <1>1, <1>3, <1>4, AfterType, AfterTypeNext
     DEF TypeOK, window, engine, z80, rom
<1>6. CASE "z80" \in busreq
  BY <1>4, <1>5, <1>6 DEF IInv, window, z80, rom
<1>7. CASE "z80" \notin busreq
  <2>1. z80_ram' = z80_ram
    BY <1>2, <1>7 DEF TransferZ80
  <2> QED
    BY <1>4, <1>5, <2>1, Aside DEF IInv, window, z80, rom
<1> QED
  BY <1>6, <1>7

(* The bus is given back to the program that has just been loaded. *)
LEMMA ReleaseKeeps ==
  ASSUME IInv, Release
  PROVE  IInv'
<1>1. /\ TypeOK /\ version \in 1 .. 3
      /\ \A i \in DOMAIN z80_ram : z80_ram[i] = version
  BY DEF IInv, Release
<1>2. bus' = FALSE /\ busreq' = busreq \ {"z80"} /\ pc' = "start"
  BY <1>1 DEF Release, Unmap, TypeOK
<1>3. z80_ram' = z80_ram
  BY DEF Release, memory
<1>4. Whole'
  BY <1>1, <1>3 DEF Whole
<1>5. TypeOK'
  BY <1>1, <1>2, AfterType, AfterTypeNext
     DEF Release, TypeOK, engine, memory, rom
<1> QED
  BY <1>2, <1>4, <1>5 DEF IInv

LEMMA StartZ80Keeps ==
  ASSUME IInv, StartZ80
  PROVE  IInv'
<1>1. TypeOK
  BY DEF IInv
<1>2. /\ z80_enabled' \in BOOLEAN /\ halted' \in BOOLEAN
      /\ nmi_pending' \in BOOLEAN
      /\ z80pc' \in Z80Steps /\ z80ret' \in Z80Steps
  BY <1>1, Z80RstType DEF StartZ80
<1>3. TypeOK'
  BY <1>1, <1>2, AfterTypeNext
     DEF StartZ80, TypeOK, window, engine, memory, rom
<1> QED
  BY <1>3, Aside DEF StartZ80, window, memory

(* Talking to it. *)
LEMMA TalkKeeps ==
  ASSUME IInv, Greeted \/ Send \/ Retry \/ Answer \/ Poll \/ Leave
  PROVE  IInv'
<1>1. TypeOK
  BY DEF IInv
<1>2. CASE Greeted
  <2>1. TypeOK'
    BY <1>1, <1>2, AfterType, AfterTypeNext
       DEF Greeted, TypeOK, engine, z80, memory, rom
  <2> QED
    BY <1>2, <2>1, Aside DEF Greeted, z80, memory
<1>3. CASE Send
  <2>1. nmi_pending' \in BOOLEAN
    BY <1>1, <1>3, SoundType DEF Send
  <2>2. TypeOK'
    BY <1>1, <1>3, <2>1, AfterType, AfterTypeNext
       DEF Send, TypeOK, window, engine, memory
  <2> QED
    BY <1>3, <2>2, Aside DEF Send, window, memory
<1>4. CASE Retry
  <2>1. nmi_pending' \in BOOLEAN
    BY <1>1, <1>4, SoundType DEF Retry
  <2>2. TypeOK'
    BY <1>1, <1>4, <2>1, AfterType, AfterTypeNext
       DEF Retry, TypeOK, window, engine, memory, rom
  <2> QED
    BY <1>4, <2>2, Aside DEF Retry, window, memory
<1>5. CASE Answer \/ Leave
  <2>1. /\ UNCHANGED <<window, z80_enabled, engine, z80, memory, rom>>
        /\ pc' \in {"game", "hold"}
    BY <1>5 DEF Answer, Leave
  <2>2. TypeOK'
    BY <1>1, <2>1, AfterType, AfterTypeNext
       DEF TypeOK, window, engine, z80, memory, rom
  <2> QED
    BY <2>1, <2>2, Aside DEF window, z80, memory
<1>6. CASE Poll
  <2>1. UNCHANGED vars
    BY <1>6 DEF Poll
  <2>2. TypeOK'
    BY <1>1, <2>1, AfterType, AfterTypeNext
       DEF vars, TypeOK, window, engine, z80, memory, rom
  <2> QED
    BY <2>1, <2>2, Aside DEF IInv, vars, window, z80, memory, rom
<1> QED
  BY <1>2, <1>3, <1>4, <1>5, <1>6

(* Filling the PCM memory. *)
LEMMA LimitType ==
  ASSUME TypeOK, NEW len \in Nat
  PROVE  Limit(len)[1] \in Nat /\ Limit(len)[2] \in Nat
BY Sizes DEF Limit, TypeOK

LEMMA ExecuteType ==
  ASSUME TypeOK, Execute
  PROVE  /\ dma' \in [dst : Nat, len : Nat, enabled : BOOLEAN]
         /\ biosLen' \in Nat /\ staged' \in {None} \cup 0 .. Sectors
<1>1. dma \in [dst : Nat, len : Nat, enabled : BOOLEAN] /\ dma.len \in Nat
  BY DEF TypeOK
<1>2. dma' \in [dst : Nat, len : Nat, enabled : BOOLEAN]
  BY <1>1 DEF Execute
<1>3. \/ UNCHANGED <<biosLen, staged>>
      \/ biosLen' = Limit(dma.len)[2] /\ staged' = None
  BY DEF Execute
<1> QED
  BY <1>1, <1>2, <1>3, LimitType DEF TypeOK

LEMMA AreaKeeps ==
  ASSUME IInv, AreaPcm \/ BankPcm \/ Stage \/ Program
  PROVE  IInv'
<1>1. TypeOK
  BY DEF IInv
<1>2. CASE AreaPcm
  <2>1. TypeOK'
    BY <1>1, <1>2, AfterType, AfterTypeNext
       DEF AreaPcm, TypeOK, engine, z80, memory, rom
  <2> QED
    BY <1>2, <2>1, Aside DEF AreaPcm, z80, memory
<1>3. CASE BankPcm
  <2>1. pcm_bank' \in {0, 1}
    BY <1>1, <1>3 DEF BankPcm, PcmBank, TypeOK
  <2>2. TypeOK'
    BY <1>1, <1>3, <2>1, AfterType, AfterTypeNext
       DEF BankPcm, TypeOK, engine, z80, memory, rom
  <2> QED
    BY <1>3, <2>2, Aside DEF BankPcm, z80, memory, rom
<1>4. CASE Stage
  <2>1. TypeOK'
    BY <1>1, <1>4, AfterType, AfterTypeNext
       DEF Stage, TypeOK, window, z80, memory, rom
  <2> QED
    BY <1>4, <2>1, Aside DEF IInv, Stage, window, z80, memory, rom
<1>5. CASE Program
  <2>1. dma' \in [dst : Nat, len : Nat, enabled : BOOLEAN]
    BY <1>1, <1>5 DEF Program, TypeOK
  <2>2. TypeOK'
    BY <1>1, <1>5, <2>1, AfterType, AfterTypeNext
       DEF Program, TypeOK, window, z80, memory, rom
  <2> QED
    BY <1>5, <2>2, Aside DEF IInv, Program, window, z80, memory, rom
<1> QED
  BY <1>2, <1>3, <1>4, <1>5

LEMMA MapPcmKeeps ==
  ASSUME IInv, MapPcm
  PROVE  IInv'
<1>1. TypeOK
  BY DEF IInv
<1>2. bus' = bus /\ busreq' = busreq \cup {"pcm"} /\ z80_ram' = z80_ram
  BY <1>1 DEF MapPcm, Map, memory, TypeOK
<1>3. version' \in 1 .. 3
  BY <1>1, VersionType DEF MapPcm, TypeOK
<1>4. /\ biosLen' \in Nat /\ done' \in 0 .. Sectors
      /\ offset' \in Nat /\ bank' \in Nat
  BY Sizes DEF MapPcm
<1>5. TypeOK'
  BY <1>1, <1>2, <1>3, <1>4, AfterType, AfterTypeNext DEF MapPcm, TypeOK
<1> QED
  BY <1>2, <1>3, <1>5 DEF IInv, MapPcm, Whole

LEMMA GoKeeps ==
  ASSUME IInv, Go
  PROVE  IInv'
<1>1. TypeOK
  BY DEF IInv
<1>2. /\ dma' \in [dst : Nat, len : Nat, enabled : BOOLEAN]
      /\ biosLen' \in Nat /\ staged' \in {None} \cup 0 .. Sectors
  BY <1>1, ExecuteType DEF Go
<1>3. TypeOK'
  BY <1>1, <1>2, AfterType, AfterTypeNext DEF Go, TypeOK, window, z80, rom
<1> QED
  BY <1>3, Aside DEF IInv, Go, window, z80, rom

LEMMA AdvanceKeeps ==
  ASSUME IInv, Advance
  PROVE  IInv'
<1>1. TypeOK /\ done < Sectors
  BY DEF IInv, Advance
<1>2. \A n \in Nat : n % Window \in Nat /\ n \div Window \in Nat
  BY Sizes
<1>3. offset' \in Nat /\ bank' \in Nat
  <2> DEFINE next == offset + 2 * biosLen
  <2>1. next \in Nat /\ bank \in Nat
    BY <1>1 DEF TypeOK
  <2>2. offset' = next % Window /\ bank' = bank + next \div Window
    BY DEF Advance
  <2> HIDE DEF next
  <2>3. next % Window \in Nat /\ next \div Window \in Nat
    BY <1>2, <2>1
  <2> QED
    BY <2>1, <2>2, <2>3
<1>4. done' \in 0 .. Sectors
  BY <1>1, Sizes DEF Advance, TypeOK
<1>5. dma' \in [dst : Nat, len : Nat, enabled : BOOLEAN]
  BY DEF Advance, NoDma
<1>6. TypeOK'
  BY <1>1, <1>3, <1>4, <1>5, AfterType, AfterTypeNext
     DEF Advance, TypeOK, window, z80, memory
<1> QED
  BY <1>6, Aside DEF IInv, Advance, window, z80, memory

LEMMA FilledKeeps ==
  ASSUME IInv, Filled
  PROVE  IInv'
<1>1. TypeOK
  BY DEF IInv
<1>2. bus' = bus /\ busreq' = busreq \ {"pcm"} /\ z80_ram' = z80_ram
  BY <1>1 DEF Filled, Unmap, memory, TypeOK
<1>3. TypeOK'
  BY <1>1, <1>2, AfterType, AfterTypeNext DEF Filled, TypeOK, engine, rom
<1> QED
  BY <1>2, <1>3 DEF IInv, Filled, Whole, rom

(* A reset puts the ROM at the start, with the bus as it was. *)
LEMMA ResetKeeps ==
  ASSUME IInv, Reset
  PROVE  IInv'
<1>1. TypeOK
  BY DEF IInv
<1>2. pc' \notin Uploading /\ pc' \notin InSector
  BY DEF Reset, Start
<1>3. /\ bus' = bus /\ busreq' = busreq \cap {"z80"}
      /\ UNCHANGED <<z80_ram, version, offset, bank, done, biosLen, lenLimit>>
  BY DEF Reset, BusAfterReset, memory, rom
<1>4. dma' \in [dst : Nat, len : Nat, enabled : BOOLEAN]
  BY DEF Reset, NoDma
<1>5. /\ z80pc' \in Z80Steps /\ z80ret' \in Z80Steps
      /\ halted' \in BOOLEAN /\ nmi_pending' \in BOOLEAN
  BY DEF Reset, Z80Restart, Z80Steps
<1>6. TypeOK'
  BY <1>1, <1>3, <1>4, <1>5, AfterTypeNext DEF Reset, TypeOK
<1> QED
  BY <1>2, <1>3, <1>6 DEF IInv, Whole

(* The board keeps the inductive invariant. *)
THEOREM Invariance == Spec => []IInv
<1>1. Init => IInv
  BY InitInv
<1>2. IInv /\ [Next]_vars => IInv'
  <2> SUFFICES ASSUME IInv, [Next]_vars PROVE IInv'
    OBVIOUS
  <2>1. CASE Sound
    BY <2>1, HoldKeeps, MapZ80Keeps, AreaZ80Keeps, LoadKeeps, ReleaseKeeps,
       StartZ80Keeps, TalkKeeps DEF Sound, Proceed
  <2>2. CASE Pcm
    BY <2>2, MapPcmKeeps, AreaKeeps, GoKeeps, AdvanceKeeps, FilledKeeps DEF Pcm
  <2>3. CASE Z80Step \/ Z80Nop
    BY <2>3, Z80Keeps
  <2>4. CASE Reset
    BY <2>4, ResetKeeps
  <2>5. CASE UNCHANGED vars
    <3>1. TypeOK'
      BY <2>5, AfterType, AfterTypeNext
         DEF IInv, vars, TypeOK, window, engine, z80, memory, rom
    <3> QED
      BY <2>5, <3>1, Aside DEF IInv, vars, window, z80, memory, rom
  <2> QED
    BY <2>1, <2>2, <2>3, <2>4, <2>5 DEF Next
<1> QED
  BY <1>1, <1>2, PTL DEF Spec

(* The window's registers, the DMA engine and the Z80's lines keep their      *)
(* types over resets in the middle of an upload.                              *)
THEOREM TypeCorrect == Spec => []TypeOK
<1>1. IInv => TypeOK
  BY DEF IInv
<1> QED
  BY <1>1, Invariance, PTL

(* The Z80 never executes a program that is half loaded, whatever its size    *)
(* and however often the machine is reset.                                    *)
THEOREM TornCorrect == Spec => []NeverTorn
<1>1. IInv => NeverTorn
  BY DEF IInv, NeverTorn, Executing
<1> QED
  BY <1>1, Invariance, PTL

-----------------------------------------------------------------------------
(* The upload of the PCM memory.  A sector fills a tile of it, and tiles fill *)
(* a bank.                                                                    *)

Tile == 2 * SectorWords

InOrder(n) ==
  \A k \in 0 .. n - 1, j \in 0 .. Tile - 1 :
    pcm_dram[Tile * k + j] = <<version, k, j>>

(* The ROM's count, as a bank and a place in it. *)
Counted ==
  \E s \in 0 .. WindowSectors - 1 :
    done = WindowSectors * bank + s /\ offset = 4 * SectorWords * s

(* The engine and the ROM go hand in hand: the place follows from the count,  *)
(* the length is a descriptor's or, once cut, a sector's, the engine has been *)
(* given the place and the sector that are due, and a sector is in the memory *)
(* before it is counted.                                                      *)
Filling ==
  /\ Counted
  /\ InOrder(done)
  /\ biosLen \in {2 * DescSectors * SectorWords, 2 * SectorWords}
  /\ pc \in InSector => pcm_bank = bank
  /\ pc \in {"program", "go"} => staged = done
  /\ pc = "go" => dma.dst = offset /\ dma.len = biosLen \div 2
  /\ pc = "advance" => biosLen = 2 * SectorWords /\ InOrder(done + 1)

UploadInv ==
  /\ DOMAIN pcm_dram = 0 .. 2 * BankBytes - 1
  /\ lenLimit /\ pc \in PcmSteps \ {"mapPcm"} => Filling

LEMMA DivMod ==
  ASSUME NEW B \in Nat \ {0}, NEW q \in {-1, 0, 1}, NEW r \in 0 .. B - 1,
         NEW a, a = q * B + r
  PROVE  a \div B = q /\ a % B = r
OBVIOUS

LEMMA DivModLow ==
  ASSUME NEW B \in Nat \ {0}, NEW r \in 0 .. B - 1
  PROVE  r \div B = 0 /\ r % B = r
OBVIOUS

LEMMA LessTimes ==
  ASSUME NEW a \in Nat \ {0}, NEW x \in Nat, NEW y \in Nat, x < y
  PROVE  a * x \in Nat /\ a * x < a * y
<1>1. PICK d \in Nat : y = x + 1 + d
  <2>1. y - x - 1 \in Nat
    OBVIOUS
  <2> QED
    BY <2>1
<1>2. a * (x + 1 + d) = a * x + a + a * d
  OBVIOUS
<1>3. a * d \in Nat /\ a * x \in Nat
  OBVIOUS
<1> QED
  BY <1>1, <1>2, <1>3

LEMMA TileFacts ==
  /\ Tile \in Nat \ {0} /\ SectorWords \in Nat \ {0}
  /\ BankBytes \in Nat \ {0} /\ BankBytes = Tile * WindowSectors
  /\ Window = 2 * BankBytes
<1>1. SectorWords \in Nat \ {0} /\ WindowSectors \in Nat \ {0}
  BY SizeAssumption
<1>2. Tile \in Nat \ {0}
  BY <1>1 DEF Tile
<1>3. Tile * WindowSectors \in Nat \ {0}
  BY <1>1, <1>2
<1>4. Window = 2 * (Tile * WindowSectors)
  <2>1. Window = (4 * SectorWords) * WindowSectors
    BY DEF Window
  <2>2. 4 * SectorWords = 2 * Tile
    BY <1>1 DEF Tile
  <2>3. (2 * Tile) * WindowSectors = 2 * (Tile * WindowSectors)
    BY <1>1, <1>2
  <2> QED
    BY <2>1, <2>2, <2>3
<1>5. BankBytes = Tile * WindowSectors
  <2> DEFINE n == Tile * WindowSectors
  <2>1. n \in Nat /\ Window = 2 * n
    BY <1>3, <1>4
  <2> HIDE DEF n
  <2>2. BankBytes = n
    BY <2>1 DEF BankBytes
  <2> QED
    BY <2>2 DEF n
<1> QED
  BY <1>1, <1>2, <1>3, <1>4, <1>5

(* A tile of a bank lies in it, below the tiles after it. *)
LEMMA TileFits ==
  ASSUME NEW s \in 0 .. WindowSectors - 1
  PROVE  Tile * s \in Nat /\ Tile * s + Tile <= BankBytes
<1>1. WindowSectors \in Nat /\ Tile \in Nat
  BY SizeAssumption, TileFacts
<1>2. PICK d \in Nat : WindowSectors = s + 1 + d
  <2>1. WindowSectors - s - 1 \in Nat
    BY <1>1
  <2> QED
    BY <2>1, <1>1
<1>3. Tile * d \in Nat /\ Tile * s \in Nat
  BY <1>1, <1>2
<1>4. Tile * (s + 1 + d) = Tile * s + Tile + Tile * d
  BY <1>1, <1>2
<1>5. BankBytes = Tile * s + Tile + Tile * d
  BY <1>2, <1>4, TileFacts
<1> QED
  BY <1>1, <1>3, <1>5

LEMMA TileBelow ==
  ASSUME NEW n \in Nat, NEW k \in 0 .. n - 1
  PROVE  Tile * k \in Nat /\ Tile * n \in Nat /\ Tile * k + Tile <= Tile * n
<1>1. Tile \in Nat
  BY TileFacts
<1>2. PICK d \in Nat : n = k + 1 + d
  <2>1. n - k - 1 \in Nat
    OBVIOUS
  <2> QED
    BY <2>1
<1>3. Tile * d \in Nat /\ Tile * k \in Nat
  BY <1>1, <1>2
<1>4. Tile * (k + 1 + d) = Tile * k + Tile + Tile * d
  BY <1>1, <1>2
<1>5. Tile * n = Tile * k + Tile + Tile * d
  BY <1>2, <1>4
<1> QED
  BY <1>1, <1>3, <1>5

(* Where the sector that is due belongs in the memory: in one of the banks,   *)
(* and there in a tile.                                                       *)
LEMMA DueTile ==
  ASSUME TypeOK, Counted, done < Sectors
  PROVE  \E s \in 0 .. WindowSectors - 1 :
           /\ done = WindowSectors * bank + s
           /\ offset = 4 * SectorWords * s
           /\ bank \in {0, 1}
           /\ offset \div 2 = Tile * s
           /\ Tile * done = bank * BankBytes + Tile * s
<1>1. PICK s \in 0 .. WindowSectors - 1 :
        done = WindowSectors * bank + s /\ offset = 4 * SectorWords * s
  BY DEF Counted
<1>2. /\ WindowSectors \in Nat \ {0} /\ Sectors \in 0 .. 2 * WindowSectors
      /\ bank \in Nat /\ done \in Nat /\ done < 2 * WindowSectors
  BY SizeAssumption DEF TypeOK
<1>3. bank \in {0, 1}
  <2> SUFFICES ASSUME bank >= 2 PROVE FALSE
    BY <1>2
  <2>1. WindowSectors * bank >= WindowSectors * 2
    BY <1>2
  <2> QED
    BY <1>1, <1>2, <2>1
<1>4. offset \div 2 = Tile * s
  <2>1. Tile * s \in Nat
    BY TileFits
  <2>2. offset = 2 * (Tile * s)
    BY <1>1, TileFacts DEF Tile
  <2> QED
    BY <2>1, <2>2
<1>5. Tile * done = bank * BankBytes + Tile * s
  BY <1>1, <1>2, <1>3, TileFacts
<1> QED
  BY <1>1, <1>3, <1>4, <1>5

(* The length is cut to a sector's, and the ROM's with it. *)
LEMMA LimitCuts ==
  ASSUME lenLimit, biosLen \in {2 * DescSectors * SectorWords, 2 * SectorWords}
  PROVE  /\ Limit(biosLen \div 2) = <<SectorWords, 2 * SectorWords>>
         /\ biosLen \div 2 # 0
<1>1. SectorWords \in Nat \ {0} /\ DescSectors \in Nat \ {0}
  BY SizeAssumption
<1>2. CASE biosLen = 2 * SectorWords
  BY <1>1, <1>2 DEF Limit
<1>3. CASE biosLen = 2 * DescSectors * SectorWords /\ DescSectors = 1
  BY <1>1, <1>3 DEF Limit
<1>4. CASE biosLen = 2 * DescSectors * SectorWords /\ DescSectors >= 2
  <2> DEFINE n == DescSectors * SectorWords
  <2>1. n \in Nat /\ biosLen = 2 * n
    BY <1>1, <1>4
  <2>2. n > SectorWords
    BY <1>1, <1>4
  <2> HIDE DEF n
  <2>3. biosLen \div 2 = n
    BY <2>1
  <2> QED
    BY <1>1, <2>1, <2>2, <2>3 DEF Limit
<1> QED
  BY <1>1, <1>2, <1>3, <1>4

(* Spreading the sector that is due over the memory fills its tile and leaves *)
(* the tiles before it, in this bank and in the other, as they were.          *)
LEMMA SpreadFills ==
  ASSUME TypeOK, Counted, done < Sectors, InOrder(done),
         DOMAIN pcm_dram = 0 .. 2 * BankBytes - 1,
         pcm_bank = bank, staged = done,
         pcm_dram' = Spread(offset, SectorWords),
         UNCHANGED <<version, done>>
  PROVE  InOrder(done + 1)' /\ InOrder(done)'
<1>1. PICK s \in 0 .. WindowSectors - 1 :
        /\ bank \in {0, 1}
        /\ offset \div 2 = Tile * s
        /\ Tile * done = bank * BankBytes + Tile * s
  BY DueTile
<1> DEFINE low == Tile * s
<1>2. low \in Nat /\ low + Tile <= BankBytes /\ BankBytes \in Nat \ {0}
      /\ Tile \in Nat \ {0} /\ done \in Nat /\ offset \in Nat
  BY TileFits, TileFacts DEF TypeOK
<1>3. offset \div 2 = low /\ Tile * done = bank * BankBytes + low
  BY <1>1
<1> HIDE DEF low
<1>4. PcmAddress(offset, 0) = Tile * done
  <2>1. low + 0 = 0 * BankBytes + low /\ low \in 0 .. BankBytes - 1
    BY <1>2
  <2>2. (low + 0) % BankBytes = low
    BY <1>2, <2>1, DivMod
  <2> QED
    BY <1>3, <2>2 DEF PcmAddress
<1>5. ASSUME NEW a \in 0 .. 2 * BankBytes - 1
      PROVE  pcm_dram'[a] =
               IF a \div BankBytes = bank
                  /\ (a - Tile * done) % BankBytes < Tile
               THEN <<version, done, (a - Tile * done) % BankBytes>>
               ELSE pcm_dram[a]
  <2>1. 2 * SectorWords = Tile
    BY DEF Tile
  <2> QED
    BY <1>4, <1>5, <2>1 DEF Spread
<1>6. ASSUME NEW j \in 0 .. Tile - 1
      PROVE  pcm_dram'[Tile * done + j] = <<version, done, j>>
  <2> DEFINE a == Tile * done + j
  <2>1. a = bank * BankBytes + (low + j) /\ low + j \in 0 .. BankBytes - 1
        /\ a - Tile * done = j
    BY <1>1, <1>2, <1>3
  <2>2. j = 0 * BankBytes + j /\ j \in 0 .. BankBytes - 1 /\ j < Tile
    BY <1>2
  <2> HIDE DEF a
  <2>3. a \div BankBytes = bank
    BY <1>1, <1>2, <2>1, DivMod
  <2>4. j % BankBytes = j
    BY <1>2, <2>2, DivMod
  <2>5. a \in 0 .. 2 * BankBytes - 1
    BY <1>1, <1>2, <2>1
  <2>6. pcm_dram'[a] = <<version, done, j>>
    BY <1>5, <2>1, <2>2, <2>3, <2>4, <2>5
  <2> QED
    BY <2>6 DEF a
<1>7. ASSUME NEW k \in 0 .. done - 1, NEW j \in 0 .. Tile - 1
      PROVE  pcm_dram'[Tile * k + j] = <<version, k, j>>
  <2> DEFINE a == Tile * k + j
             p == Tile * k
             q == Tile * done
  <2>1. p \in Nat /\ q \in Nat /\ p + Tile <= q
    BY <1>2, TileBelow
  <2>2. a = p + j
    OBVIOUS
  <2>3. q = bank * BankBytes + low
    BY <1>3
  <2>4. pcm_dram[a] = <<version, k, j>>
    BY DEF InOrder
  <2> HIDE DEF a, p, q
  <2>5. a \in 0 .. 2 * BankBytes - 1 /\ a < q
    BY <1>1, <1>2, <2>1, <2>2, <2>3
  <2>6. ASSUME a < bank * BankBytes PROVE pcm_dram'[a] = pcm_dram[a]
    <3>1. bank = 1 /\ a = 0 * BankBytes + a /\ a \in 0 .. BankBytes - 1
      BY <1>1, <1>2, <2>5, <2>6
    <3>2. a \div BankBytes = 0
      BY <1>2, <3>1, DivMod
    <3>3. ~(a \div BankBytes = bank)
      BY <3>1, <3>2
    <3> QED
      BY <1>5, <2>5, <3>3
  <2>7. ASSUME a >= bank * BankBytes PROVE pcm_dram'[a] = pcm_dram[a]
    <3> DEFINE r == BankBytes + a - q
    <3>1. a - q = -1 * BankBytes + r /\ r \in 0 .. BankBytes - 1
          /\ ~(r < Tile)
      BY <1>1, <1>2, <2>1, <2>2, <2>3, <2>5, <2>7
    <3> HIDE DEF r
    <3>2. (a - q) % BankBytes = r
      BY <1>2, <3>1, DivMod
    <3>3. ~((a - Tile * done) % BankBytes < Tile)
      BY <3>1, <3>2 DEF q
    <3> QED
      BY <1>5, <2>5, <3>3
  <2>8. pcm_dram'[a] = pcm_dram[a]
    BY <1>1, <1>2, <2>5, <2>6, <2>7
  <2> QED
    BY <2>4, <2>8 DEF a
<1>8. ASSUME NEW k \in 0 .. done, NEW j \in 0 .. Tile - 1
      PROVE  pcm_dram'[Tile * k + j] = <<version, k, j>>
  <2>1. CASE k = done
    BY <1>6, <2>1
  <2>2. CASE k # done
    <3>1. k \in 0 .. done - 1
      BY <1>2, <2>2
    <3> QED
      BY <1>7, <3>1
  <2> QED
    BY <2>1, <2>2
<1>9. 0 .. (done + 1) - 1 = 0 .. done /\ done' = done /\ version' = version
  BY <1>2
<1> QED
  BY <1>7, <1>8, <1>9 DEF InOrder, Tile

(* What the count and the memory say stands while neither changes. *)
LEMMA SameCount ==
  ASSUME UNCHANGED <<pcm_dram, rom>>
  PROVE  /\ Counted' <=> Counted
         /\ InOrder(done)' <=> InOrder(done)
         /\ InOrder(done + 1)' <=> InOrder(done + 1)
BY DEF Counted, InOrder, Tile, rom

LEMMA SameBank == BankBytes' = BankBytes
BY DEF BankBytes, Window

(* A step that leaves the upload alone. *)
LEMMA UploadAside ==
  ASSUME UploadInv,
         UNCHANGED <<pcm_dram, pcm_bank, dma, biosLen, staged, lenLimit, rom>>,
         pc' \notin PcmSteps \/ pc' = pc
  PROVE  UploadInv'
<1>1. pc' = pc /\ Filling => Filling'
  BY SameCount DEF Filling, rom
<1> QED
  BY <1>1, SameBank DEF UploadInv

LEMMA SoundUpload ==
  ASSUME UploadInv, Sound
  PROVE  UploadInv'
<1>1. UNCHANGED <<pcm_dram, pcm_bank, dma, biosLen, staged, lenLimit>>
      /\ pc' \notin PcmSteps
  BY DEF Sound, Proceed, Hold, MapZ80, AreaZ80, Load, Release, StartZ80,
         Greeted, Send, Retry, Answer, Poll, Leave, vars, window, engine,
         memory, PcmSteps
<1> QED
  BY <1>1 DEF UploadInv, BankBytes, Window

(* The upload begins with nothing counted. *)
LEMMA MapUpload ==
  ASSUME UploadInv, MapPcm
  PROVE  UploadInv'
<1>1. done' = 0 /\ offset' = 0 /\ bank' = 0 /\ pc' = "areaPcm"
      /\ biosLen' = 2 * DescSectors * SectorWords /\ pcm_dram' = pcm_dram
  BY DEF MapPcm, memory
<1>2. Counted'
  <2>1. 0 \in 0 .. WindowSectors - 1 /\ WindowSectors * 0 + 0 = 0
        /\ 4 * SectorWords * 0 = 0
    BY SizeAssumption
  <2> QED
    BY <1>1, <2>1 DEF Counted
<1>3. InOrder(done)'
  BY <1>1 DEF InOrder
<1>4. Filling'
  BY <1>1, <1>2, <1>3 DEF Filling
<1> QED
  BY <1>1, <1>4, SameBank DEF UploadInv

(* The sector that is due is chosen, decoded and given to the engine.         *)
LEMMA DueUpload ==
  ASSUME IInv, UploadInv, AreaPcm \/ BankPcm \/ Stage \/ Program
  PROVE  UploadInv'
<1>1. /\ pcm_dram' = pcm_dram /\ UNCHANGED rom /\ biosLen' = biosLen
      /\ lenLimit' = lenLimit
  BY DEF AreaPcm, BankPcm, Stage, Program, engine, memory
<1>2. pc \in PcmSteps \ {"mapPcm"}
  BY DEF AreaPcm, BankPcm, Stage, Program, PcmSteps
<1> SUFFICES ASSUME lenLimit PROVE Filling'
  BY <1>1, SameBank DEF UploadInv
<1>3. Filling
  BY <1>2 DEF UploadInv
<1>4. /\ Counted' /\ InOrder(done)'
      /\ biosLen' \in {2 * DescSectors * SectorWords, 2 * SectorWords}
      /\ done' = done /\ bank' = bank /\ offset' = offset
  BY <1>1, <1>3, SameCount DEF Filling, rom
<1>5. CASE AreaPcm
  BY <1>4, <1>5 DEF Filling, AreaPcm
<1>6. CASE BankPcm
  <2>1. bank \in {0, 1}
    BY <1>3, <1>6, DueTile DEF IInv, Filling, BankPcm
  <2>2. pcm_bank' = bank
    BY <1>6, <2>1 DEF BankPcm, PcmBank
  <2> QED
    BY <1>4, <1>6, <2>2 DEF Filling, BankPcm
<1>7. CASE Stage
  BY <1>3, <1>4, <1>7 DEF Filling, Stage, window
<1>8. CASE Program
  BY <1>1, <1>3, <1>4, <1>8 DEF Filling, Program, window
<1> QED
  BY <1>5, <1>6, <1>7, <1>8

(* The transfer: a whole sector, cut from the descriptor if need be. *)
LEMMA GoUpload ==
  ASSUME IInv, UploadInv, Go
  PROVE  UploadInv'
<1>1. /\ pc = "go" /\ pc' = "advance" /\ UNCHANGED <<rom, window, lenLimit>>
      /\ Execute
  BY DEF Go
<1>2. DOMAIN pcm_dram' = 0 .. 2 * BankBytes - 1
  <2>1. DOMAIN pcm_dram = 0 .. 2 * BankBytes - 1
    BY DEF UploadInv
  <2>2. pcm_dram' = pcm_dram \/ \E w : pcm_dram' = Spread(dma.dst, w)
    BY <1>1 DEF Execute
  <2> QED
    BY <2>1, <2>2 DEF Spread
<1> SUFFICES ASSUME lenLimit PROVE Filling'
  BY <1>1, <1>2, SameBank DEF UploadInv
<1>3. Filling /\ TypeOK /\ done < Sectors /\ done \in Nat
  BY <1>1 DEF UploadInv, IInv, PcmSteps, TypeOK
<1>4. /\ staged = done /\ dma.dst = offset /\ dma.len = biosLen \div 2
      /\ pcm_bank = bank
  BY <1>1, <1>3 DEF Filling
<1>5. /\ Limit(dma.len)[1] = SectorWords
      /\ Limit(dma.len)[2] = 2 * SectorWords
      /\ dma.len # 0
  BY <1>3, <1>4, LimitCuts DEF Filling
<1>6. staged # None
  BY <1>3, <1>4, SizeAssumption
<1>7. /\ biosLen' = 2 * SectorWords
      /\ pcm_dram' = Spread(offset, SectorWords)
  <2>1. ~(SectorWords > SectorWords)
    BY SizeAssumption
  <2> QED
    BY <1>1, <1>4, <1>5, <1>6, <2>1 DEF Execute
<1>8. InOrder(done + 1)' /\ InOrder(done)'
  BY <1>1, <1>3, <1>4, <1>7, SpreadFills DEF Filling, UploadInv, rom
<1>9. Counted' /\ pcm_bank' = bank'
  BY <1>1, <1>3, <1>4 DEF Filling, Counted, rom, window
<1> QED
  BY <1>1, <1>7, <1>8, <1>9 DEF Filling

(* The count goes on by the sector that is in the memory, at the end of a     *)
(* bank to the next.                                                          *)
LEMMA AdvanceUpload ==
  ASSUME IInv, UploadInv, Advance
  PROVE  UploadInv'
<1>1. /\ pc = "advance" /\ pc' = "bankPcm" /\ done' = done + 1
      /\ biosLen' = biosLen /\ pcm_dram' = pcm_dram /\ lenLimit' = lenLimit
      /\ version' = version
  BY DEF Advance, memory
<1> SUFFICES ASSUME lenLimit PROVE Filling'
  BY <1>1, SameBank DEF UploadInv
<1>2. Filling /\ TypeOK
  BY <1>1 DEF UploadInv, IInv, PcmSteps
<1>3. biosLen = 2 * SectorWords /\ InOrder(done + 1)
  BY <1>1, <1>2 DEF Filling
<1>4. InOrder(done)'
  BY <1>1, <1>3 DEF InOrder, Tile
<1>5. Counted'
  <2>1. PICK s \in 0 .. WindowSectors - 1 :
          done = WindowSectors * bank + s /\ offset = 4 * SectorWords * s
    BY <1>2 DEF Filling, Counted
  <2> DEFINE next == offset + 2 * biosLen
  <2>2. offset' = next % Window /\ bank' = bank + next \div Window
    BY DEF Advance
  <2>3. /\ SectorWords \in Nat \ {0} /\ WindowSectors \in Nat \ {0}
        /\ bank \in Nat /\ s \in Nat
    BY SizeAssumption, <1>2 DEF TypeOK
  <2>4. /\ next = 4 * SectorWords * (s + 1)
        /\ Window = 4 * SectorWords * WindowSectors
    BY <1>3, <2>1, <2>3 DEF Window
  <2> HIDE DEF next
  <2>5. CASE s + 1 < WindowSectors
    <3>1. s + 1 \in 0 .. WindowSectors - 1
      BY <2>3, <2>5
    <3>2. Window \in Nat \ {0} /\ next \in 0 .. Window - 1
      <4>1. 4 * SectorWords \in Nat \ {0} /\ s + 1 \in Nat
        BY <2>3
      <4>2. /\ 4 * SectorWords * (s + 1) \in Nat
            /\ 4 * SectorWords * (s + 1) < 4 * SectorWords * WindowSectors
        BY <2>3, <2>5, <4>1, LessTimes
      <4>3. next \in Nat /\ next < Window
        BY <2>4, <4>2
      <4> QED
        BY <4>3, Sizes
    <3>3. next \div Window = 0 /\ next % Window = next
      BY <3>2, DivModLow
    <3>4. bank' = bank /\ offset' = 4 * SectorWords * (s + 1)
      BY <2>2, <2>3, <2>4, <3>3
    <3>5. done' = WindowSectors * bank' + (s + 1)
      BY <1>1, <2>1, <2>3, <3>4
    <3> QED
      BY <3>1, <3>4, <3>5 DEF Counted
  <2>6. CASE s + 1 = WindowSectors
    <3>1. next = 1 * Window + 0 /\ Window \in Nat \ {0} /\ 0 \in 0 .. Window - 1
      BY <2>3, <2>4, <2>6, Sizes
    <3>2. next \div Window = 1 /\ next % Window = 0
      BY <3>1, DivMod
    <3>3. bank' = bank + 1 /\ offset' = 0
      BY <2>2, <3>2
    <3>4. done' = WindowSectors * bank' + 0 /\ offset' = 4 * SectorWords * 0
      BY <1>1, <2>1, <2>3, <2>6, <3>3
    <3>5. 0 \in 0 .. WindowSectors - 1
      BY <2>3
    <3> QED
      BY <3>4, <3>5 DEF Counted
  <2> QED
    BY <2>3, <2>5, <2>6
<1> QED
  BY <1>1, <1>3, <1>4, <1>5 DEF Filling

LEMMA UploadStep ==
  ASSUME IInv, UploadInv, [Next]_vars
  PROVE  UploadInv'
<1>1. CASE Sound
  BY <1>1, SoundUpload
<1>2. CASE Pcm
  <2>1. ASSUME Filled PROVE UploadInv'
    BY <2>1, SameBank DEF Filled, UploadInv, memory
  <2> QED
    BY <1>2, <2>1, MapUpload, DueUpload, GoUpload, AdvanceUpload DEF Pcm
<1>3. CASE Z80Step \/ Z80Nop
  BY <1>3, UploadAside DEF Z80Step, Z80Nop, window, engine, memory
<1>4. CASE Reset
  <2>1. pcm_dram' = pcm_dram /\ pc' \notin PcmSteps \ {"mapPcm"}
    BY <1>4 DEF Reset, memory, Start, PcmSteps
  <2> QED
    BY <2>1, SameBank DEF UploadInv
<1>5. CASE UNCHANGED vars
  BY <1>5, UploadAside DEF vars, window, engine, memory
<1> QED
  BY <1>1, <1>2, <1>3, <1>4, <1>5 DEF Next

(* The engine and the ROM stay hand in hand over every step. *)
THEOREM UploadInvariance == Spec => [](IInv /\ UploadInv)
<1>1. Init => UploadInv
  <2>1. Init => pc \notin PcmSteps \ {"mapPcm"}
    BY DEF Init, Start, PcmSteps
  <2> QED
    BY <2>1 DEF Init, UploadInv
<1>2. IInv /\ UploadInv /\ [Next]_vars => UploadInv'
  BY UploadStep
<1> QED
  BY <1>1, <1>2, Invariance, PTL DEF Spec

(* With the length limit the memory is filled without a hole and in order,    *)
(* sector by sector over the end of a bank, for sectors, descriptors, windows *)
(* and uploads of every size, resets in the middle included.                  *)
THEOREM UploadCorrect == Spec => []UploadInOrder
<1>1. UploadInv => UploadInOrder
  BY DEF UploadInv, Filling, InOrder, UploadInOrder, Tile
<1> QED
  BY <1>1, UploadInvariance, PTL
=============================================================================

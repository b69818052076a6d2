------------------------------- MODULE CdBoard -------------------------------
(* The board of the CD system around the 68K: the upload window with its bus  *)
(* requests and DMA (geo_cd.c), the Z80's reset, bus and NMI lines and the    *)
(* two latches between the processors (geo_z80.c), and what a reset of the    *)
(* machine leaves of them.  The 68K runs a system ROM that either loads the   *)
(* Z80's program and then talks to it, or fills the PCM memory from the disc. *)
EXTENDS Integers, FiniteSets, Functions

CONSTANTS
  Commands,        \* sound commands, none of them 0
  Ready,           \* what the Z80's program answers when it starts
  ProgramBytes,    \* size of the Z80's program
  SectorWords,     \* DMA_CDBUF_MAX_WORDS, the words of a sector
  WindowSectors,   \* sectors that fill the upload window (a PCM bank)
  DescSectors,     \* sectors that a PCM descriptor asks for at once
  Sectors,         \* sectors of the upload, over both banks
  Routines,        \* routines of the system ROM: "sound", "pcm"
  None,
  MaxResets        \* bound: watchdog and frontend resets

ASSUME SizeAssumption ==
  /\ ProgramBytes \in Nat \ {0} /\ SectorWords \in Nat \ {0}
  /\ WindowSectors \in Nat \ {0} /\ DescSectors \in Nat \ {0}
  /\ Sectors \in 0 .. 2 * WindowSectors
  /\ 0 \notin Commands /\ Ready \notin Commands \cup {0}
  /\ None \notin Nat

Window == 4 * SectorWords * WindowSectors    \* bytes of the window
BankBytes == Window \div 2

VARIABLES
  vectable,                    \* TRUE: the vectors are in Program RAM
  transarea, pcm_bank,
  busreq,                      \* areas whose bus the 68K has requested
  z80_enabled,                 \* REG_Z80RST
  dma, biosLen, staged,        \* engine; descriptor length in RAM; LC8951
  lenLimit                     \* the option dma_len_limit

VARIABLES
  bus, halted, nmi_pending, nmi_enabled,     \* the Z80's lines
  sound_code, sound_reply,
  z80pc, z80ret                              \* its program, as below

VARIABLES z80_ram, pcm_dram

(* The 68K's program, with its variables; ghosts.                            *)
VARIABLES pc, version, cmd, offset, bank, done,
          resets, resetFrom

window == <<vectable, transarea, pcm_bank, busreq>>
engine == <<dma, biosLen, staged, lenLimit>>
z80 == <<bus, halted, nmi_pending, nmi_enabled, z80pc, z80ret>>
latches == <<sound_code, sound_reply>>
memory == <<z80_ram, pcm_dram>>
rom == <<version, cmd, offset, bank, done>>
ghosts == <<resets, resetFrom>>
vars == <<window, z80_enabled, engine, z80, latches, memory, pc, rom, ghosts>>

NoDma == [dst |-> 0, len |-> 0, enabled |-> FALSE]

(* The first step of each routine. *)
Start(routine) == IF routine = "sound" THEN "hold" ELSE "mapPcm"

(* geo_init, geo_cd_init and geo_z80_set_cd_mode: the Z80 is off the bus.     *)
Init ==
  /\ vectable = FALSE /\ transarea = "spr" /\ pcm_bank = 0 /\ busreq = {}
  /\ z80_enabled = FALSE
  /\ dma = NoDma /\ biosLen = 0 /\ staged = None /\ lenLimit \in BOOLEAN
  /\ bus = TRUE /\ halted = FALSE /\ nmi_pending = FALSE
  /\ nmi_enabled = FALSE
  /\ sound_code = 0 /\ sound_reply = 0
  /\ z80pc = "boot" /\ z80ret = "boot"
  /\ z80_ram = [i \in 0 .. ProgramBytes - 1 |-> 0]
  /\ pcm_dram = [i \in 0 .. 2 * BankBytes - 1 |-> None]
  /\ \E r \in Routines : pc = Start(r)
  /\ version = 0 /\ cmd = 0 /\ offset = 0 /\ bank = 0 /\ done = 0
  /\ resets = 0 /\ resetFrom = "bios"

-----------------------------------------------------------------------------
(* The Z80. *)

(* z80_reset. *)
Z80Restart ==
  /\ halted' = FALSE /\ nmi_pending' = FALSE
  /\ z80pc' = "boot" /\ z80ret' = "boot"

(* The Z80's program, as the system ROM's sound driver is used: it masks NMIs  *)
(* while it starts, opens them and answers that it is ready; its NMI handler   *)
(* reads the command and answers it.                                           *)
After ==
  [boot |-> "open", open |-> "greet", greet |-> "main", main |-> "main",
   read |-> "answer", answer |-> z80ret]

(* process_interrupts, after each instruction: a pending NMI is taken and     *)
(* wakes a Z80 that has halted.                                               *)
TakeNmi(next) ==
  IF nmi_pending
  THEN /\ nmi_pending' = FALSE /\ halted' = FALSE
       /\ z80pc' = "read" /\ z80ret' = next
  ELSE z80pc' = next /\ UNCHANGED <<nmi_pending, halted, z80ret>>

(* Ports 0x18 and 0x08; a reset by REG_Z80RST leaves the mask as it was.       *)
NmiMask ==
  CASE z80pc = "boot" -> FALSE
    [] z80pc = "open" -> TRUE
    [] OTHER -> nmi_enabled

(* geo_z80_run, with the bus and not halted. *)
Executing == ~bus /\ ~halted

Z80Step ==
  /\ Executing
  /\ nmi_enabled' = NmiMask
  /\ sound_reply' = CASE z80pc = "greet" -> Ready
                      [] z80pc = "answer" -> sound_code
                      [] OTHER -> sound_reply
  /\ TakeNmi(After[z80pc])
  /\ UNCHANGED <<window, z80_enabled, engine, bus, sound_code, memory, pc,
                 rom, ghosts>>

(* Halted, it executes NOPs until an interrupt. *)
Z80Nop ==
  /\ ~bus /\ halted /\ nmi_pending
  /\ TakeNmi(z80pc)
  /\ UNCHANGED <<window, z80_enabled, engine, bus, nmi_enabled, latches,
                 memory, pc, rom, ghosts>>

-----------------------------------------------------------------------------
(* Writes to registers. *)

(* REG_Z80RST: 0 halts the Z80, anything else resets it. *)
WriteZ80Rst(on) ==
  /\ z80_enabled' = on
  /\ IF on THEN Z80Restart
     ELSE halted' = TRUE /\ UNCHANGED <<nmi_pending, z80pc, z80ret>>

(* REG_UPMAP* and REG_UPUNMAP*; the Z80's takes it off its bus. *)
Map(a) ==
  /\ busreq' = busreq \cup {a}
  /\ bus' = (bus \/ a = "z80")

(* REG_PCMBANK. *)
PcmBank(value) == value % 2

\* Slip: the mapping is undone but the Z80 is left off its bus.
UnmapOnly(a) == busreq' = busreq \ {a} /\ UNCHANGED bus

Unmap(a) ==
  /\ busreq' = busreq \ {a}
  /\ bus' = (bus /\ a # "z80")

\* Slip: writing the value that is in the latch already is not a command.
WriteSoundChanged(c) ==
  /\ sound_code' = c
  /\ nmi_pending' =
       (nmi_pending \/ (z80_enabled /\ nmi_enabled /\ c # sound_code))

(* REG_SOUND: the command is latched, and the NMI is a pulse, which is lost    *)
(* when it is masked.                                                          *)
WriteSound(c) ==
  /\ sound_code' = c
  /\ nmi_pending' = (nmi_pending \/ (z80_enabled /\ nmi_enabled))

(* transfer_write_16 to the Z80's area. *)
TransferZ80(i, value) ==
  z80_ram' = IF transarea = "z80" /\ "z80" \in busreq
             THEN [z80_ram EXCEPT ![i] = value] ELSE z80_ram

-----------------------------------------------------------------------------
(* The system ROM loads the Z80's program byte by byte, and then sends it     *)
(* commands, one after the other, waiting for each answer.                    *)

At(from, to) == pc = from /\ pc' = to

(* Enough versions to tell what is uploaded from what was there before. *)
NextVersion == 1 + (version % 3)

Hold ==
  /\ At("hold", "mapZ80")
  /\ WriteZ80Rst(FALSE)
  /\ version' = NextVersion
  /\ UNCHANGED <<window, engine, bus, nmi_enabled, latches, memory, cmd,
                 offset, bank, done, ghosts>>

MapZ80 ==
  /\ At("mapZ80", "areaZ80")
  /\ Map("z80")
  /\ UNCHANGED <<vectable, transarea, pcm_bank, z80_enabled, engine, halted,
                 nmi_pending, nmi_enabled, z80pc, z80ret, latches, memory,
                 rom, ghosts>>

AreaZ80 ==
  /\ At("areaZ80", "load")
  /\ transarea' = "z80"
  /\ UNCHANGED <<vectable, pcm_bank, busreq, z80_enabled, engine, z80,
                 latches, memory, rom, ghosts>>

Load ==
  /\ pc = "load"
  /\ \E i \in DOMAIN z80_ram :
       /\ z80_ram[i] # version
       /\ \A j \in 0 .. i - 1 : z80_ram[j] = version
       /\ TransferZ80(i, version)
  /\ UNCHANGED <<window, z80_enabled, engine, z80, latches, pcm_dram, pc, rom,
                 ghosts>>

Release ==
  /\ At("load", "start")
  /\ \A i \in DOMAIN z80_ram : z80_ram[i] = version
  /\ Unmap("z80")
  /\ UNCHANGED <<vectable, transarea, pcm_bank, z80_enabled, engine, halted,
                 nmi_pending, nmi_enabled, z80pc, z80ret, latches, memory,
                 rom, ghosts>>

StartZ80 ==
  /\ At("start", "await")
  /\ WriteZ80Rst(TRUE)
  /\ UNCHANGED <<window, engine, bus, nmi_enabled, latches, memory, rom,
                 ghosts>>

Greeted ==
  /\ At("await", "game")
  /\ sound_reply = Ready
  /\ vectable' = TRUE
  /\ UNCHANGED <<transarea, pcm_bank, busreq, z80_enabled, engine, z80,
                 latches, memory, rom, ghosts>>

Send ==
  /\ At("game", "wait")
  /\ \E c \in Commands : c # sound_reply /\ cmd' = c /\ WriteSound(c)
  /\ UNCHANGED <<window, z80_enabled, engine, bus, halted, nmi_enabled, z80pc,
                 z80ret, sound_reply, memory, version, offset, bank, done,
                 ghosts>>

(* A command that has not been answered for long is sent again. *)
Retry ==
  /\ At("wait", "wait")
  /\ sound_reply # cmd
  /\ z80pc = "main" /\ ~nmi_pending
  /\ WriteSound(cmd)
  /\ UNCHANGED <<window, z80_enabled, engine, bus, halted, nmi_enabled, z80pc,
                 z80ret, sound_reply, memory, rom, ghosts>>

Answer ==
  /\ At("wait", "game")
  /\ sound_reply = cmd
  /\ UNCHANGED <<window, z80_enabled, engine, z80, latches, memory, rom,
                 ghosts>>

(* It polls REG_SOUND until the answer is there. *)
Poll ==
  /\ \/ pc = "await" /\ sound_reply # Ready
     \/ pc = "wait" /\ sound_reply # cmd
  /\ UNCHANGED vars

(* The title loads another sound program, and may not wait for an answer.    *)
Leave ==
  /\ At("game", "hold") \/ At("wait", "hold")
  /\ UNCHANGED <<window, z80_enabled, engine, z80, latches, memory, rom,
                 ghosts>>

(* What the ROM does in any case; a command and giving up are its choice.      *)
Proceed == \/ Hold \/ MapZ80 \/ AreaZ80 \/ Load \/ Release \/ StartZ80
           \/ Greeted \/ Retry \/ Answer

Sound == Proceed \/ Send \/ Poll \/ Leave

-----------------------------------------------------------------------------
(* The DMA engine, in the mode that spreads the words of a sector over an     *)
(* 8-bit memory (0xfc2d).                                                     *)

\* Slip: the transfer is cut to a sector, but the ROM is not told.
LimitSilent(len) ==
  <<IF lenLimit /\ len > SectorWords /\ biosLen = 2 * len
    THEN SectorWords ELSE len, biosLen>>

(* cd_dma_limit_len: the words to move, and the ROM's length variable, which  *)
(* is cut with them when it is where it is expected.                          *)
Limit(len) ==
  IF lenLimit /\ len > SectorWords /\ biosLen = 2 * len
  THEN <<SectorWords, 2 * SectorWords>>
  ELSE <<len, biosLen>>

(* The DRAM address of the j-th word written from dst on: half of the window *)
(* address, within the bank.                                                  *)
PcmAddress(dst, j) == pcm_bank * BankBytes + (((dst \div 2) + j) % BankBytes)

(* Each word of the sector goes out twice, for its high and for its low byte. *)
Spread(dst, words) ==
  [a \in DOMAIN pcm_dram |->
     LET j == (a - PcmAddress(dst, 0)) % BankBytes IN
     IF a \div BankBytes = pcm_bank /\ j < 2 * words
     THEN <<version, staged, j>> ELSE pcm_dram[a]]

(* cd_dma_execute.  Without a length the engine stays busy; without a sector  *)
(* (DTRG not written) or an area that is mapped it ends with nothing done.    *)
Execute ==
  IF dma.len = 0
  THEN dma' = [dma EXCEPT !.enabled = TRUE]
       /\ UNCHANGED <<biosLen, staged, pcm_dram>>
  ELSE /\ dma' = [dma EXCEPT !.enabled = FALSE]
       /\ IF staged = None THEN UNCHANGED <<biosLen, staged, pcm_dram>>
          ELSE /\ biosLen' = Limit(dma.len)[2]
               /\ staged' = None
               /\ pcm_dram' =
                    Spread(dma.dst, IF Limit(dma.len)[1] > SectorWords
                                    THEN SectorWords ELSE Limit(dma.len)[1])

(* The system ROM fills the PCM memory, sector by sector: it programs as many *)
(* words as its length variable says, and goes on by as many.                 *)

MapPcm ==
  /\ At("mapPcm", "areaPcm")
  /\ Map("pcm")
  /\ version' = NextVersion
  /\ offset' = 0 /\ bank' = 0 /\ done' = 0
  /\ biosLen' = 2 * DescSectors * SectorWords
  /\ UNCHANGED <<vectable, transarea, pcm_bank, z80_enabled, dma, staged,
                 lenLimit, halted, nmi_pending, nmi_enabled, z80pc, z80ret,
                 latches, memory, cmd, ghosts>>

AreaPcm ==
  /\ At("areaPcm", "bankPcm")
  /\ transarea' = "pcm"
  /\ UNCHANGED <<vectable, pcm_bank, busreq, z80_enabled, engine, z80, latches,
                 memory, rom, ghosts>>

BankPcm ==
  /\ At("bankPcm", "stage")
  /\ done < Sectors
  /\ pcm_bank' = PcmBank(bank)
  /\ UNCHANGED <<vectable, transarea, busreq, z80_enabled, engine, z80, latches,
                 memory, rom, ghosts>>

(* The next sector is decoded and the LC8951 ready to send it.                *)
Stage ==
  /\ At("stage", "program")
  /\ staged' = done
  /\ UNCHANGED <<window, z80_enabled, dma, biosLen, lenLimit, z80, latches,
                 memory, rom, ghosts>>

Program ==
  /\ At("program", "go")
  /\ dma' = [dst |-> offset, len |-> biosLen \div 2, enabled |-> FALSE]
  /\ UNCHANGED <<window, z80_enabled, biosLen, staged, lenLimit, z80, latches,
                 memory, rom, ghosts>>

Go ==
  /\ At("go", "advance")
  /\ Execute
  /\ UNCHANGED <<window, z80_enabled, lenLimit, z80, latches, z80_ram, rom,
                 ghosts>>

(* REG_DMASTART = 0 clears the engine. *)
Advance ==
  /\ At("advance", "bankPcm")
  /\ ~dma.enabled
  /\ dma' = NoDma
  /\ LET next == offset + 2 * biosLen
     IN offset' = next % Window /\ bank' = bank + next \div Window
  /\ done' = done + 1
  /\ UNCHANGED <<window, z80_enabled, biosLen, staged, lenLimit, z80, latches,
                 memory, version, cmd, ghosts>>

Filled ==
  /\ At("bankPcm", "mapPcm")
  /\ done = Sectors
  /\ Unmap("pcm")
  /\ vectable' = TRUE
  /\ UNCHANGED <<transarea, pcm_bank, z80_enabled, engine, halted,
                 nmi_pending, nmi_enabled, z80pc, z80ret, latches, memory,
                 rom, ghosts>>

Pcm == \/ MapPcm \/ AreaPcm \/ BankPcm \/ Stage \/ Program \/ Go \/ Advance
       \/ Filled

PcmSteps ==
  {"mapPcm", "areaPcm", "bankPcm", "stage", "program", "go", "advance"}

-----------------------------------------------------------------------------
\* Slip: the Z80's bus is given back too.
BusReleased == FALSE

(* Whether the Z80 is off its bus after a reset: as before, since geo_cd_reset *)
(* leaves both its flag and the bus request alone.                             *)
BusAfterReset == bus

(* geo_reset, by the watchdog or by the user.  The 68K fetches its stack      *)
(* pointer and its program counter before geo_cd_reset switches the vectors;  *)
(* both tables are taken to start the system ROM.                             *)
Reset ==
  /\ resets < MaxResets
  /\ resets' = resets + 1
  /\ resetFrom' = IF vectable THEN "ram" ELSE "bios"
  /\ sound_code' = 0 /\ sound_reply' = 0
  /\ Z80Restart /\ nmi_enabled' = FALSE
  /\ bus' = BusAfterReset
  /\ vectable' = FALSE /\ transarea' = "spr" /\ pcm_bank' = 0
  /\ busreq' = busreq \cap {"z80"}
  /\ z80_enabled' = FALSE
  /\ dma' = NoDma /\ staged' = None
  /\ pc' = IF pc \in PcmSteps THEN Start("pcm") ELSE Start("sound")
  /\ UNCHANGED <<biosLen, lenLimit, memory, rom>>

Next == Sound \/ Pcm \/ Z80Step \/ Z80Nop \/ Reset

(* geo_exec runs the 68K and lets the Z80 catch up (Scheduler).  Nothing makes *)
(* the title send a command, give up one that is not answered, or reset.       *)
Spec ==
  /\ Init /\ [][Next]_vars
  /\ WF_vars(Proceed) /\ WF_vars(Z80Step) /\ WF_vars(Z80Nop)
-----------------------------------------------------------------------------
(* Properties. *)

(* The type invariant. *)
TypeOK ==
  /\ vectable \in BOOLEAN /\ pcm_bank \in {0, 1}
  /\ transarea \in {"spr", "pcm", "z80"} /\ busreq \subseteq {"pcm", "z80"}
  /\ z80_enabled \in BOOLEAN
  /\ dma \in [dst : Nat, len : Nat, enabled : BOOLEAN]
  /\ biosLen \in Nat /\ staged \in {None} \cup 0 .. Sectors
  /\ lenLimit \in BOOLEAN
  /\ bus \in BOOLEAN /\ halted \in BOOLEAN
  /\ nmi_pending \in BOOLEAN /\ nmi_enabled \in BOOLEAN
  /\ z80pc \in DOMAIN After /\ z80ret \in DOMAIN After
  /\ z80_ram \in [0 .. ProgramBytes - 1 -> 0 .. 3]
  /\ version \in 0 .. 3 /\ offset \in Nat /\ bank \in Nat
  /\ done \in 0 .. Sectors

(* The Z80 never executes a program that is being replaced, or no program,    *)
(* though a reset in the middle of an upload takes it out of reset and a      *)
(* pending NMI wakes it while it is held: what keeps it off is its bus, which *)
(* no reset gives back before the ROM has uploaded the program again.         *)
Whole == \E v \in 1 .. 3 : \A i \in DOMAIN z80_ram : z80_ram[i] = v
NeverTorn == Executing => Whole

(* The Z80's program is loaded, starts and greets the ROM.  Every command is   *)
(* answered, unless the title gives it up or the machine is reset: also one    *)
(* that meets a Z80 that is still starting, because the latch held the         *)
(* greeting of an earlier program, and whose NMI is lost to the mask or whose  *)
(* answer is overwritten by the new greeting.  Since nobody has to give up, a  *)
(* command that is never answered would leave the ROM waiting for ever.        *)
SoundAnswers ==
  /\ pc \notin PcmSteps \cup {"wait"} ~> pc = "game"
  /\ pc = "wait" ~> pc \in {"game", "hold"}

(* With the length limit the upload has no holes: when the ROM has counted n  *)
(* sectors, the first n of the PCM memory are filled in order, over the end   *)
(* of a bank, and the engine's count and the ROM's agree.                     *)
UploadInOrder ==
  lenLimit /\ pc \in PcmSteps \ {"mapPcm"} =>
    \A k \in 0 .. done - 1, j \in 0 .. 2 * SectorWords - 1 :
      pcm_dram[2 * SectorWords * k + j] = <<version, k, j>>

(* "Vector table MUST be set to BIOS before pulsing reset": every reset       *)
(* starts from the system ROM's vectors.                                      *)
ResetFromBios == resetFrom = "bios"
=============================================================================

------------------------------ MODULE CdStream ------------------------------
(***************************************************************************)
(* The path of a data sector: the drive's sector timer decodes it into the *)
(* buffer of the LC8951 and raises the decoder interrupt, the 68K takes    *)
(* vector 21, and its handler reads the sector's address from the chip's   *)
(* registers, programs a transfer and starts the DMA.                      *)
(*                                                                         *)
(* CdIrq gives the interrupts and the order of geo_exec, Lc8951 the chip.  *)
(* The handler is the BIOS's and not part of the source: it follows the    *)
(* protocol that the comments of geo_cd.c and geo_lc8951.c give.           *)
(***************************************************************************)
EXTENDS CdIrq

CONSTANTS
  Base, DbcHighs, SectorSize, HeaderSize, DataSize, Depth,
  Garbage, Zero,
  Last,     \* bound: the last sector that the drive plays
  MaxLate   \* sector periods that end before the handler starts its DMA

Lba == 0..Last

ASSUME LateAssumption == MaxLate \in 0..Depth - 1 /\ Last \in Nat

\* The DMA moves words.
ASSUME EvenAssumption == DataSize % 2 = 0

VARIABLES
  regptr, buffer, wal, ptl, dac, dbc, decoding, headHidden, ifctrl, ifstat,
  head, bypassed, sector, recent,  \* the LC8951
  playLba,   \* cd.play_lba
  pc,        \* where software is
  address,   \* PTL, as far as the handler has read it
  acked,     \* the handler has written FF000F
  late,      \* sector periods since the handler was entered
  missed,    \* history: its FF000F has wiped an interrupt raised meanwhile
  got,       \* history: software was handed no sector from here on
  out        \* history: the bytes it was handed last

LC == INSTANCE Lc8951 WITH Readable  <- Lba,
                           Protected <- {},
                           DmaWords  <- {DataSize \div 2}

\* The chip's sizes fit together, and DBC reaches the end of the data.
ASSUME ChipAssumption ==
  /\ LC!SizesAssumption
  /\ LC!DepthAssumption
  /\ LC!DiscAssumption
  /\ DataSize <= DbcHighs * Base

chipVars   == <<regptr, buffer, wal, ptl, dac, dbc, decoding, headHidden, ifctrl,
                ifstat, head, bypassed, sector, recent>>
hostVars   == <<pc, address, acked, late, missed, got, out>>
streamVars == <<vars, chipVars, playLba, hostVars>>

InitStream ==
  /\ Init
  /\ LC!Init
  /\ playLba = 0
  /\ pc = "boot"
  /\ address = 0
  /\ acked = FALSE
  /\ late = 0
  /\ missed = FALSE
  /\ got = 0
  /\ out = <<>>

(***************************************************************************)
(* Software.  An instruction that reaches the chip leaves the interrupt    *)
(* state alone, and the other way round.                                   *)
(***************************************************************************)

Goto(from, to) == pc = from /\ pc' = to

Elsewhere == UNCHANGED <<chipVars, playLba, address, late, got, out>>

\* Boot: acknowledge the reset, open the decoder's interrupt, and start the
\* decoder.
Boot ==
  \/ /\ \/ Goto("boot", "gate") /\ WriteIrqAck({TimerLevel})
        \/ Goto("gate", "enable") /\ WriteIrqMask1({"decoder"})
     /\ Elsewhere
     /\ UNCHANGED <<acked, missed>>
  \/ /\ Idle
     /\ UNCHANGED <<playLba, address, acked, late, missed, got, out>>
     /\ \/ Goto("enable", "ifctrl") /\ LC!SelectReg(1)
        \/ Goto("ifctrl", "decoder") /\ LC!WriteIfctrl(LC!Enables)
        \/ Goto("decoder", "ctrl0") /\ LC!SelectReg(10)
        \/ Goto("ctrl0", "unmask") /\ LC!WriteCtrl0(TRUE)

Low(a)  == a % Base
High(a) == a \div Base

\* Where the sector's data starts: PTL names its header.
DataAt == LC!Wrap(address + HeaderSize)

\* The handler's accesses to the chip, each of them an instruction.
Access ==
  /\ Idle
  /\ UNCHANGED <<playLba, acked, late, missed, got, out>>
  /\ \/ Goto("select", "low") /\ LC!SelectReg(8) /\ UNCHANGED address
     \/ Goto("low", "high") /\ LC!ReadReg /\ address' = Low(ptl)
     \/ Goto("high", "status") /\ LC!ReadReg
        /\ address' = LC!WithHigh(address, High(ptl))
     \/ /\ UNCHANGED address
        /\ \/ Goto("status", "stat3") /\ LC!SelectReg(15)
           \/ Goto("stat3", "count") /\ LC!ReadReg
           \/ Goto("count", "dbcl") /\ LC!SelectReg(2)
           \/ Goto("dbcl", "dbch") /\ LC!WriteDbc(Low(DataSize - 1))
           \/ Goto("dbch", "dacl") /\ LC!WriteDbc(High(DataSize - 1))
           \/ Goto("dacl", "dach") /\ LC!WriteDac(Low(DataAt))
           \/ Goto("dach", "dtrg") /\ LC!WriteDac(High(DataAt))
           \/ Goto("dtrg", "dma") /\ LC!WriteDtrg
           \/ Goto("done", "dtack") /\ LC!SelectReg(7)
           \/ Goto("dtack", "return") /\ LC!WriteDtack

\* FF0061: the whole transfer is one register write.
StartDma ==
  /\ Goto("dma", "done")
  /\ Idle
  /\ LC!Transfer
  /\ out' = LC!Fetched(DataSize \div 2)
  /\ got' = IF out'[1].src \in Lba THEN out'[1].src + 1 ELSE got
  /\ UNCHANGED <<playLba, address, acked, late, missed>>

InHandler == frames # <<>>

\* FF000F, anywhere in the handler.
Acknowledge ==
  /\ InHandler
  /\ ~acked
  /\ WriteCdIrqAck({"decoder"})
  /\ acked' = TRUE
  /\ missed' = (missed \/ "decoder" \in pending)
  /\ Elsewhere
  /\ UNCHANGED pc

\* The handler starts over for every interrupt.
Enter ==
  /\ pc' = "select"
  /\ acked' = FALSE
  /\ late' = 0
  /\ missed' = FALSE

\* Back from lowering the mask, or into the handler at once.
Resume ==
  /\ IF frames' # <<>> THEN Enter
     ELSE pc' = "idle" /\ UNCHANGED <<acked, late, missed>>
  /\ UNCHANGED <<chipVars, playLba, address, got, out>>

Unmask == pc = "unmask" /\ WriteSr(0) /\ Resume

Return == pc = "return" /\ acked /\ Rte /\ Resume

Wait ==
  /\ pc = "idle"
  /\ Idle
  /\ UNCHANGED <<chipVars, playLba, hostVars>>

Begin ==
  /\ BeginExecute
  /\ IF Len(frames') > Len(frames) THEN Enter
     ELSE UNCHANGED <<pc, acked, late, missed>>
  /\ UNCHANGED <<chipVars, playLba, address, got, out>>

Software == Begin \/ Boot \/ Unmask \/ Access \/ StartDma \/ Acknowledge \/ Return \/ Wait

(***************************************************************************)
(* The sector timer, while the drive plays data.                           *)
(***************************************************************************)

\* Software's part of the bargain: it reads both halves of PTL before the
\* next sector is decoded, and starts its DMA within MaxLate periods.
InTime ==
  /\ pc \notin {"select", "low", "high"}
  /\ pc \in {"status", "stat3", "count", "dbcl", "dbch", "dacl", "dach", "dtrg", "dma"}
       => late < MaxLate

\* Slip: the decoder interrupt also needs cd_irq_enabled.
DecoderFiresGated == decoding /\ "DECIEN" \in ifctrl /\ "DECI" \in ifstat' /\ irqEnabled

\* The decoder's part of the interrupt condition; the gate is CdTick's.
DecoderFires == decoding /\ "DECIEN" \in ifctrl /\ "DECI" \in ifstat'

SectorPeriod ==
  /\ InTime
  /\ playLba \in Lba
  /\ LC!SectorDecoded(playLba)
  /\ CdTick(DecoderFires)
  /\ playLba' = playLba + 1
  /\ late' = IF InHandler THEN late + 1 ELSE late
  /\ UNCHANGED <<pc, address, acked, missed, got, out>>

\* The devices that are not of interest here do nothing.
NothingHappens ==
  /\ \/ Quiet("watchdog", "timer") \/ Quiet("timer", "lspc")
     \/ Quiet("lspc", "cd") \/ Quiet("cd", "check")
  /\ UNCHANGED <<chipVars, playLba, hostVars>>

NextStream == Software \/ SectorPeriod \/ NothingHappens

SpecStream == InitStream /\ [][NextStream]_streamVars

(***************************************************************************)
(* geo_exec runs on, and software proceeds whenever it is its turn.        *)
(***************************************************************************)
FairStream == SpecStream /\ WF_streamVars(NextStream)

(***************************************************************************)
(* Properties.                                                             *)
(***************************************************************************)

\* Where the bytes handed to software come from, counted from the data.
OutData == [i \in DOMAIN out |-> [src |-> out[i].src, at |-> out[i].at - HeaderSize + 1]]

Stream == INSTANCE SectorStream WITH Window <- MaxLate + 1,
                                     next   <- playLba,
                                     out    <- OutData

\* Whole sectors, in the order of the disc, through two components and a
\* handler that the drive does not wait for.
StreamSpec == Stream!Spec

\* When the interrupt is quiet and software waits, it has been handed every
\* sector up to the drive's position, or a later one: no decoded sector is
\* stranded, unless software itself acknowledged its interrupt unseen.
NothingStranded ==
  (pc = "idle" /\ pending = {} /\ ~missed) => got = playLba

\* What has been decoded reaches software, under the same proviso.
SectorsArrive ==
  \A lba \in Lba : (playLba = lba + 1) ~> (got > lba \/ missed)
=============================================================================

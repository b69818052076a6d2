------------------------------- MODULE Lc8951 -------------------------------
(***************************************************************************)
(* The Sanyo LC8951 of geo_lc8951.c: the decoder writes sectors into a     *)
(* circular buffer, software programs byte-wide registers behind an        *)
(* auto-incrementing pointer, and the DMA engine of geo_cd.c reads the     *)
(* buffer out from the data address counter.                               *)
(*                                                                         *)
(* The sizes of the chip (a 64K buffer, sectors 2352 bytes apart, a 4 byte *)
(* header, 2048 bytes of data, bytes of 256 values) are parameters, so     *)
(* that small ones can be checked.  A byte of a sector is represented by   *)
(* where it comes from.  STAT0-STAT3, which software can only read, and    *)
(* the mode bits copied into STAT2 are left out.                           *)
(***************************************************************************)
EXTENDS Naturals, Sequences

CONSTANTS
  Base,        \* values of a byte; addresses have two of them
  DbcHighs,    \* values of the high byte of DBC, which has four bits
  SectorSize,  \* GEO_DISC_SECTOR_SIZE: how far WAL moves per sector
  HeaderSize,
  DataSize,    \* GEO_DISC_DATA_SIZE
  Depth,       \* how many sectors the buffer keeps whole
  Lba,         \* sectors of the disc
  Readable,    \* those of them that geo_disc_read_sector can read
  Protected,   \* those that start with "Copyright by SNK"
  Garbage,     \* an uninitialised byte
  Zero,        \* a byte cleared by memset
  DmaWords     \* bound: lengths of the DMA descriptors it programs

BufSize   == Base * Base
StoreSize == HeaderSize + DataSize

ASSUME SizesAssumption ==
  /\ Base \in Nat \ {0, 1}
  /\ DbcHighs \in 1..Base - 1
  /\ HeaderSize \in Nat \ {0}
  /\ DataSize \in Nat \ {0}
  /\ SectorSize \in Nat
  /\ StoreSize <= SectorSize
  /\ SectorSize < BufSize

\* The oldest kept sector starts (Depth - 1) sectors before the newest, which
\* may wrap around up to it but not into it.
ASSUME DepthAssumption ==
  /\ Depth \in Nat \ {0}
  /\ (Depth - 1) * SectorSize + StoreSize <= BufSize

ASSUME DiscAssumption ==
  /\ Readable \subseteq Lba
  /\ Protected \subseteq Lba
  /\ Garbage \notin Lba
  /\ Zero \notin Lba \cup {Garbage}

ASSUME SoftwareAssumption == DmaWords \subseteq Nat \ {0}

VARIABLES
  regptr,    \* register that the next access at FF0103 hits
  buffer,
  wal,       \* where the next sector goes
  ptl,       \* where the last decoded sector starts
  dac,       \* dacl: where the next transfer reads
  dbc,       \* bytes to transfer, minus one
  decoding,  \* decoder_enabled, which mirrors CTRL0.DECEN
  headHidden,\* CTRL1.SHDREN: HEAD0-HEAD3 read as zero
  ifctrl,    \* interrupt and transfer enables
  ifstat,    \* what the active-low bits of IFSTAT assert
  head,      \* sector named by HEAD0-HEAD3
  bypassed,  \* protection_bypassed
  sector,    \* the array on the stack that a sector is read into
  recent     \* history: start and sector of the last Depth sectors decoded,
             \* newest first, since WAL was last set by software

regVars == <<regptr, ptl, dac, dbc, decoding, headHidden, ifctrl, ifstat>>
vars    == <<regVars, buffer, wal, head, bypassed, sector, recent>>

Address == 0..BufSize - 1
Digit   == 0..Base - 1

\* What the array can hold, and a byte of the buffer: it was stored for sector
\* `of', which its header names, and comes from sector `src'.
Contents == [src : Lba \cup {Garbage}, patched : BOOLEAN]
Byte     == [of : Lba \cup {Zero}, src : Lba \cup {Garbage, Zero},
             at : 0..StoreSize - 1, patched : BOOLEAN]

Enables == {"DOUTEN", "DECIEN"}
Flags   == {"DECI", "DTBSY", "DTEI"}

Disc(lba) == [src |-> lba, patched |-> FALSE]
ZeroByte  == [of |-> Zero, src |-> Zero, at |-> 0, patched |-> FALSE]

\* 16-bit addresses wrap; no sum of the chip exceeds twice the buffer.
Wrap(a) == IF a >= BufSize THEN a - BufSize ELSE a

WithLow(a, d)  == (a \div Base) * Base + d
WithHigh(a, d) == d * Base + (a % Base)

\* memset clears the chip, but not the array on the stack.
ResetState ==
  /\ regptr' = 0
  /\ buffer' = [a \in Address |-> ZeroByte]
  /\ wal' = SectorSize
  /\ ptl' = 0
  /\ dac' = 0
  /\ dbc' = 0
  /\ decoding' = FALSE
  /\ headHidden' = FALSE
  /\ ifctrl' = {}
  /\ ifstat' = {}
  /\ head' = Zero
  /\ bypassed' = FALSE
  /\ recent' = <<>>
  /\ UNCHANGED sector

Init ==
  /\ regptr = 0
  /\ buffer = [a \in Address |-> ZeroByte]
  /\ wal = SectorSize
  /\ ptl = 0
  /\ dac = 0
  /\ dbc = 0
  /\ decoding = FALSE
  /\ headHidden = FALSE
  /\ ifctrl = {}
  /\ ifstat = {}
  /\ head = Zero
  /\ bypassed = FALSE
  /\ sector = Disc(Garbage)
  /\ recent = <<>>

(***************************************************************************)
(* The decoder.                                                            *)
(***************************************************************************)

\* How far address a lies beyond address b, going up and around.
Ahead(a, b) == IF a >= b THEN a - b ELSE a + BufSize - b

\* Byte `at' of the stored sector: its header names lba, its data is the
\* array's.
SectorByte(lba, data, at) ==
  [of      |-> lba,
   src     |-> IF at < HeaderSize THEN lba ELSE data.src,
   at      |-> at,
   patched |-> data.patched /\ at = HeaderSize]

\* Slip: the copy stops at the end of the buffer instead of wrapping.
StoreClips(pos, lba, data) ==
  buffer' = [a \in Address |->
               IF a >= pos /\ a - pos < StoreSize
               THEN SectorByte(lba, data, a - pos)
               ELSE buffer[a]]

\* lc_buffer_write, for the header and for the data right behind it.
Store(pos, lba, data) ==
  buffer' = [a \in Address |->
               IF Ahead(a, pos) < StoreSize
               THEN SectorByte(lba, data, Ahead(a, pos))
               ELSE buffer[a]]

\* What the array may hold after geo_disc_read_sector, whose result is not
\* looked at: when the read fails, the array is as it was, or as other calls
\* have left the stack, or part of the sector has been read.
ReadSector(lba) ==
  IF lba \in Readable THEN {Disc(lba)}
  ELSE {sector, Disc(Garbage), Disc(lba)}

\* A byte that is changed already no longer matches.
Matches(data) == data.src \in Protected /\ ~data.patched

Patch(data) ==
  sector' = [data EXCEPT !.patched = @ \/ (~bypassed /\ Matches(data))]

\* Slip: the bypass is not remembered.
BypassForgets(data) == Patch(data) /\ UNCHANGED bypassed

\* protection_bypass changes one byte of the first sector that matches, in the
\* array, where it stays until the next read.
Bypass(data) == Patch(data) /\ bypassed' = (bypassed \/ Matches(data))

\* Slip: PTL is taken after WAL has moved on.
PointsAtNext ==
  /\ wal' = Wrap(wal + SectorSize)
  /\ ptl' = wal'

PointAtSector ==
  /\ ptl' = wal
  /\ wal' = Wrap(wal + SectorSize)

\* geo_lc8951_sector_decoded; without the decoder it does nothing.
SectorDecoded(lba) ==
  /\ decoding
  /\ \E data \in ReadSector(lba) : Bypass(data)
  /\ Store(wal, lba, sector')
  /\ head' = lba
  /\ PointAtSector
  /\ ifstat' = ifstat \cup {"DECI"}
  /\ recent' = SubSeq(<<[at |-> wal, lba |-> lba]>> \o recent, 1,
                      IF Len(recent) < Depth THEN Len(recent) + 1 ELSE Depth)
  /\ UNCHANGED <<regptr, dac, dbc, decoding, headHidden, ifctrl>>

(***************************************************************************)
(* Register accesses at FF0101 and FF0103.                                 *)
(***************************************************************************)

\* The pointer moves on after every access, except on register 0.
NextReg(reg) ==
  CASE reg = 0  -> 0
    [] reg = 15 -> 1
    [] OTHER    -> reg + 1

SelectReg(reg) ==
  /\ regptr' = reg
  /\ UNCHANGED <<buffer, wal, ptl, dac, dbc, decoding, headHidden, ifctrl,
                 ifstat, head, bypassed, sector, recent>>

\* Only STAT3 (15) has a side effect: it acknowledges DECI.
ReadReg ==
  /\ regptr' = NextReg(regptr)
  /\ ifstat' = IF regptr = 15 THEN ifstat \ {"DECI"} ELSE ifstat
  /\ UNCHANGED <<buffer, wal, ptl, dac, dbc, decoding, headHidden, ifctrl,
                 head, bypassed, sector, recent>>

\* Registers 0 (SBOUT) and 14 (CTRL2) accept anything and do nothing.
WriteIgnored ==
  /\ regptr \in {0, 14}
  /\ regptr' = NextReg(regptr)
  /\ UNCHANGED <<buffer, wal, ptl, dac, dbc, decoding, headHidden, ifctrl,
                 ifstat, head, bypassed, sector, recent>>

WriteIfctrl(enables) ==
  /\ regptr = 1
  /\ regptr' = NextReg(regptr)
  /\ ifctrl' = enables
  /\ UNCHANGED <<buffer, wal, ptl, dac, dbc, decoding, headHidden, ifstat,
                 head, bypassed, sector, recent>>

WriteDbc(d) ==
  /\ regptr \in {2, 3}
  /\ regptr' = NextReg(regptr)
  /\ dbc' = IF regptr = 2 THEN WithLow(dbc, d) ELSE WithHigh(dbc, d % DbcHighs)
  /\ UNCHANGED <<buffer, wal, ptl, dac, decoding, headHidden, ifctrl, ifstat,
                 head, bypassed, sector, recent>>

WriteDac(d) ==
  /\ regptr \in {4, 5}
  /\ regptr' = NextReg(regptr)
  /\ dac' = IF regptr = 4 THEN WithLow(dac, d) ELSE WithHigh(dac, d)
  /\ UNCHANGED <<buffer, wal, ptl, dbc, decoding, headHidden, ifctrl, ifstat,
                 head, bypassed, sector, recent>>

\* DTRG: arms a transfer, if data output is enabled.
WriteDtrg ==
  /\ regptr = 6
  /\ regptr' = NextReg(regptr)
  /\ ifstat' = IF "DOUTEN" \in ifctrl THEN ifstat \cup {"DTBSY"} ELSE ifstat
  /\ UNCHANGED <<buffer, wal, ptl, dac, dbc, decoding, headHidden, ifctrl,
                 head, bypassed, sector, recent>>

WriteDtack ==
  /\ regptr = 7
  /\ regptr' = NextReg(regptr)
  /\ ifstat' = ifstat \ {"DTEI"}
  /\ UNCHANGED <<buffer, wal, ptl, dac, dbc, decoding, headHidden, ifctrl,
                 head, bypassed, sector, recent>>

\* The write side of WAL is register 8, not 10 as on the read side.
WriteWal(d) ==
  /\ regptr \in {8, 9}
  /\ regptr' = NextReg(regptr)
  /\ wal' = IF regptr = 8 THEN WithLow(wal, d) ELSE WithHigh(wal, d)
  /\ recent' = <<>>
  /\ UNCHANGED <<buffer, ptl, dac, dbc, decoding, headHidden, ifctrl, ifstat,
                 head, bypassed, sector>>

WriteCtrl0(on) ==
  /\ regptr = 10
  /\ regptr' = NextReg(regptr)
  /\ decoding' = on
  /\ UNCHANGED <<buffer, wal, ptl, dac, dbc, headHidden, ifctrl, ifstat,
                 head, bypassed, sector, recent>>

WriteCtrl1(hidden) ==
  /\ regptr = 11
  /\ regptr' = NextReg(regptr)
  /\ headHidden' = hidden
  /\ UNCHANGED <<buffer, wal, ptl, dac, dbc, decoding, ifctrl, ifstat,
                 head, bypassed, sector, recent>>

WritePtl(d) ==
  /\ regptr \in {12, 13}
  /\ regptr' = NextReg(regptr)
  /\ ptl' = IF regptr = 12 THEN WithLow(ptl, d) ELSE WithHigh(ptl, d)
  /\ UNCHANGED <<buffer, wal, dac, dbc, decoding, headHidden, ifctrl, ifstat,
                 head, bypassed, sector, recent>>

\* Register 15, whatever is written, and the machine's reset.
WriteReset == regptr = 15 /\ ResetState

(***************************************************************************)
(* The DMA engine's side: geo_cd.c's transfer modes FFC5, FF89 and FC2D.   *)
(***************************************************************************)

\* Words moved for a descriptor of len words: no more than DBC asks for,
\* unless DBC is zero.
WordsMoved(len) ==
  LET words == (dbc + 1) \div 2 IN
  IF words > 0 /\ len > words THEN words ELSE len

\* Slip: the counter moves by DBC instead of DBC + 1.
DacShort == Wrap(dac + dbc)

\* Where the counter stands after a transfer.
DacAfter == Wrap(dac + dbc + 1)

\* The bytes that a transfer of len words reads, in order.
Fetched(len) ==
  [i \in 1..2 * WordsMoved(len) |-> buffer[(dac + i - 1) % BufSize]]

\* geo_lc8951_end_transfer.
Transfer ==
  /\ "DTBSY" \in ifstat
  /\ ifstat' = (ifstat \ {"DTBSY"}) \cup {"DTEI"}
  /\ dac' = DacAfter
  /\ dbc' = 0
  /\ UNCHANGED <<regptr, buffer, wal, ptl, decoding, headHidden, ifctrl,
                 head, bypassed, sector, recent>>

Write ==
  \/ WriteIgnored \/ WriteDtrg \/ WriteDtack \/ WriteReset
  \/ \E enables \in SUBSET Enables : WriteIfctrl(enables)
  \/ \E d \in Digit : WriteDbc(d) \/ WriteDac(d) \/ WriteWal(d) \/ WritePtl(d)
  \/ \E on \in BOOLEAN : WriteCtrl0(on) \/ WriteCtrl1(on)

Next ==
  \/ \E lba \in Lba : SectorDecoded(lba)
  \/ \E reg \in 0..15 : SelectReg(reg)
  \/ ReadReg
  \/ Write
  \/ Transfer

Spec == Init /\ [][Next]_vars

(***************************************************************************)
(* Properties.                                                             *)
(***************************************************************************)

\* Every register stays within its width, however it is put together.
TypeOK ==
  /\ regptr \in 0..15
  /\ buffer \in [Address -> Byte]
  /\ wal \in Address
  /\ ptl \in Address
  /\ dac \in Address
  /\ dbc \in 0..Base * DbcHighs - 1
  /\ decoding \in BOOLEAN
  /\ headHidden \in BOOLEAN
  /\ ifctrl \subseteq Enables
  /\ ifstat \subseteq Flags
  /\ head \in Lba \cup {Zero}
  /\ bypassed \in BOOLEAN
  /\ sector \in Contents
  /\ recent \in Seq([at : Address, lba : Lba])
  /\ Len(recent) <= Depth

\* The sector stored at `pos' is whole, its header and its data in place.
Holds(pos, lba) ==
  \A at \in 0..StoreSize - 1 :
    LET byte == buffer[Wrap(pos + at)] IN
    /\ byte.at = at
    /\ at < HeaderSize => byte.src = lba
    /\ (at >= HeaderSize /\ lba \in Readable) => byte.src = lba

\* A sector stays whole while up to Depth - 1 more are decoded behind it,
\* wherever WAL stood and however often it wrapped: software may be that
\* late with its DMA.
RecentIntact == \A i \in 1..Len(recent) : Holds(recent[i].at, recent[i].lba)

\* When DECI is raised, PTL points at the header of the sector that HEAD
\* names, with its data behind it.
DeciDescribesSector ==
  [][recent' # recent /\ recent' # <<>> => Holds(ptl, head)']_vars

\* Of the sectors that could be read, the bypass corrupts one, once: when the
\* protected sector is read again, or another looks like it, the buffer has the
\* disc's own bytes, whatever patched copy the array still held.  A sector that
\* cannot be read is stored with what is in the array, the patch included.
PatchedRead(a) == buffer[a].patched /\ buffer[a].of \in Readable

PatchedOnce ==
  \A a, b \in Address : PatchedRead(a) /\ PatchedRead(b) => a = b

\* A transfer of a whole number of words, with a descriptor that covers DBC,
\* leaves DAC right behind the last byte that the DMA engine has read, so that
\* the next one continues there.
TransferContinues ==
  [][\A len \in DmaWords :
       Transfer /\ dbc % 2 = 1 /\ 2 * len > dbc =>
         Len(Fetched(len)) = Ahead(dac', dac)]_vars
=============================================================================

# Geolith: TLA+ specification and proofs

Geolith (this repository) emulates the Neo Geo AES, MVS and CD.  Most of its
own logic, as opposed to the vendored CPU and sound cores, is the machine around
them: the Neo Geo CD (a drive with a command protocol, a sector decoder, an
interrupt controller, a DMA engine), the main loop that runs all devices
between two 68K instructions, the clock chip, the cartridge boards, the ports
of the video chip, and saved states that cut through all of them.  This
directory specifies these parts in TLA+, model-checks them with TLC and proves
their central invariants with TLAPS.

## 1. Inventory

| Component | Source | State it keeps | Operations | What makes it correct |
|---|---|---|---|---|
| CD interrupt controller | `src/src/geo_cd.c`, `geo_m68k.c` | pending sources, FF0002/FF0004/FF000F/FF0181, VBL latch | raise, acknowledge by name, acknowledge by the CPU, mask | the 68K line follows the pending set; no source is lost or invented; a masked VBL is delivered once |
| 68K interrupt lines | `src/src/m68k/m68kcpu.*` | virtual lines, mask, STOP, frames | check, take, RTE, write SR, STOP, reset | interrupts are precise; a stopped CPU wakes |
| LC8951 | `geo_lc8951.c` | 64K ring buffer, WAL, PTL, DAC, DBC, flags | decode a sector, read or write a register, end a transfer, reset | sectors are whole in the ring, PTL names the newest, a transfer ends where it says |
| CD drive | `geo_cd.c` | status, position, playing flags, sector counter and rate, track cache, CDDA stream | eleven commands, drive reset, `geo_cd_tick`, `geo_cd_read_cdda` | flags, sound and position agree; periods keep coming; data is never heard |
| Packet protocol | `geo_cd.c` | command, response, two nybble pointers, strobe | nybble write, three clocks, pointer reset, command execution | responses are sealed; a bad packet is inert; the table of contents and Play agree |
| DMA engine | `geo_cd.c` | descriptor, transfer area | LC8951 transfers, fills, copies | a transfer reads what the chip was programmed for |
| CD memory map | `geo_cd.c` | banks, bus requests, vector table, locks | reads and writes of the 68K | the right memory is reached; reset fetches from the BIOS |
| Disc images | `geo_disc.c`, `geo_cue.c`, `geo_chd.c` | track table, files | open, read a sector, read audio | every position belongs to one track |
| Main loop | `geo.c` | cycle counts, IRQ2 counter, watchdog | `geo_exec`, `geo_reset` | devices keep pace; the timer fires once per reload |
| LSPC | `geo_lspc.c` | scanline, VRAM pointer, animation | run, register access | VBL once per frame |
| Z80 and sound link | `geo_z80.c`, `geo_ymfm.c`, `geo_mixer.c` | latches, NMI enable, banks | code and reply, NMI, bus request, reset | no sound code is lost |
| Cartridge boards | `geo_m68k.c`, `geo_neo.c`, `geo_sma.h` | bank registers, protection | reads and writes | banks stay within the ROM |
| RTC | `geo_rtc.c` | shift register, time | serial commands, tick | calendar arithmetic, commands |
| Memory card, NVRAM, save states | `geo_memcard.c`, `geo_serial.c`, `geo.c` | images | save, load | what is saved is what is loaded |
| Frontend | `src/libretro/libretro.c` | options, buffers | `retro_*` | host glue |

How they interact.  There are no threads: `geo_exec` runs one 68K instruction
and then, in a fixed order, the watchdog, the IRQ2 counter, the LSPC, the CD
timer (`geo_cd_tick`) and the Z80.  Register writes of the instruction call
straight into a component (FF0101/FF0103 into the LC8951, FF0163/FF0165 into
the packet protocol, FF0061 into the DMA engine); components talk to the 68K
only through its virtual interrupt lines, and the 68K calls back to acknowledge
an interrupt and fetch its vector.  The mixer pulls CD audio at the end of the
frame, at its own position.

What is hard.  Software and devices interleave at instruction boundaries: a
sector period can end between any two instructions of a handler; two interrupt
sources share a line; state is acknowledged at three places (the CPU's
acknowledge, FF000F, STAT3); the drive does not wait for software; the mixer
runs ahead of the drive; commands arrive nybble by nybble and can be cut off by
a reset of the pointers; positions, flags and sound are changed piecemeal by
eleven commands and by the timer.  Three processors with different clocks are
kept level by counters that are reduced at the end of each frame, with events
that may fall in the middle of an instruction; the 68K and the Z80 talk through
two latches, and either may be reset or held while the other goes on.  A saved
state is put together by each component from its own fields and loaded over
whatever was running.  `PROJECT.json` lists these hazards with their lines and
the properties that watch them.

## 2. Modules

| Module | What it is |
|---|---|
| `CdIrq` | Interrupt controller, VBL latch, 68K lines; one action per register write, CPU step and device |
| `Lc8951` | The decoder chip; one action per register, plus `SectorDecoded` and `Transfer` |
| `CdDrive` | Commands, sector timer, track cache, CDDA |
| `CdComm` | The packet protocol on top of `CdDrive` (EXTENDS) |
| `SectorStream` | Abstract: what software that reads a data track is promised |
| `CdStream` | Composition: `CdIrq` (EXTENDS) and `Lc8951` (INSTANCE) with the sector timer and a BIOS handler, shown to implement `SectorStream` |
| `Scheduler` | `geo_exec`: the 68K instruction, the watchdog, the interval timer, the beam, the Z80 and YM2610 that catch up, the end of a frame |
| `IntervalTimer` | Abstract: a timer of so many cycles that is reloaded at three points; `Scheduler` implements it |
| `CdBoard` | Composition of the 68K's system ROM and title, the Z80 with its latches and NMI, the transfer area, the DMA engine and `geo_reset` |
| `Rtc` | The uPD4990A: shift registers bit by bit, commands, time, 1 Hz and TP |
| `Calendar` | Abstract: a clock that is set or counts a second; `Rtc` implements it |
| `Palette`, `VramPort` | Palette RAM with its output tables; the video RAM port |
| `Cartridge` | Program banks and protection chips of six boards, and the choice of the ROMs |
| `SaveState` | Saved states, loading and restarts on top of `CdIrq` (EXTENDS) |
| `States` | Composition of `SaveState`, `Cartridge` (EXTENDS), `Palette` and `VramPort` (INSTANCE), which share no state: one of them moves, the others rest |
| `*_proofs` | Inductive invariants and theorems: of `CdIrq`, `Lc8951`, `Scheduler`, `CdBoard` and `Rtc` each, of `CdDrive` together with `CdComm`, of the composition `CdStream`, and of `States` with its four parts |
| `MC*` | Instances for TLC: the values of the constants, and constraints where a run needs them |

How state and actions correspond to the code is recorded definition by
definition in `PROJECT.json` ("map").  Names follow the source where they can;
the comments on VARIABLES give the C name of each.  Operators commented
"Slip:" are faulty variants of the definition after them: replacing the
definition by its slip must make a property fail, which shows that the property
can tell the difference.

Abstractions.

- `CdIrq` drops cycle counts: whether the VBL, the timer or a sector period
  falls due in a pass is a choice.  The order of the devices within a pass is
  that of `geo_exec` (`turn`).  A stack frame keeps the vector and the saved
  mask.  The CD sources are `"decoder"` and `"comm"`, each for its bit in
  `cd_pending_irq`, `cd_irq_mask` and its pair of bits in `irq_mask1`.
- `Lc8951` keeps every register and the buffer, but a byte is where it comes
  from (which sector, which offset, patched or not), and the sizes are
  parameters: the base of the byte-wide registers, the sector and header sizes.
  With the chip's own numbers (64K, 2352, 4 + 2048) the buffer keeps 27 sectors.
  The values of STAT0-STAT3 and of the mode bits are left out.  `sector` is the
  uninitialised array on the stack that sectors are read into and that the
  bypass patches; no reset clears it.  After a read that fails it is as the call
  before left it, patched or not, or anything else, or holds part of the sector:
  a choice of `ReadSector`.
- `CdDrive` keeps the timer exact: counters, rates and the loop are those of
  the code, with the rates as parameters.  `phase` makes each iteration of the
  loop a step.  Positions past the lead-out saturate at `MaxLba`.  The samples
  of a CDDA sector are represented by the sector.
- `CdComm` keeps packets as ten nybbles with their values, since the checksum
  and the BCD conversions are what its properties are about.
- `CdStream` has the drive play a data track.  The handler is not in this
  repository (it is the BIOS's); it follows the protocol that the comments at
  `geo_lc8951.c:87` and `geo_cd.c:150-158` give, and may acknowledge at FF000F
  at any point.  `InTime` states what is assumed of its speed: both halves of
  PTL are read before the next sector ends, and the DMA starts within `MaxLate`
  periods (at 80000 68K cycles each).
- `Scheduler` keeps every counter exact, among them the fraction of a pixel and
  the unsigned timer counter, with the geometry of a frame and the dividers as
  parameters.  An instruction is its cost and the register writes it may make;
  a program of a run is the set of these, either those of the timer or those of
  the watchdog.  The overclock option is fixed when a run starts.
- `CdBoard` has a program of the system ROM and of the title outside this
  repository (marked external): it uploads a sound driver in the order of
  `geo_cd.c:1196-1213` and `1094-1147`, sends a command again until it is
  answered or gives it up, and fills the PCM memory by DMA mode FC2D.  The Z80
  follows the driver it was given, which masks NMIs while it starts
  (`geo_z80.c:210-225`); running what is only half there is what `NeverTorn`
  excludes.
- `Rtc` has words of 52 bits as in the chip, and a second of a few cycles.
  Software is a program of words and commands with any number of edges; the
  host's clock gives the time at a reset.  That time, and what software sets, is
  one of the calendar (`TimeAssumption`: `localtime` gives such times but for
  leap seconds, and the system ROM asks for no other).  `MonthOver` translates
  the code for other months too: one outside 1..12 indexes `monthdays` out of
  bounds, and its length is a choice then, which no property is about.
- `SaveState` saves between two frames, as the frontend does (`turn = "check"`).
- `Palette` divides an entry into its halves and identifies a colour with the
  table and the word it was computed from.  `VramPort` drops the contents of
  the memory; ghosts keep the address written last and the steps since.
- `Cartridge` runs one board at a time, with RAM from 0x1fe0, where all
  registers are.  Contents of ROM are left out but for whether KOF98's is
  patched.

## 3. Runs

| Run | Question | Bounds and why they are enough |
|---|---|---|
| `cd_irq` | Do lines, sources, latches and vectors agree, and does a stopped CPU wake? | Two masks (all, none) and nesting by one extra level: each source is a bit, so every combination of them is reached |
| `cd_irq_gate_doc` | Is the decoder interrupt gated by FF0181 as documented? (violated) | as above |
| `lc8951` | Are recent sectors whole wherever the ring wraps, next to one that cannot be read, is one of what could be read patched at most, and does DAC end behind the last byte read? | 9 bytes, sectors 4 apart: the sector size does not divide the buffer, so every offset and both kinds of wrap (header and data) occur. Decoder and transfers use different registers and are explored apart. A failed read leaves the array patched, unpatched or garbage (that it reads part of the sector is left to the proofs), with chip resets between |
| `cd_drive` | Do status, flags, position, sound and cache agree; does the timer go on? | three tracks (data, audio, data), rates in the order of the real ones, every command in every state |
| `cd_drive_timing` | Is there one sector per period? (violated) | as above |
| `cd_comm` | Are responses sealed, bad packets inert, and do TOC and Play agree? | every command of the code and an unknown one, right and wrong checksums; sequences of drive commands are left to `cd_drive` |
| `cd_stream` | Does software get whole sectors in order, and is none stranded? | seven sectors through a buffer of three, so that it wraps twice, and a handler as late as it may be: with one period more the run fails |
| `frame` | Do the processors stay in step, do samples fit, are beam, timer and watchdog exact, does each frame end? | three lines of four cycles, costs odd and even and below and above a line's half, a counter that wraps after a few steps, both clocks |
| `rtc` | Is a time that is set the time that is counted and read, and does the pulse output recover? | two seconds, started right before the end of a minute, month, leap February, year and century; the full 52 edges |
| `cd_board` | Is a half-loaded driver never run, is every command answered that is not given up, has an upload no holes? | three program bytes, so that one is neither first nor last; five sectors in banks of three, so that one straddles two descriptors; two resets, so that the second hits what the first left |
| `cd_board_vectors` | Does a reset start from the BIOS vectors? (violated) | one byte and one sector |
| `states` | Does what is held in several places agree across resets, saves, loads and restarts? | interrupt delivery, cartridge boards, palette and VRAM port share no state and are saved one after the other, so each is explored with the others at rest. Two values per half of a palette entry; halves of three words with steps longer than a half; six boards with three bytes, among them the two commands of KOF98 and both parities, written to each of the registers that starts something |

Scopes that make a run finite are constraints in the MC modules, each with a
comment that says what software may not do in it.

Fairness.  `CdIrq`: the loop always runs on (weak fairness of its steps); the
LSPC reaches the VBL line and the counter its rate again and again because
every pass adds cycles, hence strong fairness of `Vbl` and `CdTick`.  `CdDrive`:
weak fairness of the timer (its loop runs until its condition fails) and strong
fairness of `AddCycles` (one call per pass).  `CdStream`: weak fairness of the
whole loop; nothing is assumed of any one device.  `Scheduler`: weak fairness of
the whole step, since the frontend calls `geo_exec` for every frame.  `CdBoard`:
weak fairness of the Z80 and of what the ROM does in any case (`Proceed`), which
`InStep` and `FramesEnd` of `Scheduler` justify: neither processor can get ahead
of the other by more than an instruction.  Sending a command, giving one up and
a reset are in no fairness condition, so that a command which is never answered
is a counterexample to `SoundAnswers`: nobody is bound to end the wait.  Sending
again is the ROM's, and needed: a greeting of an earlier program that is still
in the latch lets a command meet a Z80 that masks its NMI.  The other modules
assume none.

## 4. Proofs

Every theorem holds for all values of the constants under the named assumptions
of its module.  Every safety invariant and every action property that a passing
run checks is the statement of a theorem, the three refinements included.

`CdIrq_proofs`: type correctness, `LineFollowsPending`, `PendingIsFlagged`,
`PreciseInterrupts`.  They are not inductive one by one: that the line follows
the pending sources survives an acknowledge only if pending sources are typed,
and precision needs to know that the highest line was the one taken; `IInv` is
their conjunction with `LatchedVblIsMasked`.  From it follow the action
properties: `VectorMatchesSource` (the vector that the CPU takes is that of a
source which was waiting and no longer is), `NoSourceLost` and `VblLatchHolds`, each step
by step.  Assumption: masks are between 0 and 7.

`States_proofs` has the four parts and then their composition.
- `PartsAgree`: `SaveInv` says of the file what `IInv` says of the machine; a save
  copies it there and a load brings it back, all parts at once, while
  `PreciseInterrupts` survives because a load comes between two frames, before
  the next check.
- `SelectedTogether` is inductive by itself once `chosen` marks the first choice
  after a reset.  The random number of the NEO-SMA is never zero (the one value
  whose shift is empty, 0x8000, has its top bit tapped), and NEO-PVC's unpacking
  followed by packing gives every colour back.
- `PaletteCurrent`: that the output table is the conversion of the palette RAM
  needs the RAM of a saved file to be typed, since a load converts it anew.
- `WalkWraps`: the invariant (`PortInv`) keeps the half of the memory beside the
  address, in the machine and in the file; a walk is then so many steps from its
  base modulo the half, for every step, negative ones and ones longer than a
  half among them.
- `StatesInv` is what each part's reset, save and load must leave of the others.
  Assumption: `StatesAssumption` on the sizes of palette and port.

`Lc8951_proofs`: the type invariant, `RecentIntact`, `PatchedOnce`,
`DeciDescribesSector`, `TransferContinues`.  `Ring` says that the i-th sector
kept is i sectors behind WAL, as far around the ring as it may be: what the next
sector overwrites is then behind all of them but the oldest, which is dropped.
`Once` says that no sector that could be read is patched before the bypass is
spent; `ArrayAfter`, that such a sector is the disc's whatever the array held
before.  Assumptions:
sizes fit the buffer, `DbcHighs` is below `Base` (four bits of eight).

`CdComm_proofs`, for every disc (any number of tracks in ascending order), all
rates and all packets.  Of the drive: type correctness, `TrackCacheCoherent`,
`SoundIsAudio`, `SilentUnlessPlaying`, `OnlyAudioIsHeard`.  The cache is not
coherent for a reason local to a step: the invariant says that it is empty or
was filled for some track (`CacheFilled`), and a lemma about the disc's order
turns that into coherence; `OnlyAudioIsHeard` follows from coherence at the
moment the mixer loads a sector.  Of the protocol: `CommInv` adds `TypeOKComm` and
`ResponseIsSealed`, whose checksum is proved for each of the responses the code
builds; `BadPacketIsInert`; and `PlayFollowsToc`: what the table of contents
reports for a track starts that track when Play is given it back.  That one
has a hypothesis: every track starts, pregap included, before 160 minutes,
because the tens of minutes are one nybble on the wire.  Discs end before 100.
Other assumptions: `DiscAssumption`, `TimingAssumption`, `PacketsAssumption`.

`CdStream_proofs`, for every buffer, sector size, number of sectors kept and
length of the track: `NothingStranded`, and `StreamSpec`, the refinement of
`SectorStream`.  The chip's own lemmas are not proved again but used through an
INSTANCE of `Lc8951_proofs`.  `StreamInv` has one part for each of the things a
hand-over rests on: the processor is in the handler with one frame, or waiting
with none (`CpuInv`); chip and controller let the interrupt through when the
decoder runs (`GateInv`); the ring names the sectors right behind the drive and
PTL the newest (`DiscInv`); how late the handler is says which sector it serves,
and an interrupt is pending for what it has not seen, unless software
acknowledged that unseen (`LateInv`); and the registers hold as much of that
sector's address as the handler has written (`AddressInv`).  A transfer is then
of a whole sector, later than the one before.  Assumptions: `LateAssumption`,
`EvenAssumption`, and `ChipAssumption` on the sizes of header and data.

`Scheduler_proofs`, for every geometry of a frame and costs up to a bound:
`InStep`, `SamplesFit`, `BeamInStep`, `OneVblPerFrame`.  `SamplesPaid` ties the
samples in the buffer to the cycles the YM2610 was given, which `InStep` bounds
by those of the frame; `BufferAssumption` is then arithmetic (the real machine
makes about 941 samples a frame for room of 1024).  And `TimerSpec`, the
refinement of `IntervalTimer`, for every range of the counter and both clocks:
`Reached` says what the counter is after any number of pixel clocks, by one
remainder; `CountdownReaches` proves the loop equal to it, and `CountedReaches`
the subtraction in bulk; `ReachedExact` is the step from pixel clocks with a
fraction to cycles; and `WriteIs` the register writes.  What the loop computes
is induction over data; it is done here on the set of the numbers for which the
claim holds (`Inductive`, from the well-foundedness of the natural numbers),
since the library's induction theorem cannot be used.

`CdBoard_proofs`: `NeverTorn` and `UploadInOrder`.  The first follows the bus:
sound RAM is written only behind the request flag, the flag implies the bus, and
the bus is returned only with a whole program, by the ROM or by a reset.  The
second follows the fill: `UploadInv` says how much of the descriptor's window has
been filled where the ROM stands, a bank's end and a reset in the middle
included.  Assumption: `SizeAssumption`.

`Rtc_proofs`: `SnapshotShifts`, `PulseCatchesUp`, `SetArrives`, and `ClockSpec`, the
refinement of `Calendar`.  What was copied when the time was read is in the
register or already out.  In the other direction, `WordInv` sees the data register
and the command register as one of 52 bits, which ends in the bits of the word
sent so far; after the last of them the command is the word's, and `DecodedBack`
says that unpacking the register gives back the time that was packed.  That the
day after each day is the calendar's is arithmetic on the days of a year and of
a century (`DayAfter`, `SecondAfter`).  The interval is never below the shortest
of the table.  Assumptions: `TimeAssumption` (section 2), `CostAssumption`,
`ProgramAssumption`.

Only model-checked.
- Liveness: `SpeedHackWakes`, `PeriodsRecur`, `SectorsArrive`, `SoundAnswers`,
  `FramesEnd`, `WatchdogBites`.  They rest on fairness and so on ENABLED, which is
  out of the prover's reach.
- The three statements of section 5, each of which is false of the code.

## 5. Findings

Three runs fail, each on a statement of the repository.

- `cd_irq_gate_doc`: the comment at `geo_cd.c:157` that both CD sources need
  FF0181; the decoder source does not.
- `cd_drive_timing`: the sector rate at `geo_cd.c:1746`, when the drive leaves
  the idle rate with its counter run up: one call of `geo_cd_tick` decodes two.
- `cd_board_vectors`: "Vector table MUST be set to BIOS before pulsing reset"
  (`geo_m68k.c:1281`); a CD system reads another variable, which is set later.

## 6. Further observations

Seen while translating; the modules do what the code does, and no run has them
for its subject.

Saved states and resets.

- `m68ki_cpu.stopped` (`m68kcpu.h:894`) is in no state: one that was saved in
  STOP goes on behind it when loaded over a running machine.
- `geo_lspc_state_load` sets `lspc.shadow` (`geo_lspc.c:1060`) but not `palette`,
  the pointer to the table that is drawn (`geo_lspc.c:508-511`).
- `sma_prn` is not saved; cartridge RAM is saved for Brezzasoft boards only
  (`geo.c:567`, `620`), though NEO-PVC and KOF10th keep registers there; KOF98's
  overlay is made again for two commands only (`geo_m68k.c:508-519`), so that a
  state from before the first leaves it on.
- `geo_lspc_init` clears the VRAM address but not `vrambank` (`geo_lspc.c:515`):
  a write before the next address may go to the upper half.
- `geo_z80_reset` takes the M ROM by the system (`geo_z80.c:242`), while
  `reg_crtfix` and the fix layer stay: on an MVS reset with the cartridge
  selected they differ until the next choice.

Video.

- `geo_lspc_palram_wr08` halves the address at `geo_lspc.c:414` before it tests
  its low bit: the entry, and not the byte, decides the half.
- With the divider off, an odd cycle of each instruction is lost for clock and
  beam (`geo.c:758`); `BeamInStep` and `OneVblPerFrame` are of the base clock.

CD.

- `geo_lc8951_sector_decoded` ignores the result of the read
  (`geo_lc8951.c:93`) and announces CRCOK for what the stack held.  The bypass
  patches that array itself (`geo_lc8951.c:70`): a sector that cannot be read,
  decoded behind the protected one, is stored with a second patched byte; and
  after a chip reset, one that finds the protected sector unpatched in the array
  uses the bypass up before the protected sector is read.  `PatchedOnce` is of
  the sectors that could be read.
- PTL is read in two bytes (`geo_lc8951.c:148`): a period in between gives an
  address that no sector has.  `CdStream` assumes that software is faster.
- Crossing from a data into an audio track sets `cdda_playing` and leaves
  `cdda_audio_lba` where it was (`geo_cd.c:1791`).
- A DMA of length 0, or one whose DTRG was not written, leaves the engine busy
  or raises no DTEI (`geo_cd.c:789`).
- A scan reports PLAY and does not move (`geo_cd.c:580`).

Clock.

- "Time Set & Counter Hold" (`geo_rtc.c:165`) sets the time, but the counter
  runs on.

## 7. Not modelled

- The vendored cores: the Musashi 68K (its instructions alone are about 37000
  of the 69520 lines), the Z80, the YM2610 and the libraries.  Of the 68K the
  interrupt, STOP and reset parts are in `CdIrq`, of the Z80 its reset and NMI
  in `CdBoard`.  They are why most lines of the repository are in no map: its
  own code is about 12600 lines, of which half is data transformation.
- Sprite and fix rendering, the mixing arithmetic, RAM copies and fills of the
  DMA engine: straight-line data, better tested than modelled.
- Bank tables of NEO-SMA and the boards CT0, linkable, MSLUGX, MS5PLUS, CTHD2003
  and Brezzasoft: each decodes an address by a table or a constant.
- The memory card, NVRAM, file access, parsing of cue sheets and CHD metadata,
  and the frontend's options, input and output.

## 8. Plan

1. The bank tables of NEO-SMA and the boards that keep a state of their own, with
   the theorem that a bank stays within the ROM.
2. The YM2610 timers against the catch-up loop, and the Z80's bank windows.

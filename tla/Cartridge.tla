------------------------------ MODULE Cartridge ------------------------------
(* The cartridge side of the 68K's memory map (geo_m68k.c): which bank of     *)
(* program ROM is in the window, the chips on some boards that answer there,  *)
(* and the choice between cartridge and board ROMs that the Z80 and the LSPC  *)
(* hold a copy of each.  Resets, save states and a restart of the program     *)
(* come between any two steps.                                                *)
EXTENDS Integers

CONSTANTS
  Boards,       \* among those named below
  Systems,      \* "aes", "mvs"
  Bytes,        \* bytes that software writes
  Registers,    \* bound: where in the RAM it writes
  BankMask,     \* banksw_mask
  NoCart

ASSUME CartridgeAssumption ==
  /\ Bytes \subseteq 0 .. 255
  /\ Registers \subseteq 0 .. 31
  /\ BankMask \in Nat

Meg == 1048576
AddressSpace == 16777216

Pvc == {"pvc", "kf2k3bla"}

VARIABLES
  system, board,
  banksw_addr,
  protreg,             \* kof10th: what the fixed bank is offset by
  cartreg, overlay,    \* kof98: last command, and whether ROM is patched
  prn,                 \* sma
  ram,                 \* cartridge RAM from 0x1fe0, the registers in it
  dynfix, extram,      \* kof10th: what was written last to each
  crtfix, mrom, fix,   \* 1: cartridge, 0: board
  cartSaved

(* Ghost: a choice has been made since the machine was reset. *)
VARIABLE chosen

switched == <<banksw_addr, protreg>>
chips == <<cartreg, overlay, prn, ram, dynfix, extram>>
selection == <<crtfix, mrom, fix, chosen>>
cartVars == <<system, board, switched, chips, selection, cartSaved>>

Seed == 9029    \* 0x2345

(* The system whose M ROM is the cartridge's from the start. *)
FromCart(s) == IF s = "aes" THEN 1 ELSE 0

(* Loading a game of more than a megabyte, with the LSPC set to the           *)
(* cartridge's characters (geo_neo.c), then geo_reset.                        *)
Start(s, b) ==
  /\ system' = s /\ board' = b
  /\ banksw_addr' = Meg /\ protreg' = 0
  /\ cartreg' = 0 /\ overlay' = FALSE /\ prn' = Seed
  /\ ram' = [i \in 0 .. 31 |-> 0] /\ dynfix' = 0 /\ extram' = 0
  /\ crtfix' = FromCart(s)
  /\ mrom' = FromCart(s)
  /\ fix' = 1 /\ chosen' = FALSE

CartInit ==
  /\ system \in Systems /\ board \in Boards
  /\ banksw_addr = Meg /\ protreg = 0
  /\ cartreg = 0 /\ overlay = FALSE /\ prn = Seed
  /\ ram = [i \in 0 .. 31 |-> 0] /\ dynfix = 0 /\ extram = 0
  /\ crtfix = FromCart(system)
  /\ mrom = FromCart(system)
  /\ fix = 1 /\ chosen = FALSE
  /\ cartSaved = NoCart

-----------------------------------------------------------------------------
(* The default handlers, which KOF98 keeps for bytes; its handler of 16-bit    *)
(* writes trims the address and not the bank.                                  *)
Bank(d) == (d % (BankMask + 1)) * Meg + Meg
BankKof98(d) == (d * Meg + Meg) % AddressSpace

SwitchBank(d) ==
  /\ board \in {"default", "kof98"}
  /\ banksw_addr' = Bank(d)
  /\ UNCHANGED <<system, board, protreg, chips, selection, cartSaved>>

SwitchBankKof98(d) ==
  /\ board = "kof98"
  /\ banksw_addr' = BankKof98(d)
  /\ UNCHANGED <<system, board, protreg, chips, selection, cartSaved>>

(* NEO-SMA: a linear feedback shift register of 16 bits, stepped by each read *)
(* (geo_m68k_prn_read).  Its taps are SMATAP, 0x98ec.                         *)
Parity(v) ==
  (v \div 4 + v \div 8 + v \div 32 + v \div 64 + v \div 128 + v \div 2048
     + v \div 4096 + v \div 32768) % 2

NextPrn(v) == ((2 * v) % 65536) + Parity(v)

ReadPrn ==
  /\ board = "sma"
  /\ prn' = NextPrn(prn)
  /\ UNCHANGED <<system, board, switched, cartreg, overlay, ram, dynfix,
                 extram, selection, cartSaved>>

(* KOF98: a command patches the header of the fixed program ROM or takes the  *)
(* patch back, others do nothing.                                             *)
Patched(c) == IF c = 144 THEN TRUE ELSE IF c = 240 THEN FALSE ELSE overlay

WriteOverlay(c) ==
  /\ board = "kof98"
  /\ cartreg' = c /\ overlay' = Patched(c)
  /\ UNCHANGED <<system, board, switched, prn, ram, dynfix, extram, selection,
                 cartSaved>>

-----------------------------------------------------------------------------
(* NEO-PVC: a colour is written to two bytes and comes out of four, and the   *)
(* other way round.                                                           *)

Unpacked(lo, hi) ==
  [b |-> ((hi \div 16) % 2) + 2 * (lo % 16),
   g |-> ((hi \div 32) % 2) + 2 * (lo \div 16),
   r |-> ((hi \div 64) % 2) + 2 * (hi % 16),
   d |-> hi \div 128]

Packed(c) ==
  LET b == c.b % 32    g == c.g % 32    r == c.r % 32    d == c.d % 2
  IN [lo |-> b \div 2 + 16 * (g \div 2),
      hi |-> r \div 2 + 16 * (b % 2) + 32 * (g % 2) + 64 * (r % 2) + 128 * d]

AfterUnpack(m) ==
  LET c == Unpacked(m[0], m[1])
  IN [m EXCEPT ![2] = c.b, ![3] = c.g, ![4] = c.r, ![5] = c.d]

AfterPack(m) ==
  LET p == Packed([b |-> m[8], g |-> m[9], r |-> m[10], d |-> m[11]])
  IN [m EXCEPT ![12] = p.lo, ![13] = p.hi]

(* The bank is taken from the bytes before these are trimmed. *)
BankAddress(m, low) ==
  (m[19] * 65536 + m[18] * 256 + m[low] + Meg) % AddressSpace

AfterBank(m) ==
  [m EXCEPT ![16] = 160, ![17] = m[17] - (m[17] % 2), ![19] = m[19] % 128]

AfterBankBla(m) ==
  [m EXCEPT ![16] = m[16] - (m[16] % 2), ![19] = m[19] % 128]

(* What a write to register i starts, when the RAM has become m. *)
Triggered(i, m, word) ==
  /\ ram' = CASE i \in 0 .. 3   -> AfterUnpack(m)
              [] i \in 8 .. 11  -> AfterPack(m)
              [] i \in 16 .. 19 -> IF board = "kf2k3bla" /\ word
                                   THEN AfterBankBla(m) ELSE AfterBank(m)
              [] OTHER          -> m
  /\ banksw_addr' =
       IF i \in 16 .. 19
       THEN BankAddress(m, IF board = "kf2k3bla" /\ word THEN 16 ELSE 17)
       ELSE banksw_addr
  /\ UNCHANGED <<system, board, protreg, cartreg, overlay, prn, dynfix,
                 extram, selection, cartSaved>>

PvcByte(i, v) ==
  /\ board \in Pvc
  /\ Triggered(i, [ram EXCEPT ![i] = v], FALSE)

PvcWord(i, lo, hi) ==
  /\ board \in Pvc
  /\ i % 2 = 0
  /\ Triggered(i, [ram EXCEPT ![i] = lo, ![i + 1] = hi], TRUE)

-----------------------------------------------------------------------------
(* The 10th anniversary board: a bank that does not exist is the first, the   *)
(* fixed bank is the first or the seventh, and a register in cartridge RAM    *)
(* says which memory the writes to the window's low part reach.               *)

KofBank(d) == IF Bank(d) >= 7 * Meg THEN Meg ELSE Bank(d)

(* Bytes are stored at the address itself, words with their low byte first;   *)
(* a word to 0x1ff8 that is there already does not move the fixed bank.       *)
KofByte(i, v) ==
  /\ board = "kof10th"
  /\ ram' = [ram EXCEPT ![i] = v]
  /\ banksw_addr' = IF i = 16 THEN KofBank(v) ELSE banksw_addr
  /\ UNCHANGED <<system, board, protreg, cartreg, overlay, prn, dynfix,
                 extram, selection, cartSaved>>

KofWord(i, lo, hi) ==
  /\ board = "kof10th"
  /\ i % 2 = 0
  /\ ram' = [ram EXCEPT ![i] = lo, ![i + 1] = hi]
  /\ banksw_addr' = IF i = 16 THEN KofBank(lo + 256 * hi) ELSE banksw_addr
  /\ protreg' = IF i # 24 \/ <<ram[24], ram[25]>> = <<lo, hi>> THEN protreg
                ELSE IF lo % 2 = 1 THEN 0 ELSE 7 * Meg
  /\ UNCHANGED <<system, board, cartreg, overlay, prn, dynfix, extram,
                 selection, cartSaved>>

KofLow(v) ==
  /\ board = "kof10th"
  /\ IF ram[28] # 0 THEN dynfix' = v /\ UNCHANGED extram
     ELSE extram' = v /\ UNCHANGED dynfix
  /\ UNCHANGED <<system, board, switched, cartreg, overlay, prn, ram,
                 selection, cartSaved>>

-----------------------------------------------------------------------------
(* REG_CRTFIX (1) and REG_BRDFIX (0): the 68K's register, the Z80's program   *)
(* ROM and the LSPC's characters.                                             *)
Select(c) ==
  /\ crtfix' = c /\ mrom' = c /\ fix' = c /\ chosen' = TRUE

WriteFix(c) ==
  /\ Select(c)
  /\ UNCHANGED <<system, board, switched, chips, cartSaved>>

(* geo_reset: the 68K's part of it, then the Z80's, which takes its ROM by    *)
(* the system.                                                                *)
ResetCart ==
  /\ banksw_addr' = Meg /\ prn' = Seed
  /\ mrom' = FromCart(system)
  /\ chosen' = FALSE
  /\ UNCHANGED <<system, board, protreg, cartreg, overlay, ram, dynfix, extram,
                 crtfix, fix, cartSaved>>

(* What geo_state_save_raw writes.  Not among it are overlay, prn and, on     *)
(* these boards, ram.                                                         *)
CartMachine ==
  [system |-> system, banksw_addr |-> banksw_addr, protreg |-> protreg,
   cartreg |-> cartreg, dynfix |-> dynfix, extram |-> extram,
   crtfix |-> crtfix]

SaveCart ==
  /\ cartSaved' = CartMachine
  /\ UNCHANGED <<system, board, switched, chips, selection>>

LoadFields ==
  /\ banksw_addr' = cartSaved.banksw_addr /\ protreg' = cartSaved.protreg
  /\ cartreg' = cartSaved.cartreg
  /\ overlay' = IF board = "kof98" THEN Patched(cartSaved.cartreg) ELSE overlay
  /\ IF board = "kof10th"
     THEN dynfix' = cartSaved.dynfix /\ extram' = cartSaved.extram
     ELSE UNCHANGED <<dynfix, extram>>
  /\ UNCHANGED <<system, board, prn, ram, cartSaved>>

\* Slip: the register comes back without the write that passes it on.
LoadRegisters ==
  /\ cartSaved # NoCart /\ cartSaved.system = system
  /\ LoadFields
  /\ crtfix' = cartSaved.crtfix
  /\ UNCHANGED <<mrom, fix, chosen>>

(* geo_state_load_raw refuses a file of another system; then, in              *)
(* geo_m68k_state_load, what others hold is set by writing the register.      *)
LoadCart ==
  /\ cartSaved # NoCart /\ cartSaved.system = system
  /\ LoadFields
  /\ Select(cartSaved.crtfix)

(* The program is started again, maybe as another system. *)
RestartCart ==
  /\ \E s \in Systems : Start(s, board)
  /\ UNCHANGED cartSaved

CartNext ==
  \/ \E d \in Bytes : SwitchBank(d) \/ SwitchBankKof98(d)
  \/ \E d \in Bytes : WriteOverlay(d) \/ KofLow(d)
  \/ ReadPrn
  \/ \E i \in Registers, v \in Bytes : PvcByte(i, v) \/ KofByte(i, v)
  \/ \E i \in Registers, lo, hi \in Bytes :
       PvcWord(i, lo, hi) \/ KofWord(i, lo, hi)
  \/ \E c \in {0, 1} : WriteFix(c)
  \/ ResetCart \/ SaveCart \/ LoadCart \/ RestartCart

CartSpec == CartInit /\ [][CartNext]_cartVars

-----------------------------------------------------------------------------
(* Properties. *)

(* Three components hold which ROMs are in use, one of them is in the file of *)
(* a saved state: they agree from the first choice after a reset on, also     *)
(* after a state has been loaded over a machine that had chosen otherwise.    *)
SelectedTogether == chosen => mrom = crtfix /\ fix = crtfix

(* NEO-PVC: "No data is lost packing or unpacking." *)
Lossless ==
  \A lo, hi \in 0 .. 255 : Packed(Unpacked(lo, hi)) = [lo |-> lo, hi |-> hi]

(* The generator of the NEO-SMA never stops: zero is the one value from which *)
(* the register would not move.                                               *)
PrnAlive == prn \in Nat /\ 0 < prn /\ prn < 65536
=============================================================================

-------------------------------- MODULE States --------------------------------
(* What the machine holds in more than one place, across resets, saved and    *)
(* loaded states and restarts of the program: interrupt delivery, the         *)
(* cartridge board, the palette and the VRAM port.  These four share no state *)
(* and meet in geo_reset, geo_state_save_raw and geo_state_load_raw only,     *)
(* which call one after the other; so `part', chosen at the start, is the one *)
(* that is explored while the other three rest in their initial states.       *)
EXTENDS SaveState, Cartridge

CONSTANTS
  Entries, Halves,         \* Palette
  Half, Steps, MaxWalk     \* VramPort

ASSUME StatesAssumption ==
  /\ Entries \subseteq Nat
  /\ 0 \in Halves
  /\ Half \in Nat \ {0}
  /\ Steps \subseteq Int

VARIABLES
  palram, output, lut, palbank, shadow, palette, palSaved,
  vramaddr, vrambank, vrammod, portSaved, base, walk, addressed,
  part

P == INSTANCE Palette WITH saved <- palSaved
V == INSTANCE VramPort WITH saved <- portSaved

irqs == <<vars, saved>>
pal  == <<palram, output, lut, palbank, shadow, palette, palSaved>>
port == <<vramaddr, vrambank, vrammod, portSaved, base, walk, addressed>>
Parts == {"irq", "cart", "palette", "port"}

InitStates ==
  /\ part \in Parts
  /\ SaveInit /\ CartInit /\ P!Init /\ V!Init
  /\ part # "cart" => system = "aes" /\ board = "default"
  /\ part # "palette" => lut = "raw"

NextStates ==
  /\ UNCHANGED part
  /\ \/ part = "irq" /\ SaveNext /\ UNCHANGED <<cartVars, pal, port>>
     \/ part = "cart" /\ CartNext /\ UNCHANGED <<irqs, pal, port>>
     \/ part = "palette" /\ P!Next /\ UNCHANGED <<irqs, cartVars, port>>
     \/ part = "port" /\ V!Next /\ UNCHANGED <<irqs, cartVars, pal>>

statesVars == <<irqs, cartVars, pal, port, part>>

SpecStates == InitStates /\ [][NextStates]_statesVars

-----------------------------------------------------------------------------
(* Every colour the picture is drawn from is the one that palette RAM and the *)
(* user's tables give (geo_lspc_palram_wr16, geo_lspc_set_palette, loading).  *)
PaletteCurrent == P!PaletteCurrent

(* The VRAM port stands where the address written last and the steps taken    *)
(* since put it, within the half of that address (geo_lspc_vram_wr).          *)
WalkWraps == V!WalkWraps
=============================================================================

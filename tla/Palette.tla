------------------------------- MODULE Palette -------------------------------
(* The palette of the LSPC (geo_lspc.c).  Software writes 16-bit entries of   *)
(* palette RAM, by words or by bytes, in one of two banks; the picture is     *)
(* drawn from two tables of output colours, normal and shadowed, that are     *)
(* computed from the RAM and from the lookup tables the user has chosen.      *)
EXTENDS Integers

CONSTANTS
  Entries,     \* entries of a bank, from 0
  Halves,      \* values of half an entry, 0 among them
  NoSave

Banks == {0, 1}
Cells == Banks \X Entries   \* an entry of a bank
Luts == {"resnet", "raw"}
Addresses == {2 * e : e \in Entries} \cup {2 * e + 1 : e \in Entries}

VARIABLES
  palram,      \* by cell: [hi, lo]
  output,      \* by cell: the tables and word it was computed from
  lut,         \* lut_normal and lut_shadow
  palbank, shadow,
  palette,     \* the table the picture is drawn from
  saved        \* the file of a saved state

vars == <<palram, output, lut, palbank, shadow, palette, saved>>

Word == [hi : Halves, lo : Halves]

(* geo_lspc_palconv. *)
Converted(l, w) == [lut |-> l, word |-> w]

Black == [hi |-> 0, lo |-> 0]

(* The frontend reads its options, and with them the tables, before it runs. *)
Init ==
  /\ palram = [c \in Cells |-> Black]
  /\ lut \in Luts
  /\ output = [c \in Cells |-> Converted(lut, Black)]
  /\ palbank = 0 /\ shadow = 0 /\ palette = 0
  /\ saved = NoSave

-----------------------------------------------------------------------------
(* An entry is stored and converted in the bank that is active. *)
Store(e, w) ==
  /\ palram' = [palram EXCEPT ![<<palbank, e>>] = w]
  /\ output' = [output EXCEPT ![<<palbank, e>>] = Converted(lut, w)]
  /\ UNCHANGED <<lut, palbank, shadow, palette, saved>>

(* geo_lspc_palram_wr16. *)
WriteWord(e, w) == Store(e, w)

(* geo_lspc_palram_wr08: the address is halved before its low bit chooses the *)
(* half, so that the entry decides and not the byte.                          *)
WriteByte(a, v) ==
  LET e == a \div 2
  IN IF e % 2 = 1 THEN Store(e, [palram[<<palbank, e>>] EXCEPT !.lo = v])
     ELSE Store(e, [palram[<<palbank, e>>] EXCEPT !.hi = v])

(* geo_lspc_palram_bank. *)
SelectBank(b) ==
  /\ palbank' = b
  /\ UNCHANGED <<palram, output, lut, shadow, palette, saved>>

(* geo_lspc_shadow_wr. *)
WriteShadow(s) ==
  /\ shadow' = s /\ palette' = s
  /\ UNCHANGED <<palram, output, lut, palbank, saved>>

Recomputed(l, ram) == [c \in Cells |-> Converted(l, ram[c])]

\* Slip: the tables are new, the colours computed from them are not.
SetPaletteTables(l) ==
  /\ lut' = l
  /\ UNCHANGED <<palram, output, palbank, shadow, palette, saved>>

(* geo_lspc_set_palette: the user changes the option, between two frames. *)
SetPalette(l) ==
  /\ lut' = l
  /\ output' = Recomputed(l, palram)
  /\ UNCHANGED <<palram, palbank, shadow, palette, saved>>

(* geo_lspc_init at each reset: palette RAM keeps its contents. *)
Reset ==
  /\ palbank' = 0 /\ shadow' = 0 /\ palette' = 0
  /\ UNCHANGED <<palram, output, lut, saved>>

(* geo_lspc_state_save. *)
Save ==
  /\ saved' = [palram |-> palram, palbank |-> palbank, shadow |-> shadow]
  /\ UNCHANGED <<palram, output, lut, palbank, shadow, palette>>

(* geo_lspc_state_load, over whatever was running, with whatever option: the  *)
(* output colours are computed again, and the table in use stays in use.      *)
Load ==
  /\ saved # NoSave
  /\ palram' = saved.palram /\ palbank' = saved.palbank
  /\ shadow' = saved.shadow
  /\ output' = Recomputed(lut, saved.palram)
  /\ UNCHANGED <<lut, palette, saved>>

(* The program ends and is started again; the file stays. *)
Restart ==
  /\ palram' = [c \in Cells |-> Black]
  /\ lut' \in Luts
  /\ output' = Recomputed(lut', palram')
  /\ palbank' = 0 /\ shadow' = 0 /\ palette' = 0
  /\ UNCHANGED saved

Next ==
  \/ \E e \in Entries, w \in Word : WriteWord(e, w)
  \/ \E a \in Addresses, v \in Halves : WriteByte(a, v)
  \/ \E b \in Banks : SelectBank(b)
  \/ \E s \in {0, 1} : WriteShadow(s)
  \/ \E l \in Luts : SetPalette(l)
  \/ Reset \/ Save \/ Load \/ Restart

Spec == Init /\ [][Next]_vars

-----------------------------------------------------------------------------
(* Properties. *)

(* A colour on the screen is never stale: it is what palette RAM and the      *)
(* user's choice of tables give now, in both banks, though one of them is not *)
(* active while it changes, by bytes or words, across resets, changes of the  *)
(* option and states loaded under another option than they were saved with.   *)
PaletteCurrent == \A c \in Cells : output[c] = Converted(lut, palram[c])

=============================================================================

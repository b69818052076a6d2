------------------------------ MODULE SaveState ------------------------------
(* Save states of the CD system (geo_state_save_raw, geo_state_load_raw) for  *)
(* the parts that deliver interrupts.  The frontend saves and loads between   *)
(* two calls of geo_exec, keeps the file when the program ends, and may load  *)
(* it into any later run of it.  The file is written and read field by field, *)
(* each field by the component that owns it.                                  *)
EXTENDS CdIrq

CONSTANT NoSave

VARIABLE saved   \* the file, or NoSave

(* What geo_state_save_raw writes: cd_pending_irq, the masks and the VBL      *)
(* latch by geo_cd.c, the lines and the status register by geo_m68k.c, which  *)
(* also saves the RAM that holds the stack.  Whether the 68K is stopped is in *)
(* nobody's part.                                                             *)
Machine ==
  [pending |-> pending, irqMask |-> irqMask, irqEnabled |-> irqEnabled,
   gates |-> gates, vblEnabled |-> vblEnabled, vblPending |-> vblPending,
   virq |-> virq, intMask |-> intMask, frames |-> frames]

SaveInit == Init /\ saved = NoSave

(* retro_serialize. *)
Save ==
  /\ turn = "check"
  /\ saved' = Machine
  /\ UNCHANGED vars

LoadCd ==
  /\ pending' = saved.pending /\ irqMask' = saved.irqMask
  /\ irqEnabled' = saved.irqEnabled /\ gates' = saved.gates
  /\ vblEnabled' = saved.vblEnabled /\ vblPending' = saved.vblPending

(* geo_m68k_state_load sets the registers through m68k_set_reg, which checks  *)
(* no interrupt, and leaves the 68K stopped or running as it was.             *)
LoadM68k ==
  /\ virq' = saved.virq /\ intMask' = saved.intMask /\ frames' = saved.frames
  /\ UNCHANGED stopped

\* Slip: the lines are taken to follow from the registers.
LoadKeepsLines ==
  /\ turn = "check" /\ saved # NoSave
  /\ LoadCd
  /\ intMask' = saved.intMask /\ frames' = saved.frames
  /\ UNCHANGED <<turn, virq, stopped, saved>>

(* retro_unserialize. *)
Load ==
  /\ turn = "check" /\ saved # NoSave
  /\ LoadCd
  /\ LoadM68k
  /\ UNCHANGED <<turn, saved>>

(* The program ends between two frames and is started again: geo_reset(1). *)
Restart ==
  /\ turn = "check"
  /\ Reset(TRUE)
  /\ UNCHANGED <<turn, saved>>

SaveNext ==
  \/ Next /\ UNCHANGED saved
  \/ Save
  \/ Load
  \/ Restart

SaveSpec == SaveInit /\ [][SaveNext]_<<vars, saved>>
-----------------------------------------------------------------------------
(* Properties. *)

(* What different components hold of one interrupt agrees though each comes   *)
(* back from its own part of the file, over whatever the running machine      *)
(* held: the 68K's level 2 line and geo_cd.c's pending sources, these and     *)
(* FF000F, the VBL latch and its mask.                                        *)
PartsAgree ==
  /\ LineFollowsPending
  /\ PendingIsFlagged
  /\ LatchedVblIsMasked
=============================================================================

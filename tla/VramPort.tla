------------------------------- MODULE VramPort -------------------------------
(* The port through which software reaches video RAM (geo_lspc.c): an         *)
(* address, a signed step that is added after each write, and the half of the *)
(* memory in which the address stays.                                         *)
EXTENDS Integers

CONSTANTS
  Half,        \* addresses of a half: 0x8000
  Steps,       \* values of REG_VRAMMOD
  NoSave,
  MaxWalk      \* bound: how far the writes may take the address, unwrapped

VARIABLES
  vramaddr, vrambank, vrammod,
  saved

(* Ghosts: the address that software wrote last and the steps since, and      *)
(* whether it has written one since the machine started.                      *)
VARIABLES base, walk, addressed

port == <<vramaddr, vrambank, vrammod>>
ghosts == <<base, walk, addressed>>
vars == <<port, saved, ghosts>>

HalfOf(a) == (a \div Half) * Half

Init ==
  /\ vramaddr = 0 /\ vrambank = 0 /\ vrammod = 0
  /\ saved = NoSave
  /\ base = 0 /\ walk = 0 /\ addressed = FALSE

(* geo_lspc_vramaddr_wr. *)
WriteAddress(a) ==
  /\ vramaddr' = a /\ vrambank' = HalfOf(a)
  /\ base' = a /\ walk' = 0 /\ addressed' = TRUE
  /\ UNCHANGED <<vrammod, saved>>

(* geo_lspc_vrammod_wr. *)
WriteStep(m) ==
  /\ vrammod' = m
  /\ UNCHANGED <<vramaddr, vrambank, saved, ghosts>>

\* Slip: the whole address wraps, and runs into the other half.
AfterWriteWhole == (vramaddr + vrammod) % (2 * Half)

(* The step is taken within the half. *)
AfterWrite == ((vramaddr + vrammod) % Half) + vrambank

(* geo_lspc_vram_wr.  The word itself, and that there is no memory beyond     *)
(* 0x87ff, change nothing of the port. *)
Write ==
  /\ walk + vrammod \in -MaxWalk .. MaxWalk
  /\ vramaddr' = AfterWrite
  /\ walk' = walk + vrammod
  /\ UNCHANGED <<vrambank, vrammod, saved, base, addressed>>

(* geo_lspc_init at a reset: vrambank is not mentioned. *)
Reset ==
  /\ vramaddr' = 0 /\ vrammod' = 0
  /\ base' = 0 /\ walk' = 0 /\ addressed' = FALSE
  /\ UNCHANGED <<vrambank, saved>>

(* What geo_lspc_state_save writes of the port; the ghosts go with it. *)
Port ==
  [vramaddr |-> vramaddr, vrambank |-> vrambank, vrammod |-> vrammod,
   base |-> base, walk |-> walk, addressed |-> addressed]

Save ==
  /\ saved' = Port
  /\ UNCHANGED <<port, ghosts>>

(* geo_lspc_state_load. *)
Load ==
  /\ saved # NoSave
  /\ vramaddr' = saved.vramaddr /\ vrambank' = saved.vrambank
  /\ vrammod' = saved.vrammod
  /\ base' = saved.base /\ walk' = saved.walk /\ addressed' = saved.addressed
  /\ UNCHANGED saved

Next ==
  \/ \E a \in 0 .. 2 * Half - 1 : WriteAddress(a)
  \/ \E m \in Steps : WriteStep(m)
  \/ Write \/ Reset \/ Save \/ Load

Spec == Init /\ [][Next]_vars

-----------------------------------------------------------------------------
(* Properties. *)

(* A block of writes goes where software sent it: once an address has been    *)
(* written, the port stands as many steps from it as were taken, with either  *)
(* sign and changes of the step on the way, wrapped inside the half of that   *)
(* address, also after a state has been loaded in the middle of the block.    *)
WalkWraps ==
  addressed => vramaddr = HalfOf(base) + ((base + walk) % Half)
=============================================================================

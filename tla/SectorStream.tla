---------------------------- MODULE SectorStream ----------------------------
(***************************************************************************)
(* What the CD-ROM subsystem promises to software that reads a data track: *)
(* the drive moves on whether or not anybody listens, and what software is *)
(* handed is a whole sector, later on the disc than the one before, and no *)
(* more than Window sectors behind the drive.                              *)
(***************************************************************************)
EXTENDS Naturals

CONSTANTS
  DataSize,  \* bytes of data in a sector
  Window     \* how far behind the drive a sector can still be had

VARIABLES
  next,  \* the sector that the drive decodes next
  got,   \* software has been handed nothing from here on
  out    \* the data it was handed last: from which sector, and where in it

vars == <<next, got, out>>

Data(lba) == [i \in 1..DataSize |-> [src |-> lba, at |-> i]]

Init ==
  /\ next \in Nat
  /\ got <= next
  /\ out = <<>>

Decode ==
  /\ next' = next + 1
  /\ UNCHANGED <<got, out>>

Deliver ==
  /\ \E lba \in got..next - 1 :
       /\ next <= lba + Window
       /\ got' = lba + 1
       /\ out' = Data(lba)
  /\ UNCHANGED next

Next == Decode \/ Deliver

Spec == Init /\ [][Next]_vars
=============================================================================

------------------------------ MODULE MCLc8951 ------------------------------
(* A chip of nine bytes, which keeps two sectors of three.  The decoder's   *)
(* half and the transfer's half are explored apart, by a constraint on the  *)
(* steps: their registers are disjoint, and together they are too many.     *)
EXTENDS Lc8951

TransferIdle == dac = 0 /\ dbc = 0 /\ ifctrl = {} /\ ~headHidden
DecoderIdle == recent = <<>> /\ head = Zero /\ wal = SectorSize /\ ~decoding

\* A read that fails leaves the sector before or garbage, not part of the sector.
Unread == sector'.src \in Readable \cup {Garbage}

\* Where the register pointer gets to when software uses WAL, CTRL0 and the
\* chip's reset.
RingRegisters == {1, 8, 9, 10, 11, 15}

\* Software leaves the transfer registers, PTL and DECI alone, and moves WAL only
\* before the first sector.
RingStep ==
  /\ TransferIdle
  /\ UNCHANGED <<dac, dbc, ifctrl, headHidden>>
  /\ head = Zero => ptl = 0
  /\ wal' # wal /\ recent' = <<>> => head = Zero
  /\ ptl' # ptl => recent' # recent
  /\ regptr' \in RingRegisters
  /\ head' # Zero => "DECI" \in ifstat'
  /\ Unread

\* The decoder stays off.
TransferStep == DecoderIdle /\ DecoderIdle'

Scope == RingStep \/ TransferStep
=============================================================================

------------------------------ MODULE MCStates ------------------------------
(* Bounds for checking States.                                                *)
EXTENDS States, FiniteSets

StepsMC == {-2, 1, 4}

(* Interrupts: software sets the gates up before anything else and never      *)
(* closes them, does not raise the mask by itself, and the timer is off.  A   *)
(* machine is saved once this has been done, and loaded at any time.          *)
MCSrMasks == {0, 7}

Setup == gates = Source /\ irqEnabled

FewStates ==
  /\ turn \in {"timer", "watchdog"} => UNCHANGED virq
  /\ gates' \in {gates, Source, {}}
  /\ gates' = {} => gates = {} \/ turn = "check"
  /\ irqEnabled' \/ ~irqEnabled \/ turn = "check"
  /\ turn = "insn" => intMask' # 7 \/ intMask = 7
  /\ turn = "insn" /\ stopped' => intMask' # 7
  /\ saved' # saved => Setup

Scope == part = "irq" => FewStates

MCBoards == {"default", "sma", "pvc", "kf2k3bla", "kof98", "kof10th"}

(* Boards whose registers are in RAM: software uses those of one kind -       *)
(* unpacking, packing and banks, with what is computed from them; the bank,   *)
(* the fixed bank and the memory behind the window - and leaves the choice of *)
(* the ROMs as it was.  The others have no RAM and make any choice.           *)
Kinds ==
  IF board = "kof10th" THEN {{16}, {24}, {28}}
  ELSE {0 .. 5, 8 .. 13, 16 .. 17, {16, 18, 19}}

OneKind == \E K \in Kinds : \A i \in 0 .. 31 : ram[i] # 0 => i \in K

FewChoices ==
  /\ OneKind
  /\ board \in Pvc \cup {"kof10th"} => crtfix = FromCart(system)
  /\ prn \in {Seed, NextPrn(Seed), NextPrn(NextPrn(Seed))}

(* At most two halves of the palette are not black at a time: enough for the  *)
(* two halves of an entry, two entries, or both banks.                        *)
Lit == {p \in P!Cells \X {"hi", "lo"} : palram[p[1]][p[2]] # 0}
FewLit == Cardinality(Lit) <= 2

Few ==
  CASE part = "cart"    -> FewChoices
    [] part = "palette" -> FewLit
    [] OTHER            -> TRUE
=============================================================================

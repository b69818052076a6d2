------------------------------ MODULE MCCdIrq ------------------------------
(* A small instance of CdIrq: software masks all interrupts or none.       *)
EXTENDS CdIrq

MCSrMasks == {0, 7}
=============================================================================

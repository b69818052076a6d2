----------------------------- MODULE MCCdDrive -----------------------------
(* A disc of a data, an audio and another data track, two sectors each. *)
EXTENDS CdDrive

MCTracks == <<[start |-> 0, audio |-> FALSE],
              [start |-> 2, audio |-> TRUE],
              [start |-> 4, audio |-> FALSE]>>
=============================================================================

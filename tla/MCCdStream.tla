----------------------------- MODULE MCCdStream -----------------------------
(* A buffer of sixteen bytes that keeps three sectors, and a drive that     *)
(* plays far enough for the buffer to wrap twice.                           *)
EXTENDS CdStream
=============================================================================

------------------------------ MODULE MCCdComm ------------------------------
(* Whole packets, nybble by nybble, for a disc of a data and an audio track *)
(* of one sector each, on a drive whose every tick is a sector period.      *)
EXTENDS CdComm

MCTracks == <<[start |-> 0, audio |-> FALSE], [start |-> 1, audio |-> TRUE]>>

\* A command without arguments, and one for the MSF address of an LBA.
Plain(high, low)   == <<high, low, 0, 0, 0, 0, 0, 0, 0>>
To(high, lba)      == <<high, 0>> \o ToMsf(lba + Pregap) \o <<0>>
Ask(sub, track)    == <<2, 0, 0, sub, 0, track, 0, 0, 0>>

\* Every command of cd_comm_process_command, and one that it does not know.
MCPackets ==
  {Plain(high, 0) : high \in {0, 1, 5, 6, 7, 8, 9}} \cup {Plain(14, 2)}
    \cup {To(3, 0), To(3, 1), To(4, 1)}
    \cup {Ask(sub, 2) : sub \in {0, 2, 5, 6}}
    \cup {<<11, 0, 0, 2, 0, 0, 0, 0, 0>>}

\* Software resets the machine after every command but Play: longer
\* sequences of commands are MCCdDrive's.  It clocks the response, one nybble
\* at most, between two commands and before a resynchronisation only, and
\* clocks a nybble on when that continues one of its packets.  The sector
\* timer runs before the last nybble of a command only, the mixer not at all.
Scope ==
  /\ cmdNybble = 0 /\ cmd' # cmd => cmd[1] = 3 \/ cmd = [i \in 1..10 |-> 0]
  /\ statNybble' # 9 \/ strobe' # 1 =>
       statNybble' \in {9, 0} /\ cmdNybble = 0 /\ UNCHANGED <<driveVars, cmd>>
  /\ cmdNybble' = cmdNybble + 1 => cmd[cmdNybble + 1] \in NextNybbles
  /\ UNCHANGED packetVars => cmdNybble = 9 /\ UNCHANGED <<cddaLba, cddaPos>>
=============================================================================

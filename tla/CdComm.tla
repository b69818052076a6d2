------------------------------- MODULE CdComm -------------------------------
(***************************************************************************)
(* The packet protocol between the BIOS and the CD drive in geo_cd.c.      *)
(* Commands and responses are packets of ten nybbles, the last of which is *)
(* a checksum.  Software writes one nybble at FF0163, reads one at FF0161  *)
(* and clocks the pointers at FF0165; the tenth nybble of a command makes  *)
(* the drive carry it out and rewrite the response.                        *)
(*                                                                         *)
(* A packet is a sequence of ten nybbles: nybbles 2i+1 and 2i+2 are the    *)
(* high and the low half of the source's byte i.                           *)
(***************************************************************************)
EXTENDS CdDrive

CONSTANT Packets  \* bound: the commands that software sends, less checksum

ASSUME PacketsAssumption == Packets \subseteq [1..9 -> 0..15]

VARIABLES
  cmd,         \* cd.cmd
  response,    \* cd.status
  cmdNybble,   \* cd.cmd_nybble
  statNybble,  \* cd.stat_nybble
  strobe       \* cd.strobe

packetVars == <<cmd, response, cmdNybble, statNybble, strobe>>
commVars   == <<driveVars, packetVars>>

Nybble == 0..15
Packet == [1..10 -> Nybble]

(***************************************************************************)
(* Conversions.                                                            *)
(***************************************************************************)

\* cd_comm_checksum over the first nine nybbles.
Checksum(packet) ==
  LET sum == packet[1] + packet[2] + packet[3] + packet[4] + packet[5]
               + packet[6] + packet[7] + packet[8] + packet[9] + 5
  IN 15 - (sum % 16)

\* to_bcd of a byte and from_bcd of two nybbles.
ToBcd(n)          == <<(n \div 10) % 16, n % 10>>
FromBcd(high, low) == 10 * high + low

\* geo_disc_lba_to_msf and to_bcd, and the way back.
ToMsf(sectors) ==
  ToBcd(sectors \div 4500) \o ToBcd((sectors \div 75) % 60) \o ToBcd(sectors % 75)

FromMsf(n) ==
  4500 * FromBcd(n[1], n[2]) + 75 * FromBcd(n[3], n[4]) + FromBcd(n[5], n[6])

StatusCode(status) ==
  CASE status = "IDLE"  -> 0
    [] status = "PLAY"  -> 1
    [] status = "PAUSE" -> 4
    [] status = "STOP"  -> 9
    [] status = "END"   -> 12

SeekCode == 2
ScanCode == 3

(***************************************************************************)
(* Responses.                                                              *)
(***************************************************************************)

\* cd_comm_build_response.
Seal(nybbles) == Append(nybbles, Checksum(nybbles))

\* Byte 0, bytes 1 to 3, and the high half of byte 4.
Respond(code, low, body, last) ==
  response' = Seal(<<code, low>> \o body \o <<last>>)

Blank == <<0, 0, 0, 0, 0, 0>>

RespondStatus == Respond(StatusCode(driveStatus'), 0, Blank, 0)

\* Slip: the checksum of the packet before stays.
RespondCodeUnsealed(code, low) ==
  response' = [response EXCEPT ![1] = code, ![2] = low]

\* The commands that rewrite byte 0 only.
RespondCode(code, low) ==
  Respond(code, low, SubSeq(response, 3, 8), response[9])

TypeFlag(isAudio) == IF isAudio THEN 0 ELSE 4

\* The index reported on a data track, from the position without pre-gap.
DataIndex ==
  LET index == ((playLba \div 75) + 4) \div 4 IN IF index > 99 THEN 99 ELSE index

RespondQuery(sub) ==
  LET here  == FindTrack(playLba)
      flag  == TypeFlag(IsAudio(here))
      asked == FromBcd(cmd[5], cmd[6])
      start == ToMsf(TrackStart(asked) + Pregap)
      code  == StatusCode(driveStatus')
  IN CASE sub \in {0, 1} -> Respond(code, sub, ToMsf(playLba + Pregap), flag)
       [] sub = 2 -> Respond(code, sub,
                             ToBcd(here) \o
                             ToBcd(IF IsAudio(here) THEN 1 ELSE DataIndex) \o <<0, 0>>,
                             flag)
       [] sub = 3 -> Respond(code, sub, ToMsf(Leadout + Pregap), 0)
       [] sub = 4 -> Respond(code, sub, ToBcd(1) \o ToBcd(Len(Tracks)) \o <<0, 0>>, 0)
       [] sub = 5 -> Respond(code, sub,
                             [start EXCEPT ![5] = IF IsAudio(asked) THEN @ ELSE @ + 8],
                             cmd[6])
       [] sub = 6 -> Respond(code, sub, Blank, flag)
       [] sub = 7 -> Respond(code, sub, <<0, 2, 0, 0, 0, 0>>, 0)
       [] OTHER   -> RespondStatus

(***************************************************************************)
(* cd_comm_process_command.                                                *)
(***************************************************************************)

\* Slip: the checksum is not looked at.
AcceptsAnything(packet) == TRUE

Valid(packet) == packet[10] = Checksum(packet)

Opcode(packet)  == 16 * packet[1] + packet[2]
Address(packet) == FromMsf(SubSeq(packet, 3, 8))

KnownOpcodes == {0, 16, 32, 48, 64, 80, 96, 112, 128, 144, 176}

Execute ==
  LET op == Opcode(cmd) IN
  \/ /\ ~Valid(cmd) \/ op \notin KnownOpcodes
     /\ UNCHANGED driveVars
     /\ RespondStatus
  \/ /\ Valid(cmd)
     /\ \/ /\ op = 0
           /\ UNCHANGED driveVars
           /\ RespondCode(StatusCode(driveStatus), response[2])
        \/ op = 16 /\ Stop /\ RespondStatus
        \/ op = 32 /\ Query(cmd[4]) /\ RespondQuery(cmd[4])
        \/ /\ op = 48
           /\ Play(Address(cmd))
           /\ Respond(StatusCode("PLAY"), 2,
                      ToBcd(FindTrack(LbaOf(Address(cmd)))) \o <<0, 0, 0, 0>>, 0)
        \/ op = 64 /\ Seek(Address(cmd)) /\ Respond(SeekCode, 0, Blank, 0)
        \/ op = 80 /\ UNCHANGED driveVars /\ RespondCode(StatusCode(driveStatus), 0)
        \/ op = 96 /\ Pause /\ RespondCode(StatusCode("PAUSE"), 0)
        \/ op = 112 /\ Resume /\ RespondCode(StatusCode(driveStatus'), 0)
        \/ op = 128 /\ ScanForward /\ RespondCode(ScanCode, 0)
        \/ op = 144 /\ ScanBackward /\ RespondCode(ScanCode, 0)
        \/ /\ op = 176
           /\ MoveToTrack(FromBcd(cmd[3], cmd[4]))
           /\ Respond(StatusCode("PLAY"), 2,
                      ToBcd(FromBcd(cmd[3], cmd[4])) \o <<0, 0, 0, 0>>, 0)

(***************************************************************************)
(* Register accesses.                                                      *)
(***************************************************************************)

\* FF0163: a nybble of the command, at the pointer.
WriteOutput(n) ==
  /\ phase = "run"
  /\ cmd' = [cmd EXCEPT ![cmdNybble + 1] = n]
  /\ UNCHANGED <<driveVars, response, cmdNybble, statNybble, strobe>>

\* Slip: the pointer wraps one nybble late.
ClockCommandLate ==
  /\ phase = "run"
  /\ cmdNybble' = (cmdNybble + 1) % 11
  /\ IF cmdNybble' = 0 THEN Execute ELSE UNCHANGED <<driveVars, response>>
  /\ UNCHANGED <<cmd, statNybble, strobe>>

\* FF0165 = 1: next nybble of the command, or carry it out.
ClockCommand ==
  /\ phase = "run"
  /\ cmdNybble' = (cmdNybble + 1) % 10
  /\ IF cmdNybble' = 0 THEN Execute ELSE UNCHANGED <<driveVars, response>>
  /\ UNCHANGED <<cmd, statNybble, strobe>>

\* FF0165 = 2: next nybble of the response.
ClockResponse ==
  /\ phase = "run"
  /\ statNybble' = (statNybble + 1) % 10
  /\ strobe' = 0
  /\ UNCHANGED <<driveVars, cmd, response, cmdNybble>>

\* FF0165 = 3.
SetStrobe ==
  /\ phase = "run"
  /\ strobe' = 1
  /\ UNCHANGED <<driveVars, cmd, response, cmdNybble, statNybble>>

\* FF0181: the pointers go back to the start of a packet.
ResetPointers ==
  /\ phase = "run"
  /\ cmdNybble' = 0
  /\ statNybble' = 9
  /\ strobe' = 1
  /\ UNCHANGED <<driveVars, cmd, response>>

\* FF0000: the packets are left alone.
WriteDriveReset ==
  /\ phase = "run"
  /\ ResetDrive
  /\ UNCHANGED packetVars

FirstResponse == Seal(<<StatusCode("STOP"), 0>> \o Blank \o <<0>>)

\* geo_cd_reset.
Reset ==
  /\ phase = "run"
  /\ ResetMachine
  /\ cmd' = [i \in 1..10 |-> 0]
  /\ response' = FirstResponse
  /\ cmdNybble' = 0
  /\ statNybble' = 9
  /\ strobe' = 1

Init ==
  /\ InitDrive
  /\ cmd = [i \in 1..10 |-> 0]
  /\ response = FirstResponse
  /\ cmdNybble = 0
  /\ statNybble = 9
  /\ strobe = 1

\* Bound: software writes the next nybble of one of its packets, or, last, a
\* right or a wrong checksum.
NextNybbles ==
  IF cmdNybble = 9
  THEN {Checksum(cmd), (Checksum(cmd) + 1) % 16}
  ELSE {p[cmdNybble + 1] : p \in
          {q \in Packets : \A i \in 1..cmdNybble : q[i] = cmd[i]}}

NextComm ==
  \/ \E n \in NextNybbles : WriteOutput(n)
  \/ ClockCommand
  \/ ClockResponse
  \/ SetStrobe
  \/ ResetPointers
  \/ WriteDriveReset
  \/ Reset
  \/ (Timer \/ ReadCdda) /\ UNCHANGED packetVars

SpecComm == Init /\ [][NextComm]_commVars

(***************************************************************************)
(* Properties.                                                             *)
(***************************************************************************)

TypeOKComm ==
  /\ TypeOK
  /\ cmd \in Packet
  /\ response \in Packet
  /\ cmdNybble \in 0..9
  /\ statNybble \in 0..9
  /\ strobe \in {0, 1}

\* Whatever software sends, and whenever it looks, the response on the wire
\* carries a right checksum: also before the first command, and after those
\* that rewrite only a part of it.
ResponseIsSealed == response[10] = Checksum(response)

Executes == ClockCommand /\ cmdNybble = 9

\* A packet with a wrong checksum leaves the drive, the sound and the track
\* cache alone, and is answered with the plain status.
BadPacketIsInert ==
  [][Executes /\ cmd[10] # Checksum(cmd) =>
       /\ UNCHANGED driveVars
       /\ response'[1] = StatusCode(driveStatus)]_commVars

\* Sending the address that a TOC query gives for a track back in a Play
\* command starts that track, as what it is, from its first sector.
PlayFollowsToc ==
  [][\A track \in TrackNumbers :
       /\ Executes /\ cmd[10] = Checksum(cmd)
       /\ cmd[1] = 3 /\ cmd[2] = 0
       /\ SubSeq(cmd, 3, 8) = ToMsf(TrackStart(track) + Pregap)
       => /\ playLba' = TrackStart(track)
          /\ audio' = IsAudio(track)
          /\ SubSeq(response', 3, 4) = ToBcd(track)]_commVars
=============================================================================

------------------------------ MODULE CdDrive ------------------------------
(***************************************************************************)
(* The CD drive of geo_cd.c: the transport commands of the BIOS, the       *)
(* sector timer of geo_cd_tick, the cached track lookup they share, and    *)
(* the CDDA stream, which the audio mixer pulls at its own pace.           *)
(*                                                                         *)
(* geo_cd_tick adds master cycles to a counter and then loops over the     *)
(* sector periods that have gone by; an iteration is a step of its own,    *)
(* and `phase' keeps everything else out until the loop ends.              *)
(***************************************************************************)
EXTENDS Naturals, Sequences

CONSTANTS
  Tracks,    \* sequence of [start : Nat, audio : BOOLEAN]
  Leadout,
  Pregap,    \* 150: sectors before LBA 0
  ScanStep,  \* 75: sectors skipped by a scan command
  Samps,     \* CDDA_SAMPS_PER_SECTOR
  IdleRate, Rate1X, Rate2X,  \* master cycles per sector period
  Fast,      \* a CDZ or Universe BIOS system, which reads data at 2X
  MaxStep,   \* bound: master cycles that one geo_cd_tick adds
  MaxLba     \* bound: positions past the lead-out saturate here

TrackNumbers == 1..Len(Tracks)

ASSUME DiscAssumption ==
  /\ Tracks \in Seq([start : Nat, audio : BOOLEAN])
  /\ Len(Tracks) > 0
  /\ \A i, j \in TrackNumbers : i < j => Tracks[i].start < Tracks[j].start
  /\ Leadout \in Nat
  /\ Tracks[Len(Tracks)].start < Leadout
  /\ MaxLba \in Nat
  /\ Leadout <= MaxLba

ASSUME TimingAssumption ==
  /\ {Pregap, ScanStep, Samps, MaxStep} \subseteq Nat \ {0}
  /\ {IdleRate, Rate1X, Rate2X} \subseteq Nat \ {0}
  /\ Fast \in BOOLEAN

VARIABLES
  driveStatus,  \* cd.drive_status
  playLba,      \* cd.play_lba
  audio,        \* cd.playing_audio
  data,         \* cd.playing_data
  cddaPlaying,
  cddaLba,      \* cdda_audio_lba: next sector of the audio stream
  cddaPos,      \* cdda_sector_pos: next sample of the cached sector
  cddaSector,   \* what cdda_sector_cache holds: a sector, or silence
  cache,        \* cached_track, cached_track_start, cached_track_end
  counter,      \* cd_sector_counter
  rate,         \* cd_sector_rate
  phase         \* "run", or "tick" inside the loop of geo_cd_tick

cddaVars  == <<cddaPlaying, cddaLba, cddaPos, cddaSector>>
timerVars == <<counter, rate, phase>>
driveVars == <<driveStatus, playLba, audio, data, cddaVars, cache, timerVars>>

Status  == {"IDLE", "PLAY", "PAUSE", "STOP", "END"}
Silence == MaxLba + 1
Lba     == 0..MaxLba

Saturate(lba) == IF lba > MaxLba THEN MaxLba ELSE lba

InitDrive ==
  /\ driveStatus = "STOP"
  /\ playLba = 0
  /\ audio = FALSE
  /\ data = FALSE
  /\ cddaPlaying = FALSE
  /\ cddaLba = 0
  /\ cddaPos = Samps
  /\ cddaSector = Silence
  /\ cache = [track |-> 1, start |-> 0, end |-> 0]
  /\ counter = 0
  /\ rate = Rate1X
  /\ phase = "run"

(***************************************************************************)
(* Tracks.  The disc answers 0 and "data" for a track it does not have.    *)
(***************************************************************************)

TrackStart(track) == IF track \in TrackNumbers THEN Tracks[track].start ELSE 0
IsAudio(track)    == track \in TrackNumbers /\ Tracks[track].audio

\* The backward search: the last track that starts at or before lba, or 1.
Search(lba) ==
  LET before == {i \in TrackNumbers : Tracks[i].start <= lba} IN
  IF before = {} THEN 1 ELSE CHOOSE i \in before : \A j \in before : j <= i

Cached(lba) == cache.start <= lba /\ lba < cache.end

\* Slip: the cached range runs to the end of the disc.
CacheToLeadout(track) ==
  [track |-> track, start |-> TrackStart(track), end |-> Leadout]

CacheEntry(track) ==
  [track |-> track,
   start |-> TrackStart(track),
   end   |-> IF track < Len(Tracks) THEN TrackStart(track + 1) ELSE Leadout]

\* find_track_for_lba: its result, and what it does to the cache.
FindTrack(lba) == IF Cached(lba) THEN cache.track ELSE Search(lba)
LookUp(lba)    == cache' = IF Cached(lba) THEN cache ELSE CacheEntry(Search(lba))

(***************************************************************************)
(* Commands: the part of cd_comm_process_command that moves the drive.     *)
(***************************************************************************)

\* Slip: the pre-gap is not taken off.
LbaOfKeepsPregap(address) == Saturate(address)

\* An MSF address, as a sector count, becomes an LBA.
LbaOf(address) ==
  Saturate(IF address >= Pregap THEN address - Pregap ELSE address)

\* The audio stream starts over at lba.
StartCdda(lba) ==
  /\ cddaPlaying' = TRUE
  /\ cddaLba' = lba
  /\ cddaPos' = Samps
  /\ UNCHANGED cddaSector

StopCdda ==
  /\ cddaPlaying' = FALSE
  /\ UNCHANGED <<cddaLba, cddaPos, cddaSector>>

\* Play a track that is audio or not, from lba.
StartTrack(isAudio, lba) ==
  /\ audio' = isAudio
  /\ data' = ~isAudio
  /\ IF isAudio THEN StartCdda(lba) ELSE StopCdda
  /\ driveStatus' = "PLAY"

\* Nothing plays any more.
Halt(status) ==
  /\ audio' = FALSE
  /\ data' = FALSE
  /\ StopCdda
  /\ driveStatus' = status

Stop ==
  /\ Halt("IDLE")
  /\ UNCHANGED <<playLba, cache, timerVars>>

\* A TOC query wakes an idle drive; query 6 notices the end of the disc, and
\* queries 0, 1, 2 and 6 look the current track up.
Query(sub) ==
  /\ LET awake == IF driveStatus = "IDLE" THEN "STOP" ELSE driveStatus IN
     driveStatus' = IF sub = 6 /\ playLba >= Leadout THEN "END" ELSE awake
  /\ IF sub \in {0, 1, 2, 6} THEN LookUp(playLba) ELSE UNCHANGED cache
  /\ UNCHANGED <<playLba, audio, data, cddaVars, timerVars>>

Play(address) ==
  LET lba == LbaOf(address) IN
  /\ playLba' = lba
  /\ LookUp(lba)
  /\ StartTrack(IsAudio(FindTrack(lba)), lba)
  /\ UNCHANGED timerVars

Seek(address) ==
  /\ playLba' = LbaOf(address)
  /\ Halt("PAUSE")
  /\ UNCHANGED <<cache, timerVars>>

\* Slip: a pause leaves the sound on.
PauseKeepsSound ==
  /\ driveStatus' = "PAUSE"
  /\ UNCHANGED <<playLba, audio, data, cddaVars, cache, timerVars>>

\* The playing flags stay set, for Resume.
Pause ==
  /\ StopCdda
  /\ driveStatus' = "PAUSE"
  /\ UNCHANGED <<playLba, audio, data, cache, timerVars>>

Resume ==
  /\ driveStatus' = IF audio \/ data THEN "PLAY" ELSE driveStatus
  /\ IF audio THEN StartCdda(playLba) ELSE UNCHANGED cddaVars
  /\ UNCHANGED <<playLba, audio, data, cache, timerVars>>

\* A scan moves the position and nothing else: neither flags nor sound.
ScanForward ==
  /\ IF playLba + ScanStep >= Leadout
     THEN playLba' = Leadout - 1 /\ driveStatus' = "END"
     ELSE playLba' = playLba + ScanStep /\ driveStatus' = "PLAY"
  /\ UNCHANGED <<audio, data, cddaVars, cache, timerVars>>

ScanBackward ==
  /\ playLba' = IF playLba >= ScanStep THEN playLba - ScanStep ELSE 0
  /\ driveStatus' = "PLAY"
  /\ UNCHANGED <<audio, data, cddaVars, cache, timerVars>>

\* A track that does not exist counts as data and moves nothing.
MoveToTrack(track) ==
  /\ playLba' = IF track \in TrackNumbers THEN TrackStart(track) ELSE playLba
  /\ StartTrack(IsAudio(track), playLba')
  /\ UNCHANGED <<cache, timerVars>>

\* FF0000: the drive reset.
ResetDrive ==
  /\ Halt("IDLE")
  /\ UNCHANGED <<playLba, cache, timerVars>>

\* geo_cd_reset, as far as the drive goes; cd_sector_rate is left alone.
ResetMachine ==
  /\ driveStatus' = "STOP"
  /\ playLba' = 0
  /\ audio' = FALSE
  /\ data' = FALSE
  /\ cddaPlaying' = FALSE
  /\ cddaLba' = 0
  /\ cddaPos' = Samps
  /\ cddaSector' = Silence
  /\ cache' = [track |-> 1, start |-> 0, end |-> 0]
  /\ counter' = 0
  /\ UNCHANGED <<rate, phase>>

(***************************************************************************)
(* The sector timer.                                                       *)
(***************************************************************************)

Playing == driveStatus = "PLAY" /\ (data \/ audio)

RateNow ==
  IF ~Playing THEN IdleRate
  ELSE IF data /\ Fast THEN Rate2X ELSE Rate1X

\* Slip: a change of rate starts the period over.
AddCyclesRestarts(n) ==
  /\ phase = "run"
  /\ phase' = "tick"
  /\ rate' = RateNow
  /\ counter' = IF RateNow = rate THEN counter + n ELSE n
  /\ UNCHANGED <<driveStatus, playLba, audio, data, cddaVars, cache>>

\* geo_cd_tick up to its loop.
AddCycles(n) ==
  /\ phase = "run"
  /\ phase' = "tick"
  /\ rate' = RateNow
  /\ counter' = counter + n
  /\ UNCHANGED <<driveStatus, playLba, audio, data, cddaVars, cache>>

\* Slip: the sound stays as it was when the head crosses into a track.
FollowHeadKeepsSound(isAudio) ==
  /\ audio' = isAudio
  /\ data' = ~isAudio
  /\ UNCHANGED cddaVars

\* The flags follow the type of the track under the head.
FollowHead(isAudio) ==
  /\ audio' = isAudio
  /\ data' = ~isAudio
  /\ cddaPlaying' = isAudio
  /\ UNCHANGED <<cddaLba, cddaPos, cddaSector>>

Elapse == counter' = counter - rate

\* One iteration of the loop; a data sector goes to the LC8951.
SectorPeriod ==
  /\ phase = "tick"
  /\ counter >= rate
  /\ Elapse
  /\ IF Playing
     THEN /\ LookUp(playLba)
          /\ FollowHead(IsAudio(FindTrack(playLba)))
          /\ playLba' = Saturate(playLba + 1)
     ELSE UNCHANGED <<playLba, audio, data, cddaVars, cache>>
  /\ UNCHANGED <<driveStatus, rate, phase>>

TickEnd ==
  /\ phase = "tick"
  /\ counter < rate
  /\ phase' = "run"
  /\ UNCHANGED <<driveStatus, playLba, audio, data, cddaVars, cache, counter, rate>>

(***************************************************************************)
(* The mixer.                                                              *)
(***************************************************************************)

\* Slip: the sector is read whatever its track is.
LoadsAnything(lba) ==
  /\ UNCHANGED cache
  /\ cddaSector' = IF lba < Leadout THEN lba ELSE Silence

\* The next sector of the stream, or silence where there is no audio or
\* geo_disc_read_audio fails.
LoadSector(lba) ==
  IF lba < Leadout
  THEN /\ LookUp(lba)
       /\ cddaSector' \in IF IsAudio(FindTrack(lba)) THEN {lba, Silence} ELSE {Silence}
  ELSE /\ UNCHANGED cache
       /\ cddaSector' = Silence

\* geo_cd_read_cdda for one sample.
ReadCdda ==
  /\ phase = "run"
  /\ cddaPlaying
  /\ IF cddaPos >= Samps
     THEN /\ LoadSector(cddaLba)
          /\ cddaLba' = Saturate(cddaLba + 1)
          /\ cddaPos' = 1
     ELSE /\ cddaPos' = cddaPos + 1
          /\ UNCHANGED <<cddaLba, cddaSector, cache>>
  /\ UNCHANGED <<driveStatus, playLba, audio, data, cddaPlaying, timerVars>>

\* Bound: the addresses that software sends, within the pre-gap and beyond.
Addresses == Lba \cup {lba + Pregap : lba \in Lba}

\* Software acts between two ticks.
Command ==
  \/ Stop \/ Pause \/ Resume \/ ScanForward \/ ScanBackward
  \/ \E sub \in 0..15 : Query(sub)
  \/ \E address \in Addresses : Play(address) \/ Seek(address)
  \/ \E track \in 0..Len(Tracks) + 1 : MoveToTrack(track)

Software == phase = "run" /\ (Command \/ ResetDrive \/ ResetMachine)

Timer == (\E n \in 1..MaxStep : AddCycles(n)) \/ SectorPeriod \/ TickEnd

NextDrive == Software \/ Timer \/ ReadCdda

Spec == InitDrive /\ [][NextDrive]_driveVars

(***************************************************************************)
(* geo_exec calls geo_cd_tick after every instruction, and the loop in it  *)
(* runs until its condition fails.                                         *)
(***************************************************************************)
FairSpec == Spec /\ WF_driveVars(Timer)
                 /\ SF_driveVars(\E n \in 1..MaxStep : AddCycles(n))

(***************************************************************************)
(* Properties.                                                             *)
(***************************************************************************)

\* Positions stay on the disc although commands move them by hand, and the
\* sample position never leaves the cached sector.
TypeOK ==
  /\ driveStatus \in Status
  /\ playLba \in Lba
  /\ audio \in BOOLEAN
  /\ data \in BOOLEAN
  /\ cddaPlaying \in BOOLEAN
  /\ cddaLba \in Lba
  /\ cddaPos \in 0..Samps
  /\ cddaSector \in Lba \cup {Silence}
  /\ cache \in [track : TrackNumbers, start : Nat, end : Nat]
  /\ counter \in Nat
  /\ rate \in {IdleRate, Rate1X, Rate2X}
  /\ phase \in {"run", "tick"}

\* The cache answers for every sector it claims what a search would find,
\* whichever caller filled it and whatever was looked up before.
TrackCacheCoherent ==
  \A lba \in Lba : Cached(lba) => cache.track = Search(lba)

\* The two playing flags exclude each other, and there is sound only on
\* behalf of an audio track.
SoundIsAudio == ~(audio /\ data) /\ (cddaPlaying => audio)

\* An idle, stopped or paused drive makes no sound, whichever sequence of
\* commands, queries and track changes led there.
SilentUnlessPlaying == cddaPlaying => driveStatus \in {"PLAY", "END"}

\* The mixer never hears the bytes of a data sector, although its position
\* runs ahead of the drive's and crosses track boundaries on its own.
OnlyAudioIsHeard == cddaSector = Silence \/ IsAudio(Search(cddaSector))

\* Sector periods, and with them the communication interrupt, keep coming
\* whatever software does to the drive and its rate, short of resetting the
\* machine over and over.
PeriodsRecur == []<><<SectorPeriod \/ ResetMachine>>_driveVars

(***************************************************************************)
(* geo_cd.c:1746-1749 gives one sector every 160000 master cycles at 2X.   *)
(* A counter that ran up at the idle rate lets two through at once.        *)
(***************************************************************************)
OneSectorPerPeriod ==
  [][SectorPeriod /\ Playing /\ data' => counter' < rate]_driveVars
=============================================================================

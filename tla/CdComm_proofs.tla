---------------------------- MODULE CdComm_proofs ----------------------------
(***************************************************************************)
(* The CD drive and its packet protocol, proved for every disc whose       *)
(* tracks ascend, for all rates and sector sizes, and whatever packets     *)
(* software sends.  The first part is about the drive and its own          *)
(* specification, the second about the protocol on top of it.              *)
(***************************************************************************)
EXTENDS CdComm, SequenceTheorems, WellFoundedInduction, TLAPS

NoEntry == [track |-> 1, start |-> 0, end |-> 0]

\* The cache is empty, or was filled for some track of the disc.
CacheFilled == cache = NoEntry \/ \E t \in TrackNumbers : cache = CacheEntry(t)

\* Coherence of the cache is what makes a loaded sector audio, and the cache
\* is coherent because of how it was filled, not of what it holds.
DriveInv ==
  /\ TypeOK
  /\ CacheFilled
  /\ SoundIsAudio
  /\ SilentUnlessPlaying
  /\ OnlyAudioIsHeard

(***************************************************************************)
(* The disc.                                                               *)
(***************************************************************************)

\* The disc has tracks, and every one has a start and a type.
LEMMA TrackType ==
  /\ Len(Tracks) \in Nat /\ Len(Tracks) \in TrackNumbers
  /\ \A t \in TrackNumbers : /\ t \in Nat
                              /\ Tracks[t].start \in Nat
                              /\ Tracks[t].audio \in BOOLEAN
<1> DEFINE Track == [start : Nat, audio : BOOLEAN]
<1>1. Tracks \in Seq(Track) /\ Len(Tracks) > 0
  BY DiscAssumption
<1>2. \A t \in 1..Len(Tracks) : Tracks[t] \in Track
  <2> HIDE DEF Track
  <2> QED
    BY <1>1, ElementOfSeq
<1> QED
  BY <1>1, <1>2 DEF TrackNumbers

\* Tracks start on the disc, and a track that does not exist starts at 0.
LEMMA StartOnDisc ==
  ASSUME NEW t
  PROVE  TrackStart(t) \in Lba /\ TrackStart(t) <= Leadout
<1>1. CASE t \in TrackNumbers
  <2>1. /\ Tracks[t].start \in Nat
        /\ Len(Tracks) \in TrackNumbers
        /\ Tracks[Len(Tracks)].start \in Nat
    BY <1>1, TrackType
  <2>2. t = Len(Tracks) \/ t < Len(Tracks)
    BY <1>1, TrackType DEF TrackNumbers
  <2>3. Tracks[t].start <= Tracks[Len(Tracks)].start
    BY <1>1, <2>1, <2>2, DiscAssumption
  <2> QED
    BY <1>1, <2>1, <2>3, DiscAssumption DEF TrackStart, Lba
<1>2. CASE t \notin TrackNumbers
  BY <1>2, DiscAssumption DEF TrackStart, Lba
<1> QED
  BY <1>1, <1>2

\* A set of track numbers has a last one.
LEMMA LastTrack ==
  ASSUME NEW S, S \subseteq TrackNumbers, S # {}
  PROVE  \E i \in S : \A j \in S : j <= i
<1> DEFINE T == {n \in Nat : \E i \in S : n = Len(Tracks) - i}
<1>1. \A i \in S : i \in Nat /\ i <= Len(Tracks)
  BY DiscAssumption DEF TrackNumbers
<1>2. Len(Tracks) \in Nat
  BY DiscAssumption
<1>3. T \subseteq Nat /\ T # {}
  <2>1. PICK i \in S : TRUE
    OBVIOUS
  <2>2. Len(Tracks) - i \in T
    BY <1>1, <1>2, <2>1
  <2> QED
    BY <2>2
<1>4. \E x \in T : \A y \in T : <<y, x>> \notin OpToRel(<, Nat)
  BY <1>3, NatLessThanWellFounded, WFMin
<1>5. PICK x \in T : \A y \in T : <<y, x>> \notin OpToRel(<, Nat)
  BY <1>4
<1>6. PICK i \in S : x = Len(Tracks) - i
  OBVIOUS
<1>7. ASSUME NEW j \in S
      PROVE  j <= i
  <2>1. Len(Tracks) - j \in T
    BY <1>1, <1>2
  <2>2. <<Len(Tracks) - j, x>> \notin OpToRel(<, Nat)
    BY <1>5, <2>1
  <2>3. ~(Len(Tracks) - j < x)
    BY <2>1, <2>2, <1>3 DEF OpToRel
  <2> QED
    BY <1>1, <1>2, <1>6, <2>3
<1> QED
  BY <1>6, <1>7

\* The search finds a track of the disc: the last one that starts at or
\* before lba, or the first one.
LEMMA SearchType ==
  ASSUME NEW lba
  PROVE  Search(lba) \in TrackNumbers
<1> DEFINE before == {i \in TrackNumbers : Tracks[i].start <= lba}
<1>1. CASE before = {}
  BY <1>1, DiscAssumption DEF Search, TrackNumbers
<1>2. CASE before # {}
  <2>1. \E i \in before : \A j \in before : j <= i
    BY <1>2, LastTrack
  <2> QED
    BY <1>2, <2>1 DEF Search
<1> QED
  BY <1>1, <1>2

\* An entry claims exactly positions that the search gives to its track.
LEMMA EntryCoherent ==
  ASSUME NEW t \in TrackNumbers, NEW lba \in Nat,
         CacheEntry(t).start <= lba, lba < CacheEntry(t).end
  PROVE  Search(lba) = t
<1> DEFINE before == {i \in TrackNumbers : Tracks[i].start <= lba}
<1>1. t \in before
  BY DEF CacheEntry, TrackStart
<1>2. ASSUME NEW j \in before, j > t
      PROVE  FALSE
  <2>1. /\ t \in Nat /\ j \in Nat /\ Len(Tracks) \in Nat
        /\ j <= Len(Tracks) /\ t + 1 <= j
        /\ t + 1 \in TrackNumbers
    BY <1>2, DiscAssumption DEF TrackNumbers
  <2>2. lba < Tracks[t + 1].start
    BY <2>1 DEF CacheEntry, TrackStart
  <2>3. /\ Tracks[t + 1].start \in Nat
        /\ Tracks[j].start \in Nat
    BY <1>2, <2>1, TrackType
  <2>4. Tracks[t + 1].start <= Tracks[j].start
    BY <2>1, <2>3, DiscAssumption
  <2> QED
    BY <1>2, <2>2, <2>3, <2>4
<1>3. \A j \in before : j <= t
  BY <1>2, DiscAssumption DEF TrackNumbers
<1>4. Search(lba) \in before /\ \A j \in before : j <= Search(lba)
  BY <1>1, <1>3 DEF Search
<1> QED
  BY <1>1, <1>3, <1>4, DiscAssumption DEF TrackNumbers

\* The property itself, for any cache filled for some track.
LEMMA FilledCoherent ==
  ASSUME CacheFilled
  PROVE  \A lba \in Lba : Cached(lba) => cache.track = Search(lba)
<1> SUFFICES ASSUME NEW lba \in Lba, Cached(lba)
             PROVE  cache.track = Search(lba)
  OBVIOUS
<1>1. lba \in Nat
  BY DEF Lba
<1>2. CASE cache = NoEntry
  BY <1>1, <1>2 DEF Cached, NoEntry
<1>3. CASE \E t \in TrackNumbers : cache = CacheEntry(t)
  <2>1. PICK t \in TrackNumbers : cache = CacheEntry(t)
    BY <1>3
  <2>2. Search(lba) = t
    BY <1>1, <2>1, EntryCoherent DEF Cached
  <2> QED
    BY <2>1, <2>2 DEF CacheEntry
<1> QED
  BY <1>2, <1>3 DEF CacheFilled

\* What a lookup answers, and the cache it leaves.
LEMMA FindTrackIsSearch ==
  ASSUME CacheFilled, NEW lba \in Lba
  PROVE  FindTrack(lba) = Search(lba)
BY FilledCoherent DEF FindTrack

\* A lookup, hit or miss, leaves a cache filled for some track.
LEMMA LookUpFills ==
  ASSUME CacheFilled, NEW lba, LookUp(lba)
  PROVE  CacheFilled'
<1>1. CASE Cached(lba)
  BY <1>1 DEF LookUp, CacheFilled, CacheEntry, NoEntry, TrackStart, TrackNumbers
<1>2. CASE ~Cached(lba)
  BY <1>2, SearchType DEF LookUp, CacheFilled, CacheEntry, TrackStart, TrackNumbers
<1> QED
  BY <1>1, <1>2

\* However the cache was filled, its fields are numbers.
LEMMA FilledType ==
  CacheFilled => cache \in [track : TrackNumbers, start : Nat, end : Nat]
<1> SUFFICES ASSUME CacheFilled
             PROVE  cache \in [track : TrackNumbers, start : Nat, end : Nat]
  OBVIOUS
<1>1. 1 \in TrackNumbers
  BY TrackType DEF TrackNumbers
<1>2. CASE cache = NoEntry
  BY <1>1, <1>2 DEF NoEntry
<1>3. CASE \E t \in TrackNumbers : cache = CacheEntry(t)
  <2>1. PICK t \in TrackNumbers : cache = CacheEntry(t)
    BY <1>3
  <2>2. /\ CacheEntry(t).start \in Nat
        /\ CacheEntry(t).end \in Nat
    BY StartOnDisc, DiscAssumption DEF CacheEntry, Lba
  <2> QED
    BY <2>1, <2>2 DEF CacheEntry
<1> QED
  BY <1>2, <1>3 DEF CacheFilled

\* The bound on positions keeps them in range.
LEMMA SaturateType ==
  ASSUME NEW n \in Nat
  PROVE  Saturate(n) \in Lba
BY DiscAssumption DEF Saturate, Lba

\* Any address software sends is turned into a position in range.
LEMMA LbaOfType ==
  ASSUME NEW address \in Nat
  PROVE  LbaOf(address) \in Lba
<1>1. (IF address >= Pregap THEN address - Pregap ELSE address) \in Nat
  BY TimingAssumption
<1> QED
  BY <1>1, SaturateType DEF LbaOf

\* A track is audio or it is not, also when it does not exist.
LEMMA IsAudioType ==
  ASSUME NEW t
  PROVE  IsAudio(t) \in BOOLEAN
BY TrackType DEF IsAudio

(***************************************************************************)
(* The invariant.                                                          *)
(***************************************************************************)

\* A drive that was just reset, or powered on, satisfies the invariant.
LEMMA InitInv == InitDrive => DriveInv
<1> SUFFICES ASSUME InitDrive PROVE DriveInv
  OBVIOUS
<1>1. CacheFilled
  BY DEF InitDrive, CacheFilled, NoEntry
<1>2. cache \in [track : TrackNumbers, start : Nat, end : Nat]
  BY <1>1, FilledType
<1>3. 0 \in Lba /\ Samps \in 0..Samps
  BY DiscAssumption, TimingAssumption DEF Lba
<1>4. TypeOK
  BY <1>2, <1>3 DEF InitDrive, TypeOK, Status
<1> QED
  BY <1>1, <1>4 DEF InitDrive, DriveInv, SoundIsAudio, SilentUnlessPlaying, OnlyAudioIsHeard

\* Each part of the invariant that a step leaves alone stays true.
LEMMA KeptCache ==
  ASSUME CacheFilled, UNCHANGED cache
  PROVE  CacheFilled'
BY DEF CacheFilled, CacheEntry, TrackStart, TrackNumbers, NoEntry

\* What was heard before the step is still audio after it.
LEMMA KeptSector ==
  ASSUME OnlyAudioIsHeard, UNCHANGED cddaSector
  PROVE  OnlyAudioIsHeard'
BY DEF OnlyAudioIsHeard, IsAudio, Search, TrackNumbers, Silence

\* FilledType, after a step.
LEMMA FilledTypeNext ==
  (CacheFilled => cache \in [track : TrackNumbers, start : Nat, end : Nat])'
BY FilledType, PTL

\* The commands and resets, with whatever argument a packet may hold.
AnyCommand ==
  \/ Stop \/ Pause \/ Resume \/ ScanForward \/ ScanBackward
  \/ \E sub \in Nat : Query(sub)
  \/ \E address \in Nat : Play(address) \/ Seek(address)
  \/ \E track \in Nat : MoveToTrack(track)
  \/ ResetDrive \/ ResetMachine

\* The commands keep the invariant because they silence the drive or start
\* an audio track.
LEMMA CommandInv == DriveInv /\ AnyCommand => DriveInv'
<1> SUFFICES ASSUME DriveInv, AnyCommand PROVE DriveInv'
  OBVIOUS
<1> USE DEF driveVars, cddaVars, timerVars
<1>a. TypeOK /\ CacheFilled /\ SoundIsAudio /\ SilentUnlessPlaying /\ OnlyAudioIsHeard
  BY DEF DriveInv
<1>b. /\ Leadout \in Nat /\ MaxLba \in Nat /\ 1 <= Leadout /\ Leadout <= MaxLba
      /\ Samps \in Nat /\ 1 <= Samps /\ ScanStep \in Nat
  <2>1. Tracks[Len(Tracks)].start \in Nat
    BY TrackType
  <2> QED
    BY <2>1, DiscAssumption, TimingAssumption
<1>c. playLba \in Lba /\ playLba \in Nat /\ cddaLba \in Lba /\ cddaLba \in Nat
  BY <1>a, <1>b DEF TypeOK, Lba
<1>d. \A t : IsAudio(t) \in BOOLEAN
  BY IsAudioType
<1>s. Samps \in 0..Samps /\ 0 \in Lba
  BY <1>b DEF Lba
\* Steps that leave the cache and the sector of the mixer alone.
<1>e. ASSUME UNCHANGED <<cache, cddaSector>>
      PROVE  CacheFilled' /\ OnlyAudioIsHeard'
  BY <1>a, <1>e, KeptCache, KeptSector
<1>1. CASE Stop
  BY <1>1, <1>a, <1>e
     DEF Stop, Halt, StopCdda, DriveInv, TypeOK, Status, SoundIsAudio, SilentUnlessPlaying
<1>2. ASSUME NEW sub \in Nat, Query(sub) PROVE DriveInv'
  <2>1. CacheFilled' /\ OnlyAudioIsHeard'
    BY <1>2, <1>a, KeptCache, KeptSector, LookUpFills DEF Query
  <2>2. SoundIsAudio' /\ SilentUnlessPlaying'
    BY <1>2, <1>a DEF Query, SoundIsAudio, SilentUnlessPlaying
  <2>3. TypeOK'
    BY <1>2, <1>a, <2>1, FilledTypeNext DEF Query, TypeOK, Status
  <2> QED
    BY <2>1, <2>2, <2>3 DEF DriveInv
<1>3. ASSUME NEW address \in Nat, Play(address) PROVE DriveInv'
  <2>1. LbaOf(address) \in Lba
    BY LbaOfType
  <2>2. CacheFilled' /\ OnlyAudioIsHeard'
    BY <1>3, <1>a, KeptSector, LookUpFills DEF Play, StartTrack, StartCdda, StopCdda
  <2>3. SoundIsAudio' /\ SilentUnlessPlaying'
    BY <1>3, <1>d DEF Play, StartTrack, StartCdda, StopCdda, SoundIsAudio, SilentUnlessPlaying
  <2>4. TypeOK'
    BY <1>3, <1>a, <1>s, <1>d, <2>1, <2>2, FilledTypeNext, Zenon
       DEF Play, StartTrack, StartCdda, StopCdda, TypeOK, Status
  <2> QED
    BY <2>2, <2>3, <2>4 DEF DriveInv
<1>4. ASSUME NEW address \in Nat, Seek(address) PROVE DriveInv'
  <2>1. LbaOf(address) \in Lba
    BY LbaOfType
  <2> QED
    BY <1>4, <1>a, <1>e, <2>1
       DEF Seek, Halt, StopCdda, DriveInv, TypeOK, Status, SoundIsAudio, SilentUnlessPlaying
<1>5. CASE Pause
  BY <1>5, <1>a, <1>e
     DEF Pause, StopCdda, DriveInv, TypeOK, Status, SoundIsAudio, SilentUnlessPlaying
<1>6. CASE Resume
  <2>1. CacheFilled' /\ OnlyAudioIsHeard'
    BY <1>6, <1>e DEF Resume, StartCdda
  <2>2. SoundIsAudio' /\ SilentUnlessPlaying'
    BY <1>6, <1>a DEF Resume, StartCdda, SoundIsAudio, SilentUnlessPlaying
  <2>3. TypeOK'
    BY <1>6, <1>a, <1>s DEF Resume, StartCdda, TypeOK, Status
  <2> QED
    BY <2>1, <2>2, <2>3 DEF DriveInv
<1>7. CASE ScanForward
  <2>1. playLba' \in Lba
    BY <1>7, <1>b, <1>c DEF ScanForward, Lba
  <2> QED
    BY <1>7, <1>a, <1>e, <2>1
       DEF ScanForward, DriveInv, TypeOK, Status, SoundIsAudio, SilentUnlessPlaying
<1>8. CASE ScanBackward
  <2>1. playLba' \in Lba
    BY <1>8, <1>b, <1>c DEF ScanBackward, Lba
  <2> QED
    BY <1>8, <1>a, <1>e, <2>1
       DEF ScanBackward, DriveInv, TypeOK, Status, SoundIsAudio, SilentUnlessPlaying
<1>9. ASSUME NEW track \in Nat, MoveToTrack(track) PROVE DriveInv'
  <2>1. playLba' \in Lba
    BY <1>9, <1>c, StartOnDisc DEF MoveToTrack
  <2>2. SoundIsAudio' /\ SilentUnlessPlaying'
    BY <1>9, <1>d
       DEF MoveToTrack, StartTrack, StartCdda, StopCdda, SoundIsAudio, SilentUnlessPlaying
  <2>3. TypeOK'
    BY <1>9, <1>a, <1>s, <1>d, <2>1, Zenon
       DEF MoveToTrack, StartTrack, StartCdda, StopCdda, TypeOK, Status
  <2>4. UNCHANGED <<cache, cddaSector>>
    BY <1>9 DEF MoveToTrack, StartTrack, StartCdda, StopCdda
  <2> QED
    BY <1>e, <2>2, <2>3, <2>4 DEF DriveInv
<1>10. CASE ResetDrive
  BY <1>10, <1>a, <1>e
     DEF ResetDrive, Halt, StopCdda, DriveInv, TypeOK, Status, SoundIsAudio, SilentUnlessPlaying
<1>11. CASE ResetMachine
  <2>1. CacheFilled'
    BY <1>11 DEF ResetMachine, CacheFilled, NoEntry
  <2>2. TypeOK'
    BY <1>11, <1>a, <1>s, <2>1, FilledTypeNext DEF ResetMachine, TypeOK, Status
  <2> QED
    BY <1>11, <2>1, <2>2
       DEF ResetMachine, DriveInv, SoundIsAudio, SilentUnlessPlaying, OnlyAudioIsHeard, Silence
<1> QED
  BY <1>1, <1>2, <1>3, <1>4, <1>5, <1>6, <1>7, <1>8, <1>9, <1>10, <1>11
     DEF AnyCommand

\* The timer and the mixer keep it because they look up the track they
\* enter.
LEMMA DeviceInv == DriveInv /\ (Timer \/ ReadCdda) => DriveInv'
<1> SUFFICES ASSUME DriveInv, Timer \/ ReadCdda PROVE DriveInv'
  OBVIOUS
<1> USE DEF driveVars, cddaVars, timerVars
<1>a. TypeOK /\ CacheFilled /\ SoundIsAudio /\ SilentUnlessPlaying /\ OnlyAudioIsHeard
  BY DEF DriveInv
<1>b. /\ Leadout \in Nat /\ MaxLba \in Nat /\ 1 <= Leadout /\ Leadout <= MaxLba
      /\ Samps \in Nat /\ 1 <= Samps /\ ScanStep \in Nat
  <2>1. Tracks[Len(Tracks)].start \in Nat
    BY TrackType
  <2> QED
    BY <2>1, DiscAssumption, TimingAssumption
<1>c. playLba \in Lba /\ playLba \in Nat /\ cddaLba \in Lba /\ cddaLba \in Nat
  BY <1>a, <1>b DEF TypeOK, Lba
<1>d. \A t : IsAudio(t) \in BOOLEAN
  BY IsAudioType
<1>s. Samps \in 0..Samps /\ 0 \in Lba
  BY <1>b DEF Lba
\* Steps that leave the cache and the sector of the mixer alone.
<1>e. ASSUME UNCHANGED <<cache, cddaSector>>
      PROVE  CacheFilled' /\ OnlyAudioIsHeard'
  BY <1>a, <1>e, KeptCache, KeptSector
<1>1. ASSUME NEW n \in 1..MaxStep, AddCycles(n) PROVE DriveInv'
  <2>1. n \in Nat
    BY <1>1, TimingAssumption
  <2> QED
    BY <1>1, <1>a, <1>e, <2>1
       DEF AddCycles, RateNow, DriveInv, TypeOK, SoundIsAudio, SilentUnlessPlaying
<1>2. CASE SectorPeriod
  <2>1. counter' \in Nat
    BY <1>2, <1>a, TimingAssumption DEF SectorPeriod, Elapse, TypeOK
  <2>2. CASE Playing
    <3>1. CacheFilled' /\ OnlyAudioIsHeard'
      BY <1>2, <2>2, <1>a, KeptSector, LookUpFills DEF SectorPeriod, FollowHead
    <3>2. SoundIsAudio' /\ SilentUnlessPlaying'
      BY <1>2, <2>2, <1>d
         DEF SectorPeriod, FollowHead, Playing, SoundIsAudio, SilentUnlessPlaying
    <3>3. Saturate(playLba + 1) \in Lba
      BY <1>c, SaturateType
    <3>4. TypeOK'
      BY <1>2, <2>1, <2>2, <1>a, <1>d, <3>1, <3>3, FilledTypeNext
         DEF SectorPeriod, FollowHead, TypeOK
    <3> QED
      BY <3>1, <3>2, <3>4 DEF DriveInv
  <2>3. CASE ~Playing
    BY <1>2, <1>a, <1>e, <2>1, <2>3
       DEF SectorPeriod, DriveInv, TypeOK, SoundIsAudio, SilentUnlessPlaying
  <2> QED
    BY <2>2, <2>3
<1>3. CASE TickEnd
  BY <1>3, <1>a, <1>e DEF TickEnd, DriveInv, TypeOK, SoundIsAudio, SilentUnlessPlaying
<1>4. CASE ReadCdda
  <2>1. CASE cddaPos >= Samps
    <3>1. LoadSector(cddaLba) /\ cddaLba' = Saturate(cddaLba + 1) /\ cddaPos' = 1
      BY <1>4, <2>1 DEF ReadCdda
    <3>2. CacheFilled'
      BY <3>1, <1>a, KeptCache, LookUpFills DEF LoadSector
    <3>3. FindTrack(cddaLba) = Search(cddaLba)
      BY <1>a, <1>c, FindTrackIsSearch
    <3>4. /\ cddaSector' \in Lba \cup {Silence}
          /\ cddaSector' = Silence \/ IsAudio(Search(cddaSector'))
      BY <3>1, <3>3, <1>c DEF LoadSector
    <3>5. OnlyAudioIsHeard'
      BY <3>4 DEF OnlyAudioIsHeard, IsAudio, Search, TrackNumbers, Silence
    <3>6. Saturate(cddaLba + 1) \in Lba
      BY <1>c, SaturateType
    <3>7. TypeOK'
      BY <1>4, <1>a, <1>b, <3>1, <3>2, <3>4, <3>6, FilledTypeNext
         DEF ReadCdda, TypeOK, Lba, Silence
    <3> QED
      BY <1>4, <1>a, <3>2, <3>5, <3>7 DEF ReadCdda, DriveInv, SoundIsAudio, SilentUnlessPlaying
  <2>2. CASE ~(cddaPos >= Samps)
    <3>1. cddaPos' \in 0..Samps
      BY <1>4, <1>a, <1>b, <2>2 DEF ReadCdda, TypeOK
    <3> QED
      BY <1>4, <1>a, <1>e, <2>2, <3>1
         DEF ReadCdda, DriveInv, TypeOK, SoundIsAudio, SilentUnlessPlaying
  <2> QED
    BY <2>1, <2>2
<1> QED
  BY <1>1, <1>2, <1>3, <1>4 DEF Timer

\* A step that leaves the drive alone keeps it.
LEMMA StutterInv == DriveInv /\ UNCHANGED driveVars => DriveInv'
<1> SUFFICES ASSUME DriveInv, UNCHANGED driveVars PROVE DriveInv'
  OBVIOUS
<1>1. CacheFilled' /\ OnlyAudioIsHeard'
  BY KeptCache, KeptSector DEF DriveInv, driveVars, cddaVars
<1> QED
  BY <1>1
     DEF driveVars, cddaVars, timerVars, DriveInv, TypeOK, SoundIsAudio,
         SilentUnlessPlaying

\* Every step keeps the invariant.
LEMMA StepInv == DriveInv /\ [NextDrive]_driveVars => DriveInv'
<1>1. Addresses \subseteq Nat /\ 0..Len(Tracks) + 1 \subseteq Nat
  BY DiscAssumption, TimingAssumption DEF Addresses, Lba
<1>2. Software => AnyCommand
  BY <1>1 DEF Software, Command, AnyCommand
<1> QED
  BY <1>2, CommandInv, DeviceInv, StutterInv DEF NextDrive

(***************************************************************************)
(* The results.                                                            *)
(***************************************************************************)

\* The drive satisfies the invariant in every reachable state.
THEOREM Invariance == Spec => []DriveInv
BY InitInv, StepInv, PTL DEF Spec

\* Positions stay on the disc and the sample position in its sector, for
\* every disc and all rates.
THEOREM TypeCorrect == Spec => []TypeOK
<1>1. DriveInv => TypeOK
  BY DEF DriveInv
<1> QED
  BY <1>1, Invariance, PTL

\* find_track_for_lba answers from its cache what its search would find.
THEOREM CacheCoherent == Spec => []TrackCacheCoherent
<1>1. DriveInv => TrackCacheCoherent
  BY FilledCoherent DEF DriveInv, TrackCacheCoherent
<1> QED
  BY <1>1, Invariance, PTL

\* The playing flags exclude each other, and sound means an audio track.
THEOREM SoundCorrect == Spec => []SoundIsAudio
<1>1. DriveInv => SoundIsAudio
  BY DEF DriveInv
<1> QED
  BY <1>1, Invariance, PTL

\* No sequence of commands leaves sound on in a drive that does not play.
THEOREM SilenceCorrect == Spec => []SilentUnlessPlaying
<1>1. DriveInv => SilentUnlessPlaying
  BY DEF DriveInv
<1> QED
  BY <1>1, Invariance, PTL

\* geo_cd_read_cdda never plays the bytes of a data track.
THEOREM AudioCorrect == Spec => []OnlyAudioIsHeard
<1>1. DriveInv => OnlyAudioIsHeard
  BY DEF DriveInv
<1> QED
  BY <1>1, Invariance, PTL

(***************************************************************************)
(* Packets and conversions.                                                *)
(***************************************************************************)

\* Six nybbles: what a response holds between its two ends.
Body == {body \in Seq(Nybble) : Len(body) = 6}

\* A checksum is a nybble.
LEMMA ChecksumType ==
  ASSUME NEW p, \A i \in 1..9 : p[i] \in Nat
  PROVE  Checksum(p) \in Nybble
<1>1. /\ p[1] \in Nat /\ p[2] \in Nat /\ p[3] \in Nat /\ p[4] \in Nat
      /\ p[5] \in Nat /\ p[6] \in Nat /\ p[7] \in Nat /\ p[8] \in Nat
      /\ p[9] \in Nat
  OBVIOUS
<1> DEFINE sum == p[1] + p[2] + p[3] + p[4] + p[5]
                    + p[6] + p[7] + p[8] + p[9] + 5
<1>2. sum \in Nat
  BY <1>1
<1>3. Checksum(p) = 15 - (sum % 16)
  BY DEF Checksum
<1> HIDE DEF sum
<1> QED
  BY <1>2, <1>3 DEF Nybble

\* Concatenation, at the lengths a packet is put together from.
LEMMA Join2And2 ==
  ASSUME NEW S, NEW s \in Seq(S), NEW t \in Seq(S), Len(s) = 2, Len(t) = 2
  PROVE  /\ s \o t \in Seq(S) /\ Len(s \o t) = 4
         /\ \A i \in 1..4 : (s \o t)[i] = IF i <= 2 THEN s[i] ELSE t[i - 2]
<1>1. s \o t \in Seq(S) /\ Len(s \o t) = Len(s) + Len(t)
  BY ConcatProperties, Zenon
<1>2. \A i \in 1 .. Len(s) + Len(t) :
        (s \o t)[i] = IF i <= Len(s) THEN s[i] ELSE t[i - Len(s)]
  BY ConcatProperties, Zenon
<1>3. Len(s) + Len(t) = 4
  OBVIOUS
<1> QED
  BY <1>1, <1>2, <1>3, Zenon

\* The same.
LEMMA Join4And2 ==
  ASSUME NEW S, NEW s \in Seq(S), NEW t \in Seq(S), Len(s) = 4, Len(t) = 2
  PROVE  /\ s \o t \in Seq(S) /\ Len(s \o t) = 6
         /\ \A i \in 1..6 : (s \o t)[i] = IF i <= 4 THEN s[i] ELSE t[i - 4]
<1>1. s \o t \in Seq(S) /\ Len(s \o t) = Len(s) + Len(t)
  BY ConcatProperties, Zenon
<1>2. \A i \in 1 .. Len(s) + Len(t) :
        (s \o t)[i] = IF i <= Len(s) THEN s[i] ELSE t[i - Len(s)]
  BY ConcatProperties, Zenon
<1>3. Len(s) + Len(t) = 6
  OBVIOUS
<1> QED
  BY <1>1, <1>2, <1>3, Zenon

\* The same.
LEMMA Join2And6 ==
  ASSUME NEW S, NEW s \in Seq(S), NEW t \in Seq(S), Len(s) = 2, Len(t) = 6
  PROVE  /\ s \o t \in Seq(S) /\ Len(s \o t) = 8
         /\ \A i \in 1..8 : (s \o t)[i] = IF i <= 2 THEN s[i] ELSE t[i - 2]
<1>1. s \o t \in Seq(S) /\ Len(s \o t) = Len(s) + Len(t)
  BY ConcatProperties, Zenon
<1>2. \A i \in 1 .. Len(s) + Len(t) :
        (s \o t)[i] = IF i <= Len(s) THEN s[i] ELSE t[i - Len(s)]
  BY ConcatProperties, Zenon
<1>3. Len(s) + Len(t) = 8
  OBVIOUS
<1> QED
  BY <1>1, <1>2, <1>3, Zenon

\* The same.
LEMMA Join8And1 ==
  ASSUME NEW S, NEW s \in Seq(S), NEW t \in Seq(S), Len(s) = 8, Len(t) = 1
  PROVE  /\ s \o t \in Seq(S) /\ Len(s \o t) = 9
         /\ \A i \in 1..9 : (s \o t)[i] = IF i <= 8 THEN s[i] ELSE t[i - 8]
<1>1. s \o t \in Seq(S) /\ Len(s \o t) = Len(s) + Len(t)
  BY ConcatProperties, Zenon
<1>2. \A i \in 1 .. Len(s) + Len(t) :
        (s \o t)[i] = IF i <= Len(s) THEN s[i] ELSE t[i - Len(s)]
  BY ConcatProperties, Zenon
<1>3. Len(s) + Len(t) = 9
  OBVIOUS
<1> QED
  BY <1>1, <1>2, <1>3, Zenon

\* The same.
LEMMA Join9And1 ==
  ASSUME NEW S, NEW s \in Seq(S), NEW t \in Seq(S), Len(s) = 9, Len(t) = 1
  PROVE  /\ s \o t \in Seq(S) /\ Len(s \o t) = 10
         /\ \A i \in 1..10 : (s \o t)[i] = IF i <= 9 THEN s[i] ELSE t[i - 9]
<1>1. s \o t \in Seq(S) /\ Len(s \o t) = Len(s) + Len(t)
  BY ConcatProperties, Zenon
<1>2. \A i \in 1 .. Len(s) + Len(t) :
        (s \o t)[i] = IF i <= Len(s) THEN s[i] ELSE t[i - Len(s)]
  BY ConcatProperties, Zenon
<1>3. Len(s) + Len(t) = 10
  OBVIOUS
<1> QED
  BY <1>1, <1>2, <1>3, Zenon

\* Nybbles are numbers.
LEMMA NybbleIsNat == Nybble \subseteq Nat
BY DEF Nybble

\* Nine nybbles and their checksum are a packet that carries it.
LEMMA SealMakes ==
  ASSUME NEW nine \in Seq(Nybble), Len(nine) = 9
  PROVE  /\ Seal(nine) \in Packet
         /\ Seal(nine)[10] = Checksum(Seal(nine))
         /\ \A i \in 1..9 : Seal(nine)[i] = nine[i]
<1>1. \A i \in 1..9 : nine[i] \in Nybble
  BY ElementOfSeq
<1>2. Checksum(nine) \in Nybble
  BY <1>1, NybbleIsNat, ChecksumType
<1> DEFINE back   == <<Checksum(nine)>>
           sealed == nine \o back
<1>3. /\ sealed \in Seq(Nybble) /\ Len(sealed) = 10
      /\ sealed[10] = Checksum(nine)
      /\ \A i \in 1..9 : sealed[i] = nine[i]
  <2>1. back \in Seq(Nybble) /\ Len(back) = 1 /\ back[1] = Checksum(nine)
    BY <1>2
  <2> HIDE DEF back
  <2>2. /\ sealed \in Seq(Nybble) /\ Len(sealed) = 10
        /\ \A i \in 1..10 :
             sealed[i] = IF i <= 9 THEN nine[i] ELSE back[i - 9]
    BY <2>1, Join9And1, Zenon
  <2> HIDE DEF sealed
  <2> QED
    BY <2>1, <2>2
<1>4. Seal(nine) = sealed
  BY <1>2, AppendIsConcat DEF Seal
<1> HIDE DEF sealed
<1>5. Checksum(sealed) = Checksum(nine)
  BY <1>3 DEF Checksum
<1>6. sealed \in Packet
  BY <1>3, LenProperties DEF Packet
<1> QED
  BY <1>3, <1>4, <1>5, <1>6

\* The parts of a response make a packet that carries its checksum.
LEMMA PartsMake ==
  ASSUME NEW code \in Nybble, NEW low \in Nybble, NEW body \in Body,
         NEW last \in Nybble,
         NEW p, p = Seal(<<code, low>> \o body \o <<last>>)
  PROVE  /\ p \in Packet
         /\ p[10] = Checksum(p)
         /\ p[1] = code
         /\ \A i \in 1..6 : p[i + 2] = body[i]
<1> DEFINE front == <<code, low>>
           eight == front \o body
           back  == <<last>>
           nine  == eight \o back
<1>1. /\ front \in Seq(Nybble) /\ Len(front) = 2 /\ front[1] = code
      /\ back \in Seq(Nybble) /\ Len(back) = 1
  OBVIOUS
<1>2. body \in Seq(Nybble) /\ Len(body) = 6
  BY DEF Body
<1> HIDE DEF front, back
<1>3. /\ eight \in Seq(Nybble) /\ Len(eight) = 8
      /\ \A i \in 1..8 : eight[i] = IF i <= 2 THEN front[i] ELSE body[i - 2]
  BY <1>1, <1>2, Join2And6, Zenon
<1> HIDE DEF eight
<1>4. /\ nine \in Seq(Nybble) /\ Len(nine) = 9
      /\ \A i \in 1..9 : nine[i] = IF i <= 8 THEN eight[i] ELSE back[i - 8]
  <2>1. eight \in Seq(Nybble) /\ Len(eight) = 8
    BY <1>3
  <2>2. back \in Seq(Nybble) /\ Len(back) = 1
    BY <1>1
  <2> QED
    BY <2>1, <2>2, Join8And1, Zenon
<1>5. p = Seal(nine)
  BY DEF front, back, eight
<1> HIDE DEF nine
<1>6. /\ p \in Packet
      /\ p[10] = Checksum(p)
      /\ \A i \in 1..8 : p[i] = nine[i]
  BY <1>4, <1>5, SealMakes
<1>7. p[1] = code
  BY <1>1, <1>3, <1>4, <1>6
<1>8. ASSUME NEW i \in 1..6
      PROVE  p[i + 2] = body[i]
  <2>1. i + 2 \in 1..8 /\ ~(i + 2 <= 2) /\ (i + 2) - 2 = i
    OBVIOUS
  <2> QED
    BY <1>3, <1>4, <1>6, <2>1
<1> QED
  BY <1>6, <1>7, <1>8

\* to_bcd of any byte is two nybbles.
LEMMA BcdType ==
  ASSUME NEW n \in Nat
  PROVE  /\ ToBcd(n) \in Seq(Nybble) /\ Len(ToBcd(n)) = 2
         /\ ToBcd(n)[1] = (n \div 10) % 16 /\ ToBcd(n)[2] = n % 10
<1>1. (n \div 10) % 16 \in Nybble /\ n % 10 \in Nybble
  BY DEF Nybble
<1> QED
  BY <1>1 DEF ToBcd

\* A sequence of six holds three pairs in order.
Holds(six, a, b, c) ==
  /\ six[1] = a[1] /\ six[2] = a[2] /\ six[3] = b[1]
  /\ six[4] = b[2] /\ six[5] = c[1] /\ six[6] = c[2]

\* The same of three pairs.
LEMMA JoinPairs ==
  ASSUME NEW S, NEW A \in Seq(S), NEW B \in Seq(S), NEW C \in Seq(S),
         Len(A) = 2, Len(B) = 2, Len(C) = 2
  PROVE  /\ A \o B \o C \in Seq(S) /\ Len(A \o B \o C) = 6
         /\ Holds(A \o B \o C, A, B, C)
<1> DEFINE AB  == A \o B
           ABC == AB \o C
<1>1. /\ AB \in Seq(S) /\ Len(AB) = 4
      /\ \A i \in 1..4 : AB[i] = IF i <= 2 THEN A[i] ELSE B[i - 2]
  BY Join2And2, Zenon
<1> HIDE DEF AB
<1>2. /\ ABC \in Seq(S) /\ Len(ABC) = 6
      /\ \A i \in 1..6 : ABC[i] = IF i <= 4 THEN AB[i] ELSE C[i - 4]
  <2>1. AB \in Seq(S) /\ Len(AB) = 4
    BY <1>1
  <2> QED
    BY <2>1, Join4And2, Zenon
<1> HIDE DEF ABC
<1>3. Holds(ABC, A, B, C)
  BY <1>1, <1>2 DEF Holds
<1> QED
  BY <1>2, <1>3 DEF AB, ABC

\* The same.
LEMMA Join2And4 ==
  ASSUME NEW S, NEW s \in Seq(S), NEW t \in Seq(S), Len(s) = 2, Len(t) = 4
  PROVE  /\ s \o t \in Seq(S) /\ Len(s \o t) = 6
         /\ \A i \in 1..6 : (s \o t)[i] = IF i <= 2 THEN s[i] ELSE t[i - 2]
<1>1. s \o t \in Seq(S) /\ Len(s \o t) = Len(s) + Len(t)
  BY ConcatProperties, Zenon
<1>2. \A i \in 1 .. Len(s) + Len(t) :
        (s \o t)[i] = IF i <= Len(s) THEN s[i] ELSE t[i - Len(s)]
  BY ConcatProperties, Zenon
<1>3. Len(s) + Len(t) = 6
  OBVIOUS
<1> QED
  BY <1>1, <1>2, <1>3, Zenon

\* The fixed parts of responses are nybbles.
LEMMA FixedBodies ==
  /\ Blank \in Body
  /\ <<0, 2, 0, 0, 0, 0>> \in Body
  /\ <<0, 0>> = ToBcd(0)
<1>1. 0 \in Nybble /\ 2 \in Nybble
  BY DEF Nybble
<1>2. <<0, 0, 0, 0, 0, 0>> \in Body /\ <<0, 2, 0, 0, 0, 0>> \in Body
  BY <1>1 DEF Body
<1> QED
  BY <1>2 DEF Blank, ToBcd

\* A sequence starts with a pair.
Starts(six, pair) == six[1] = pair[1] /\ six[2] = pair[2]

\* A track number and four zeros.
LEMMA TrackBody ==
  ASSUME NEW n \in Nat
  PROVE  /\ ToBcd(n) \o <<0, 0, 0, 0>> \in Body
         /\ Starts(ToBcd(n) \o <<0, 0, 0, 0>>, ToBcd(n))
<1> DEFINE track == ToBcd(n)
           zeros == <<0, 0, 0, 0>>
<1>1. track \in Seq(Nybble) /\ Len(track) = 2
  BY BcdType
<1>2. 0 \in Nybble
  BY DEF Nybble
<1>3. zeros \in Seq(Nybble) /\ Len(zeros) = 4
  BY <1>2
<1> HIDE DEF track, zeros
<1>4. /\ track \o zeros \in Seq(Nybble) /\ Len(track \o zeros) = 6
      /\ \A i \in 1..6 :
           (track \o zeros)[i] = IF i <= 2 THEN track[i] ELSE zeros[i - 2]
  BY <1>1, <1>3, Join2And4, Zenon
<1>5. track \o zeros \in Body
  BY <1>4 DEF Body
<1>6. Starts(track \o zeros, track)
  BY <1>4 DEF Starts
<1> QED
  BY <1>5, <1>6 DEF track, zeros

\* geo_disc_lba_to_msf gives six nybbles, the minutes, the seconds and the
\* frames.
LEMMA MsfParts ==
  ASSUME NEW n \in Nat
  PROVE  /\ ToMsf(n) \in Body
         /\ Holds(ToMsf(n), ToBcd(n \div 4500), ToBcd((n \div 75) % 60),
                  ToBcd(n % 75))
<1> DEFINE A == ToBcd(n \div 4500)
           B == ToBcd((n \div 75) % 60)
           C == ToBcd(n % 75)
           ABC == A \o B \o C
<1>1. n \div 4500 \in Nat /\ (n \div 75) % 60 \in Nat /\ n % 75 \in Nat
  OBVIOUS
<1>2. /\ A \in Seq(Nybble) /\ Len(A) = 2
      /\ B \in Seq(Nybble) /\ Len(B) = 2
      /\ C \in Seq(Nybble) /\ Len(C) = 2
  BY <1>1, BcdType
<1>3. ToMsf(n) = ABC
  BY DEF ToMsf
<1> HIDE DEF A, B, C
<1>4. ABC \in Seq(Nybble) /\ Len(ABC) = 6 /\ Holds(ABC, A, B, C)
  BY <1>2, JoinPairs, Zenon
<1> HIDE DEF ABC
<1>5. ABC \in Body
  BY <1>4 DEF Body
<1> QED
  BY <1>3, <1>4, <1>5 DEF A, B, C

\* The codes of byte 0.
LEMMA CodeType ==
  ASSUME NEW status \in Status
  PROVE  StatusCode(status) \in Nybble
<1>1. 0 \in Nybble /\ 1 \in Nybble /\ 4 \in Nybble /\ 9 \in Nybble /\ 12 \in Nybble
  BY DEF Nybble
<1>2. /\ StatusCode("IDLE") = 0 /\ StatusCode("PLAY") = 1
      /\ StatusCode("PAUSE") = 4 /\ StatusCode("STOP") = 9
      /\ StatusCode("END") = 12
  BY DEF StatusCode
<1> QED
  BY <1>1, <1>2 DEF Status

\* A packet is ten nybbles, and what is cut out of one is nybbles.
LEMMA PacketParts ==
  ASSUME NEW p \in Packet
  PROVE  /\ \A i \in 1..10 : p[i] \in Nybble /\ p[i] \in Nat
         /\ SubSeq(p, 3, 8) \in Body
         /\ \A i \in 1..6 : SubSeq(p, 3, 8)[i] = p[i + 2]
<1>1. \A i \in 1..10 : p[i] \in Nybble /\ p[i] \in Nat
  BY NybbleIsNat DEF Packet
<1>2. \A i \in 3..8 : p[i] \in Nybble
  BY <1>1
<1>3. /\ SubSeq(p, 3, 8) \in Seq(Nybble)
      /\ Len(SubSeq(p, 3, 8)) = IF 3 <= 8 THEN 8 - 3 + 1 ELSE 0
      /\ \A i \in 1 .. 8 - 3 + 1 : SubSeq(p, 3, 8)[i] = p[3 + i - 1]
  BY <1>2, SubSeqProperties
<1>5. 8 - 3 + 1 = 6
  OBVIOUS
<1>6. SubSeq(p, 3, 8) \in Body
  BY <1>3, <1>5 DEF Body
<1>7. ASSUME NEW i \in 1..6
      PROVE  SubSeq(p, 3, 8)[i] = p[i + 2]
  <2>1. i \in 1 .. 8 - 3 + 1 /\ 3 + i - 1 = i + 2
    BY <1>5
  <2>2. SubSeq(p, 3, 8)[i] = p[3 + i - 1]
    BY <1>3, <2>1
  <2> QED
    BY <2>1, <2>2
<1> QED
  BY <1>1, <1>6, <1>7

(***************************************************************************)
(* Responses.                                                              *)
(***************************************************************************)

\* The response is a packet and carries its checksum.
Sealed == response \in Packet /\ ResponseIsSealed

\* Whatever its parts, a response is sealed.
LEMMA RespondSeals ==
  ASSUME NEW code \in Nybble, NEW low \in Nybble, NEW body \in Body,
         NEW last \in Nybble, Respond(code, low, body, last)
  PROVE  Sealed' /\ response'[1] = code
<1>1. /\ response' \in Packet
      /\ response'[10] = Checksum(response')
      /\ response'[1] = code
  BY PartsMake DEF Respond
<1> QED
  BY <1>1 DEF Sealed, ResponseIsSealed, Packet, Nybble, Checksum

\* The plain status.
LEMMA StatusSeals ==
  ASSUME driveStatus' \in Status, RespondStatus
  PROVE  Sealed' /\ response'[1] = StatusCode(driveStatus')
<1> DEFINE code == StatusCode(driveStatus')
<1>1. code \in Nybble /\ 0 \in Nybble
  BY CodeType DEF Nybble
<1>2. Respond(code, 0, Blank, 0)
  BY DEF RespondStatus
<1> HIDE DEF code
<1>3. Sealed' /\ response'[1] = code
  BY <1>1, <1>2, RespondSeals, FixedBodies
<1> QED
  BY <1>3 DEF code

\* A response of which only byte 0 is rewritten.
LEMMA CodeSeals ==
  ASSUME response \in Packet,
         NEW code \in Nybble, NEW low \in Nybble, RespondCode(code, low)
  PROVE  Sealed'
<1>1. SubSeq(response, 3, 8) \in Body /\ response[9] \in Nybble
  BY PacketParts
<1>2. Respond(code, low, SubSeq(response, 3, 8), response[9])
  BY DEF RespondCode
<1> QED
  BY <1>1, <1>2, RespondSeals

\* A pair in a sequence of nybbles, and two zeros behind it.
LEMMA PairsBody ==
  ASSUME NEW m \in Nat, NEW n \in Nat
  PROVE  ToBcd(m) \o ToBcd(n) \o <<0, 0>> \in Body
<1> DEFINE A == ToBcd(m)
           B == ToBcd(n)
           C == ToBcd(0)
<1>1. /\ A \in Seq(Nybble) /\ Len(A) = 2
      /\ B \in Seq(Nybble) /\ Len(B) = 2
      /\ C \in Seq(Nybble) /\ Len(C) = 2
  BY BcdType
<1>2. C = <<0, 0>>
  BY FixedBodies
<1> HIDE DEF A, B, C
<1>3. A \o B \o C \in Seq(Nybble) /\ Len(A \o B \o C) = 6
  BY <1>1, JoinPairs, Zenon
<1>4. A \o B \o C \in Body
  BY <1>3 DEF Body
<1> QED
  BY <1>2, <1>4 DEF A, B

\* A body is six nybbles, and stays one when a nybble is replaced.
LEMMA BodyParts ==
  ASSUME NEW body \in Body
  PROVE  /\ \A i \in 1..6 : body[i] \in Nybble /\ body[i] \in Nat
         /\ \A n \in Nybble : [body EXCEPT ![5] = n] \in Body
<1>1. body \in Seq(Nybble) /\ Len(body) = 6
  BY DEF Body
<1>2. body \in [1..6 -> Nybble]
  BY <1>1, LenProperties
<1>3. \A i \in 1..6 : body[i] \in Nybble /\ body[i] \in Nat
  BY <1>2, NybbleIsNat
<1>4. ASSUME NEW n \in Nybble
      PROVE  [body EXCEPT ![5] = n] \in Body
  <2> DEFINE changed == [body EXCEPT ![5] = n]
  <2>1. 5 \in 1..Len(body)
    BY <1>1
  <2>2. changed \in Seq(Nybble)
    BY <1>1, <2>1, ExceptSeq
  <2>3. Len(changed) = Len(body)
    BY <1>1, <2>1, ExceptSeq
  <2> QED
    BY <1>1, <2>2, <2>3 DEF Body
<1> QED
  BY <1>3, <1>4

\* The fifth nybble of an address has room for the data flag.
LEMMA FlaggedBody ==
  ASSUME NEW n \in Nat, NEW flag \in {0, 8}
  PROVE  [ToMsf(n) EXCEPT ![5] = @ + flag] \in Body
<1> DEFINE msf == ToMsf(n)
<1>1. msf \in Body
  BY MsfParts
<1>2. msf[5] = ToBcd(n % 75)[1]
  <2>1. Holds(msf, ToBcd(n \div 4500), ToBcd((n \div 75) % 60), ToBcd(n % 75))
    BY MsfParts
  <2> HIDE DEF msf
  <2> QED
    BY <2>1 DEF Holds
<1>3. n % 75 \in Nat /\ n % 75 < 75
  OBVIOUS
<1>4. ((n % 75) \div 10) % 16 \in 0..7
  BY <1>3
<1>5. msf[5] \in 0..7
  BY <1>2, <1>3, <1>4, BcdType
<1> HIDE DEF msf
<1>6. msf[5] + flag \in Nybble
  BY <1>5 DEF Nybble
<1>7. [msf EXCEPT ![5] = msf[5] + flag] \in Body
  BY <1>1, <1>6, BodyParts
<1> QED
  BY <1>7 DEF msf

\* The answers to the TOC queries are sealed.
LEMMA QuerySeals ==
  ASSUME DriveInv, driveStatus' \in Status, cmd \in Packet,
         NEW sub \in Nybble, RespondQuery(sub)
  PROVE  Sealed'
<1> DEFINE here  == FindTrack(playLba)
           flag  == TypeFlag(IsAudio(here))
           asked == FromBcd(cmd[5], cmd[6])
           start == ToMsf(TrackStart(asked) + Pregap)
           code  == StatusCode(driveStatus')
           index == IF IsAudio(here) THEN 1 ELSE DataIndex
<1>1. code \in Nybble
  BY CodeType
<1>2. flag \in Nybble /\ 0 \in Nybble /\ 1 \in Nat
  BY DEF TypeFlag, Nybble
<1>3. /\ playLba \in Nat /\ Leadout \in Nat /\ Pregap \in Nat
      /\ TrackStart(asked) \in Nat /\ Len(Tracks) \in Nat
  BY StartOnDisc, DiscAssumption, TimingAssumption DEF DriveInv, TypeOK, Lba
<1>4. here \in Nat
  <2>1. here \in TrackNumbers
    BY SearchType DEF FindTrack, DriveInv, TypeOK
  <2> QED
    BY <2>1, TrackType
<1>5. index \in Nat
  BY <1>3 DEF DataIndex
<1>6. cmd[6] \in Nybble
  BY PacketParts
<1>7. CASE sub \in {0, 1}
  <2>1. Respond(code, sub, ToMsf(playLba + Pregap), flag)
    BY <1>7 DEF RespondQuery
  <2>2. ToMsf(playLba + Pregap) \in Body
    BY <1>3, MsfParts
  <2> HIDE DEF code, flag
  <2> QED
    BY <1>1, <1>2, <2>1, <2>2, RespondSeals
<1>8. CASE sub = 2
  <2>1. Respond(code, sub, ToBcd(here) \o ToBcd(index) \o <<0, 0>>, flag)
    BY <1>8 DEF RespondQuery
  <2> HIDE DEF code, flag, here, index
  <2>2. ToBcd(here) \o ToBcd(index) \o <<0, 0>> \in Body
    BY <1>4, <1>5, PairsBody
  <2> QED
    BY <1>1, <1>2, <2>1, <2>2, RespondSeals
<1>9. CASE sub = 3
  <2>1. Respond(code, sub, ToMsf(Leadout + Pregap), 0)
    BY <1>9 DEF RespondQuery
  <2>2. ToMsf(Leadout + Pregap) \in Body
    BY <1>3, MsfParts
  <2> HIDE DEF code
  <2> QED
    BY <1>1, <1>2, <2>1, <2>2, RespondSeals
<1>10. CASE sub = 4
  <2>1. Respond(code, sub, ToBcd(1) \o ToBcd(Len(Tracks)) \o <<0, 0>>, 0)
    BY <1>10 DEF RespondQuery
  <2>2. ToBcd(1) \o ToBcd(Len(Tracks)) \o <<0, 0>> \in Body
    BY <1>2, <1>3, PairsBody
  <2> HIDE DEF code
  <2> QED
    BY <1>1, <1>2, <2>1, <2>2, RespondSeals
<1>11. CASE sub = 5
  <2> DEFINE mark   == IF IsAudio(asked) THEN 0 ELSE 8
             marked == [start EXCEPT ![5] = @ + mark]
  <2>1. Respond(code, sub,
                [start EXCEPT ![5] = IF IsAudio(asked) THEN @ ELSE @ + 8],
                cmd[6])
    BY <1>11 DEF RespondQuery
  <2>2. start[5] \in Nat
    <3> DEFINE first == TrackStart(asked) + Pregap
    <3>1. first \in Nat
      BY <1>3
    <3> HIDE DEF first
    <3>2. ToMsf(first) \in Body
      BY <3>1, MsfParts
    <3>3. start \in Body
      BY <3>2 DEF first
    <3> HIDE DEF start
    <3> QED
      BY <3>3, BodyParts
  <2>3. (IF IsAudio(asked) THEN start[5] ELSE start[5] + 8) = start[5] + mark
    BY <2>2
  <2>4. Respond(code, sub, marked, cmd[6])
    BY <2>1, <2>3
  <2>5. marked \in Body
    <3>1. TrackStart(asked) + Pregap \in Nat /\ mark \in {0, 8}
      BY <1>3
    <3> QED
      BY <3>1, FlaggedBody, Zenon
  <2> HIDE DEF code, marked
  <2> QED
    BY <1>1, <1>6, <2>4, <2>5, RespondSeals
<1>12. CASE sub = 6
  <2>1. Respond(code, sub, Blank, flag)
    BY <1>12 DEF RespondQuery
  <2> HIDE DEF code, flag
  <2> QED
    BY <1>1, <1>2, <2>1, FixedBodies, RespondSeals
<1>13. CASE sub = 7
  <2>1. Respond(code, sub, <<0, 2, 0, 0, 0, 0>>, 0)
    BY <1>13 DEF RespondQuery
  <2> HIDE DEF code
  <2> QED
    BY <1>1, <1>2, <2>1, FixedBodies, RespondSeals
<1>14. CASE sub \notin 0..7
  <2>1. RespondStatus
    BY <1>14 DEF RespondQuery
  <2> QED
    BY <2>1, StatusSeals
<1> QED
  BY <1>7, <1>8, <1>9, <1>10, <1>11, <1>12, <1>13, <1>14

(***************************************************************************)
(* The invariant.                                                          *)
(***************************************************************************)

\* The drive's own invariant, whole packets, and a response with a right
\* checksum: a partial rewrite keeps the rest of a response that was whole.
CommInv == DriveInv /\ TypeOKComm /\ ResponseIsSealed

\* Whatever a packet asks for, the drive keeps its invariant.
LEMMA ExecuteDrive ==
  ASSUME CommInv, Execute
  PROVE  DriveInv'
<1>1. /\ cmd[4] \in Nat /\ Address(cmd) \in Nat
      /\ FromBcd(cmd[3], cmd[4]) \in Nat
  <2> DEFINE arg == SubSeq(cmd, 3, 8)
  <2>1. cmd \in Packet
    BY DEF CommInv, TypeOKComm
  <2>2. arg \in Body /\ cmd[3] \in Nat /\ cmd[4] \in Nat
    BY <2>1, PacketParts
  <2> HIDE DEF arg
  <2>3. \A i \in 1..6 : arg[i] \in Nat
    BY <2>2, BodyParts
  <2>4. /\ arg[1] \in Nat /\ arg[2] \in Nat /\ arg[3] \in Nat
        /\ arg[4] \in Nat /\ arg[5] \in Nat /\ arg[6] \in Nat
    BY <2>3
  <2>5. FromMsf(arg) \in Nat
    BY <2>4 DEF FromMsf, FromBcd
  <2> QED
    BY <2>2, <2>5 DEF Address, FromBcd, arg
<1>2. CASE UNCHANGED driveVars
  BY <1>2, StutterInv DEF CommInv
<1>3. CASE AnyCommand
  BY <1>3, CommandInv DEF CommInv
<1>4. UNCHANGED driveVars \/ AnyCommand
  BY <1>1 DEF Execute, AnyCommand
<1> QED
  BY <1>2, <1>3, <1>4

\* Whatever a packet asks for, the answer is sealed.
LEMMA ExecuteSeals ==
  ASSUME CommInv, Execute
  PROVE  Sealed'
<1>1. driveStatus \in Status /\ driveStatus' \in Status
  BY ExecuteDrive DEF CommInv, DriveInv, TypeOK
<1>2. response \in Packet /\ cmd \in Packet /\ DriveInv
  BY DEF CommInv, TypeOKComm
<1>3. /\ response[2] \in Nybble /\ cmd[4] \in Nybble
      /\ 0 \in Nybble /\ 2 \in Nybble /\ ScanCode \in Nybble /\ SeekCode \in Nybble
  BY <1>2, PacketParts DEF Nybble, ScanCode, SeekCode
<1>4. /\ StatusCode(driveStatus) \in Nybble /\ StatusCode(driveStatus') \in Nybble
      /\ StatusCode("PLAY") \in Nybble /\ StatusCode("PAUSE") \in Nybble
  BY <1>1, CodeType DEF Status
<1>5. CASE RespondStatus
  BY <1>1, <1>5, StatusSeals
<1>6. ASSUME NEW code \in Nybble, NEW low \in Nybble, RespondCode(code, low)
      PROVE  Sealed'
  BY <1>2, <1>6, CodeSeals
<1>7. CASE RespondQuery(cmd[4])
  BY <1>1, <1>2, <1>3, <1>7, QuerySeals
<1>8. CASE \E n \in Nat :
             Respond(StatusCode("PLAY"), 2, ToBcd(n) \o <<0, 0, 0, 0>>, 0)
  <2>1. PICK n \in Nat :
             Respond(StatusCode("PLAY"), 2, ToBcd(n) \o <<0, 0, 0, 0>>, 0)
    BY <1>8
  <2> QED
    BY <1>3, <1>4, <2>1, TrackBody, RespondSeals
<1>9. CASE Respond(SeekCode, 0, Blank, 0)
  BY <1>3, <1>9, FixedBodies, RespondSeals
<1>10. FindTrack(LbaOf(Address(cmd))) \in Nat
  <2>1. FindTrack(LbaOf(Address(cmd))) \in TrackNumbers
    BY SearchType DEF FindTrack, CommInv, DriveInv, TypeOK
  <2> QED
    BY <2>1, TrackType
<1>11. FromBcd(cmd[3], cmd[4]) \in Nat
  BY <1>2, PacketParts DEF FromBcd
<1>12. \/ RespondStatus
       \/ \E code, low \in Nybble : RespondCode(code, low)
       \/ RespondQuery(cmd[4])
       \/ \E n \in Nat :
            Respond(StatusCode("PLAY"), 2, ToBcd(n) \o <<0, 0, 0, 0>>, 0)
       \/ Respond(SeekCode, 0, Blank, 0)
  BY <1>3, <1>4, <1>10, <1>11 DEF Execute
<1> QED
  BY <1>5, <1>6, <1>7, <1>8, <1>9, <1>12

\* The response after reset is sealed.
LEMMA FirstSealed ==
  /\ FirstResponse \in Packet
  /\ FirstResponse[10] = Checksum(FirstResponse)
<1>1. StatusCode("STOP") \in Nybble /\ 0 \in Nybble
  BY CodeType DEF Status, Nybble
<1> QED
  BY <1>1, FixedBodies, PartsMake DEF FirstResponse

\* A machine that was just powered on satisfies the invariant.
LEMMA InitCommInv == Init => CommInv
<1> SUFFICES ASSUME Init PROVE CommInv
  OBVIOUS
<1>1. DriveInv
  BY InitInv DEF Init
<1>2. cmd \in Packet
  BY DEF Init, Packet, Nybble
<1>3. TypeOKComm
  BY <1>1, <1>2, FirstSealed DEF Init, TypeOKComm, DriveInv
<1>4. ResponseIsSealed
  BY FirstSealed DEF Init, ResponseIsSealed
<1> QED
  BY <1>1, <1>3, <1>4 DEF CommInv

\* Software writes nybbles.
LEMMA NextNybblesType == CommInv => NextNybbles \subseteq Nybble
<1> SUFFICES ASSUME CommInv PROVE NextNybbles \subseteq Nybble
  OBVIOUS
<1>1. Checksum(cmd) \in Nybble
  BY PacketParts, ChecksumType DEF CommInv, TypeOKComm
<1>2. (Checksum(cmd) + 1) % 16 \in Nybble
  BY <1>1 DEF Nybble
<1>3. CASE cmdNybble = 9
  BY <1>1, <1>2, <1>3 DEF NextNybbles
<1>4. CASE cmdNybble # 9
  <2>1. cmdNybble + 1 \in 1..9
    BY <1>4 DEF CommInv, TypeOKComm
  <2>2. \A p \in Packets : p[cmdNybble + 1] \in Nybble
    BY <2>1, PacketsAssumption DEF Nybble
  <2> QED
    BY <1>4, <2>2 DEF NextNybbles
<1> QED
  BY <1>3, <1>4

\* A drive that keeps its invariant, pointers in range and a packet that is
\* sealed are all there is to keep.
LEMMA CommInvNext ==
  ASSUME DriveInv', Sealed', cmd' \in Packet, cmdNybble' \in 0..9,
         statNybble' \in 0..9, strobe' \in {0, 1}
  PROVE  CommInv'
BY DEF CommInv, TypeOKComm, Sealed, DriveInv

\* Every step keeps the invariant.
LEMMA StepCommInv == CommInv /\ [NextComm]_commVars => CommInv'
<1> SUFFICES ASSUME CommInv, [NextComm]_commVars PROVE CommInv'
  OBVIOUS
<1>a. /\ DriveInv /\ Sealed /\ cmd \in Packet /\ cmdNybble \in 0..9
      /\ statNybble \in 0..9 /\ strobe \in {0, 1}
  BY DEF CommInv, TypeOKComm, Sealed
<1>b. ASSUME UNCHANGED response PROVE Sealed'
  BY <1>a, <1>b DEF Sealed, ResponseIsSealed, Checksum
<1>c. ASSUME UNCHANGED driveVars PROVE DriveInv'
  BY <1>a, <1>c, StutterInv
<1>1. ASSUME NEW n \in NextNybbles, WriteOutput(n) PROVE CommInv'
  <2>1. n \in Nybble /\ cmdNybble + 1 \in 1..10
    BY <1>1, <1>a, NextNybblesType
  <2>2. cmd' \in Packet
    BY <1>1, <1>a, <2>1 DEF WriteOutput, Packet
  <2> QED
    BY <1>1, <1>a, <1>b, <1>c, <2>2, CommInvNext DEF WriteOutput
<1>2. CASE ClockCommand
  <2>1. cmdNybble' \in 0..9
    BY <1>2, <1>a DEF ClockCommand
  <2>2. DriveInv' /\ Sealed'
    BY <1>2, <1>b, <1>c, ExecuteDrive, ExecuteSeals DEF ClockCommand
  <2> QED
    BY <1>2, <1>a, <2>1, <2>2, CommInvNext DEF ClockCommand
<1>3. CASE ClockResponse
  <2>1. statNybble' \in 0..9 /\ strobe' \in {0, 1}
    BY <1>3, <1>a DEF ClockResponse
  <2> QED
    BY <1>3, <1>a, <1>b, <1>c, <2>1, CommInvNext DEF ClockResponse
<1>4. CASE SetStrobe
  BY <1>4, <1>a, <1>b, <1>c, CommInvNext DEF SetStrobe
<1>5. CASE ResetPointers
  BY <1>5, <1>a, <1>b, <1>c, CommInvNext DEF ResetPointers
<1>6. CASE WriteDriveReset
  <2>1. DriveInv'
    BY <1>6, <1>a, CommandInv DEF WriteDriveReset, AnyCommand
  <2> QED
    BY <1>6, <1>a, <1>b, <2>1, CommInvNext DEF WriteDriveReset, packetVars
<1>7. CASE Reset
  <2>1. DriveInv'
    BY <1>7, <1>a, CommandInv DEF Reset, AnyCommand
  <2>2. Sealed'
    BY <1>7, FirstSealed
       DEF Reset, Sealed, ResponseIsSealed, Checksum, FirstResponse
  <2>3. cmd' \in Packet
    BY <1>7 DEF Reset, Packet, Nybble
  <2> QED
    BY <1>7, <2>1, <2>2, <2>3, CommInvNext DEF Reset
<1>8. CASE (Timer \/ ReadCdda) /\ UNCHANGED packetVars
  BY <1>8, <1>a, <1>b, DeviceInv, CommInvNext DEF packetVars
<1>9. CASE UNCHANGED commVars
  BY <1>9, <1>a, <1>b, <1>c, CommInvNext DEF commVars, packetVars
<1> QED
  BY <1>1, <1>2, <1>3, <1>4, <1>5, <1>6, <1>7, <1>8, <1>9 DEF NextComm

(***************************************************************************)
(* The results.                                                            *)
(***************************************************************************)

\* The packet protocol always satisfies the invariant.
THEOREM CommInvariance == SpecComm => []CommInv
BY InitCommInv, StepCommInv, PTL DEF SpecComm

\* Packets stay packets of nybbles and pointers within them, whatever
\* software sends and wherever it stops.
THEOREM CommTypeCorrect == SpecComm => []TypeOKComm
<1>1. CommInv => TypeOKComm
  BY DEF CommInv
<1> QED
  BY <1>1, CommInvariance, PTL

\* The response that software reads carries a right checksum at all times.
THEOREM SealCorrect == SpecComm => []ResponseIsSealed
<1>1. CommInv => ResponseIsSealed
  BY DEF CommInv
<1> QED
  BY <1>1, CommInvariance, PTL

\* The drive keeps its properties under any packets, not only the bounded
\* commands of its own specification.
THEOREM CommDriveCorrect ==
  SpecComm => [](/\ TrackCacheCoherent
                 /\ SoundIsAudio
                 /\ SilentUnlessPlaying
                 /\ OnlyAudioIsHeard)
<1>1. CommInv => /\ TrackCacheCoherent
                 /\ SoundIsAudio
                 /\ SilentUnlessPlaying
                 /\ OnlyAudioIsHeard
  BY FilledCoherent DEF CommInv, DriveInv, TrackCacheCoherent
<1> QED
  BY <1>1, CommInvariance, PTL

\* A packet with a wrong checksum is answered and otherwise ignored.
THEOREM BadPacketCorrect == SpecComm => BadPacketIsInert
<1>1. ASSUME CommInv, Executes, cmd[10] # Checksum(cmd)
      PROVE  UNCHANGED driveVars /\ response'[1] = StatusCode(driveStatus)
  <2>1. cmdNybble' = 0
    BY <1>1 DEF Executes, ClockCommand
  <2>2. Execute
    BY <1>1, <2>1 DEF Executes, ClockCommand
  <2>3. UNCHANGED driveVars /\ RespondStatus
    BY <1>1, <2>2 DEF Execute, Valid
  <2>4. driveStatus' = driveStatus /\ driveStatus' \in Status
    BY <1>1, <2>3 DEF driveVars, CommInv, DriveInv, TypeOK
  <2> QED
    BY <2>3, <2>4, StatusSeals
<1>2. CommInv /\ [NextComm]_commVars =>
        [Executes /\ cmd[10] # Checksum(cmd) =>
           /\ UNCHANGED driveVars
           /\ response'[1] = StatusCode(driveStatus)]_commVars
  BY <1>1
<1> QED
  BY <1>2, CommInvariance, PTL DEF SpecComm, BadPacketIsInert

\* from_bcd takes back what to_bcd wrote, as far as a nybble of tens goes.
LEMMA BcdRoundTrip ==
  ASSUME NEW n \in Nat, n < 160
  PROVE  FromBcd(ToBcd(n)[1], ToBcd(n)[2]) = n
<1>1. n \div 10 \in 0..15
  OBVIOUS
<1>2. (n \div 10) % 16 = n \div 10
  BY <1>1
<1>3. 10 * (n \div 10) + (n % 10) = n
  OBVIOUS
<1> QED
  BY <1>2, <1>3, BcdType DEF FromBcd

\* An address survives the way to software and back.
LEMMA MsfRoundTrip ==
  ASSUME NEW n \in Nat, n < 160 * 4500
  PROVE  FromMsf(ToMsf(n)) = n
<1> DEFINE m == n \div 4500
           s == (n \div 75) % 60
           f == n % 75
           msf == ToMsf(n)
<1>1. m \in Nat /\ m < 160 /\ s \in Nat /\ s < 160 /\ f \in Nat /\ f < 160
  OBVIOUS
<1>2. Holds(msf, ToBcd(m), ToBcd(s), ToBcd(f))
  BY MsfParts
<1>3. 4500 * m + 75 * s + f = n
  <2> DEFINE q == n \div 75
  <2>1. q \in Nat /\ 75 * q + f = n
    OBVIOUS
  <2>2. m = q \div 60
    OBVIOUS
  <2> HIDE DEF q
  <2>3. 60 * (q \div 60) + (q % 60) = q
    BY <2>1
  <2> QED
    BY <1>1, <2>1, <2>2, <2>3 DEF q
<1> HIDE DEF m, s, f, msf
<1>4. /\ FromBcd(ToBcd(m)[1], ToBcd(m)[2]) = m
      /\ FromBcd(ToBcd(s)[1], ToBcd(s)[2]) = s
      /\ FromBcd(ToBcd(f)[1], ToBcd(f)[2]) = f
  BY <1>1, BcdRoundTrip
<1>5. FromMsf(msf) = 4500 * m + 75 * s + f
  BY <1>2, <1>4 DEF FromMsf, Holds
<1> QED
  BY <1>3, <1>5 DEF msf

\* The search finds a track at its own start.
LEMMA SearchAtStart ==
  ASSUME NEW track \in TrackNumbers
  PROVE  Search(TrackStart(track)) = track
<1>1. TrackStart(track) = Tracks[track].start /\ Tracks[track].start \in Nat
  BY TrackType DEF TrackStart
<1>2. CacheEntry(track).start = TrackStart(track)
  BY DEF CacheEntry
<1>3. TrackStart(track) < CacheEntry(track).end
  <2>1. track \in Nat /\ Len(Tracks) \in TrackNumbers
    BY TrackType
  <2>2. CASE track < Len(Tracks)
    <3>1. track + 1 \in TrackNumbers /\ track < track + 1
      BY <2>1, <2>2 DEF TrackNumbers
    <3>2. Tracks[track].start < Tracks[track + 1].start
      BY <3>1, DiscAssumption
    <3> QED
      BY <1>1, <2>2, <3>1, <3>2 DEF CacheEntry, TrackStart
  <2>3. CASE ~(track < Len(Tracks))
    <3>1. track = Len(Tracks)
      BY <2>1, <2>3 DEF TrackNumbers
    <3> QED
      BY <1>1, <2>3, <3>1, DiscAssumption DEF CacheEntry
  <2> QED
    BY <2>2, <2>3
<1> QED
  BY <1>1, <1>2, <1>3, EntryCoherent

\* The address a TOC query gives for a track starts that track.  The tens of
\* minutes are one nybble: the disc must be shorter than 160 minutes, and
\* would otherwise not be addressable at all.
THEOREM TocCorrect ==
  ASSUME \A track \in TrackNumbers : TrackStart(track) + Pregap < 160 * 4500
  PROVE  SpecComm => PlayFollowsToc
<1> DEFINE Sent(track) ==
      /\ Executes /\ cmd[10] = Checksum(cmd)
      /\ cmd[1] = 3 /\ cmd[2] = 0
      /\ SubSeq(cmd, 3, 8) = ToMsf(TrackStart(track) + Pregap)
           Plays(track) ==
      /\ playLba' = TrackStart(track)
      /\ audio' = IsAudio(track)
      /\ SubSeq(response', 3, 4) = ToBcd(track)
<1>1. ASSUME CommInv, NEW track \in TrackNumbers, Sent(track)
      PROVE  Plays(track)
  <2> DEFINE start == TrackStart(track)
  <2>1. cmdNybble' = 0
    BY <1>1 DEF Executes, ClockCommand
  <2>2. Execute
    BY <1>1, <2>1 DEF Executes, ClockCommand
  <2>3. Opcode(cmd) = 48 /\ Valid(cmd)
    BY <1>1 DEF Opcode, Valid
  <2>4. /\ Play(Address(cmd))
        /\ Respond(StatusCode("PLAY"), 2,
                   ToBcd(FindTrack(LbaOf(Address(cmd)))) \o <<0, 0, 0, 0>>, 0)
    BY <2>2, <2>3 DEF Execute, KnownOpcodes
  <2>5. start \in Nat /\ start <= MaxLba /\ start \in Lba /\ Pregap \in Nat
    BY StartOnDisc, DiscAssumption, TimingAssumption DEF Lba
  <2>6. Address(cmd) = start + Pregap
    <3> DEFINE at  == start + Pregap
               arg == SubSeq(cmd, 3, 8)
    <3>1. at \in Nat /\ at < 160 * 4500
      BY <1>1, <2>5
    <3>2. arg = ToMsf(at)
      BY <1>1
    <3> HIDE DEF at, arg
    <3>3. FromMsf(ToMsf(at)) = at
      BY <3>1, MsfRoundTrip
    <3>4. FromMsf(arg) = at
      BY <3>2, <3>3
    <3> QED
      BY <3>4 DEF Address, at, arg
  <2>7. LbaOf(Address(cmd)) = start
    BY <2>5, <2>6, DiscAssumption DEF LbaOf, Saturate
  <2>8. FindTrack(start) = track
    BY <1>1, <2>5, FindTrackIsSearch, SearchAtStart DEF CommInv, DriveInv
  <2>9. playLba' = start /\ audio' = IsAudio(track)
    BY <2>4, <2>7, <2>8 DEF Play, StartTrack
  <2>10. SubSeq(response', 3, 4) = ToBcd(track)
    <3>1. Respond(StatusCode("PLAY"), 2, ToBcd(track) \o <<0, 0, 0, 0>>, 0)
      BY <2>4, <2>7, <2>8
    <3>2. track \in Nat
      BY TrackType
    <3> DEFINE body == ToBcd(track) \o <<0, 0, 0, 0>>
               code == StatusCode("PLAY")
               two  == SubSeq(response', 3, 4)
    <3>3. body \in Body /\ body[1] = ToBcd(track)[1] /\ body[2] = ToBcd(track)[2]
      <4>1. body \in Body
        BY <3>2, TrackBody
      <4>2. Starts(body, ToBcd(track))
        BY <3>2, TrackBody
      <4> HIDE DEF body
      <4> QED
        BY <4>1, <4>2 DEF Starts
    <3>4. code \in Nybble /\ 0 \in Nybble /\ 2 \in Nybble
      BY CodeType DEF Status, Nybble
    <3>5. Respond(code, 2, body, 0)
      BY <3>1
    <3> HIDE DEF body, code
    <3>6. /\ response' \in Packet
          /\ \A i \in 1..6 : response'[i + 2] = body[i]
      BY <3>3, <3>4, <3>5, PartsMake DEF Respond
    <3>7. response'[3] = ToBcd(track)[1] /\ response'[4] = ToBcd(track)[2]
      <4>1. response'[1 + 2] = body[1] /\ response'[2 + 2] = body[2]
        BY <3>6
      <4> QED
        BY <3>3, <4>1
    <3>8. \A i \in 3..4 : response'[i] \in Nybble
      BY <3>6 DEF Packet
    <3>9. /\ two \in Seq(Nybble)
          /\ Len(two) = IF 3 <= 4 THEN 4 - 3 + 1 ELSE 0
          /\ \A i \in 1 .. 4 - 3 + 1 : two[i] = response'[3 + i - 1]
      BY <3>8, SubSeqProperties
    <3>10. Len(two) = 2 /\ two[1] = response'[3] /\ two[2] = response'[4]
      BY <3>9
    <3> HIDE DEF two
    <3>11. ToBcd(track) \in Seq(Nybble) /\ Len(ToBcd(track)) = 2
      BY <3>2, BcdType
    <3>12. two = ToBcd(track)
      <4>1. \A i \in 1..2 : two[i] = ToBcd(track)[i]
        BY <3>7, <3>10
      <4> QED
        BY <3>9, <3>10, <3>11, <4>1, SeqEqual
    <3> QED
      BY <3>12 DEF two
  <2> QED
    BY <2>9, <2>10
<1>2. CommInv /\ [NextComm]_commVars =>
        [\A track \in TrackNumbers : Sent(track) => Plays(track)]_commVars
  BY <1>1
<1> QED
  BY <1>2, CommInvariance, PTL DEF SpecComm, PlayFollowsToc
=============================================================================

------------------------------ MODULE DiskHead ------------------------------
(***************************************************************************)
(* The timing of machine/disk.cc: where the head is, what the track buffer *)
(* holds, and after how many ticks a request is done.  SynchDisk leaves    *)
(* the time out; here one request follows another at any distance, as its  *)
(* lock makes them.                                                        *)
(***************************************************************************)
EXTENDS Integers

CONSTANTS SectorsPerTrack, NumTracks,
          RotationTime,  \* time disk takes to rotate one sector
          SeekTime,      \* time disk takes to seek past one track
          MaxTicks       \* bound: no request is made after this tick

ASSUME HeadConstants ==
  /\ SectorsPerTrack \in Nat \ {0}
  /\ NumTracks \in Nat \ {0}
  /\ RotationTime \in Nat \ {0}
  /\ SeekTime \in Nat \ {0}
  /\ MaxTicks \in Nat

NumSectors == SectorsPerTrack * NumTracks

VARIABLES totalTicks,  \* kernel->stats->totalTicks
          lastSector,  \* the previous disk request
          bufferInit,  \* when the track buffer started being loaded
          completes,   \* when the request in progress completes
          latest,      \* the request in progress: what was asked, and when
          arrived      \* when the head came to the track it is on

headVars == <<totalTicks, lastSector, bufferInit, completes, latest, arrived>>

abs(n) == IF n < 0 THEN -n ELSE n

(***************************************************************************)
(* The arithmetic of the disk.                                             *)
(***************************************************************************)
Track(sector) == sector \div SectorsPerTrack

\* TimeToSeek returns the seek and, through its argument, the rotation to
\* the next sector boundary.
Seek(newSector) == abs(Track(newSector) - Track(lastSector)) * SeekTime

Rotation(newSector) ==
  LET over == (totalTicks + Seek(newSector)) % RotationTime
  IN  IF over > 0 THEN RotationTime - over ELSE 0

ModuloDiff(to, from) ==
  ((to % SectorsPerTrack) - (from % SectorsPerTrack) + SectorsPerTrack) % SectorsPerTrack

TimeAfter(newSector) == totalTicks + Seek(newSector) + Rotation(newSector)

\* The sector just being read counts as read.
BufferAppliesEarly(newSector, writing) ==
  /\ ~ writing
  /\ Seek(newSector) = 0
  /\ (TimeAfter(newSector) - bufferInit) \div RotationTime
       >= ModuloDiff(newSector, bufferInit \div RotationTime)

\* The track buffer has the sector already.
BufferApplies(newSector, writing) ==
  /\ ~ writing
  /\ Seek(newSector) = 0
  /\ (TimeAfter(newSector) - bufferInit) \div RotationTime
       > ModuloDiff(newSector, bufferInit \div RotationTime)

ComputeLatency(newSector, writing) ==
  IF BufferApplies(newSector, writing)
  THEN RotationTime
  ELSE Seek(newSector) + Rotation(newSector)
         + ModuloDiff(newSector, TimeAfter(newSector) \div RotationTime) * RotationTime
         + RotationTime

UpdateLast(newSector) ==
  /\ bufferInit' = IF Seek(newSector) # 0 THEN TimeAfter(newSector) ELSE bufferInit
  /\ lastSector' = newSector

(***************************************************************************)
(* ReadRequest and WriteRequest, after the last one has completed, and the *)
(* time between.                                                           *)
(***************************************************************************)
HeadRequest(newSector, writing) ==
  /\ totalTicks >= completes
  /\ totalTicks <= MaxTicks
  /\ completes' = totalTicks + ComputeLatency(newSector, writing)
  /\ UpdateLast(newSector)
  /\ arrived' = IF Seek(newSector) # 0 THEN totalTicks + Seek(newSector) ELSE arrived
  /\ latest' = [sector |-> newSector, seek |-> Seek(newSector), at |-> totalTicks,
              buffered |-> BufferApplies(newSector, writing), since |-> bufferInit]
  /\ UNCHANGED totalTicks

Tick == /\ totalTicks <= MaxTicks
        /\ totalTicks' = totalTicks + 1
        /\ UNCHANGED <<lastSector, bufferInit, completes, latest, arrived>>

HeadInit ==
  /\ totalTicks = 0 /\ completes = 0
  /\ lastSector = 0 /\ bufferInit = 0 /\ arrived = 0
  /\ latest = [sector |-> 0, seek |-> 0, at |-> 0, buffered |-> FALSE, since |-> 0]

HeadNext == Tick \/ \E s \in 0..(NumSectors - 1), writing \in BOOLEAN : HeadRequest(s, writing)

HeadSpec == HeadInit /\ [][HeadNext]_headVars

(***************************************************************************)
(* Properties.  The sector under the head changes every RotationTime       *)
(* ticks; sector s is read from its beginning in the slots that start at   *)
(* a multiple of RotationTime with s under the head.                       *)
(***************************************************************************)
UnderHead(s, t) == /\ t % RotationTime = 0
                   /\ (t \div RotationTime) % SectorsPerTrack = s % SectorsPerTrack

Requested == completes > 0

\* A request served by the medium ends when the whole sector has just passed
\* under the head, and not a turn later than it has to: the head has come to
\* the track, and the sector is the first complete pass since
\* (disk.cc:229-250).
WholeSectorPasses == (Requested /\ ~ latest.buffered) =>
  LET start == completes - RotationTime
  IN  /\ UnderHead(latest.sector, start)
      /\ start >= latest.at + latest.seek
      /\ \A t \in (latest.at + latest.seek)..(start - 1) : ~ UnderHead(latest.sector, t)

\* A request served by the track buffer asks for a sector that has passed
\* completely between the moment the buffer was started and the moment the
\* request completes (disk.cc:236-241).
BufferHasSector == (Requested /\ latest.buffered) =>
  \E start \in latest.since..(completes - RotationTime) : UnderHead(latest.sector, start)

\* The track buffer holds the track the head is on, and nothing of an
\* earlier one (disk.h comment, disk.cc:223-224 "discarded after every seek"):
\* it was started after the head came, at a sector boundary, and before any
\* request that could be served from it.
BufferOfThisTrack == /\ bufferInit >= arrived
                     /\ bufferInit % RotationTime = 0
                     /\ Requested => bufferInit < completes

\* The latency of the disk: a request served by the medium ends at the first
\* complete pass of its sector, one served by the track buffer asks for a sector
\* that has passed, and the buffer holds the track the head is on (disk.cc).
HeadInv == WholeSectorPasses /\ BufferHasSector /\ BufferOfThisTrack
=============================================================================

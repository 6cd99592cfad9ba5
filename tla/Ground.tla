------------------------------- MODULE Ground -------------------------------
(***************************************************************************)
(* What is below the file libraries and what is above, side by side: the   *)
(* three searches for free space, the search for a sector in a track       *)
(* image's table, reading and os9 dcheck, each over all its inputs; raw    *)
(* disk images; cassettes; and copying.                                    *)
(***************************************************************************)
EXTENDS Integers, Sequences

CONSTANTS
  TotalClusters, ClusterMap, Spc, PdSas,  \* RbfSasScan
  Granules, SpG, GranuleBps,              \* DecbSearch
  T, Total, Dir, Back, MapSector, MapByte, MaxExtent, Hints,  \* DragonSearch
  Numbers, MaxIds,                        \* DiskTable
  Spt, Track0s, DiskTotal, Opens, BufferSlots, MaxWrites,  \* DiskImage
  FileBps, NumSegs, SegSizes, FileSpg, Asked,  \* FileRead
  DiskSectors, Root, Nodes, RunStarts, Data, Links,  \* Dcheck
  Names, Silence, Pause, Leader, MaxBlock, Sizes, MaxData, MaxFiles,  \* Cassette
  CR, LF, Other, MaxLen, Buffers, Gone, Faults  \* Copy

ASSUME GroundAssumption ==
  /\ {TotalClusters, ClusterMap, Spc} \subseteq Nat \ {0} /\ PdSas \in Nat
  /\ Granules \in 1 .. 192 /\ Granules % 2 = 0
  /\ SpG \in 1 .. 62 /\ GranuleBps \in Nat \ {0}
  /\ {T, Dir, MapSector, MapByte} \subseteq Nat \ {0} /\ Total \in 0 .. (2 * MapSector)
  /\ Dir % T = 0 /\ MapSector % T = 0 /\ MapSector % MapByte = 0
  /\ Numbers \subseteq Nat /\ MaxIds \in Nat
  /\ Spt \in Nat \ {0} /\ Track0s \subseteq 1 .. Spt
  /\ {DiskTotal, BufferSlots} \subseteq Nat \ {0}
  /\ {FileBps, FileSpg} \cup SegSizes \cup Asked \subseteq Nat \ {0} /\ NumSegs \in Nat
  /\ MaxLen \in Nat /\ Buffers \subseteq Nat \ {0}

VARIABLES
  l,                                  \* of the loop, walk or tape, or which other
  t0, file, opens, held, wrote, blind, missed, n,  \* of the raw image
  job, dst, s                         \* of the copy

image == << t0, file, opens, held, wrote, blind, missed, n >>
copy == << job, dst, s >>
vars == << l, image, copy >>

Segment == INSTANCE RbfSasScan WITH MapSector <- ClusterMap
Granule == INSTANCE DecbSearch WITH Bps <- GranuleBps
Sector == INSTANCE DragonSearch
Table == INSTANCE DiskTable
Image == INSTANCE DiskImage
Reading == INSTANCE FileRead WITH Bps <- FileBps, Spg <- FileSpg
Disk == INSTANCE Dcheck WITH Total <- DiskSectors
Tape == INSTANCE Cassette
Copying == INSTANCE Copy

NoImage ==
  /\ t0 = 1 /\ file = << >> /\ opens = << >> /\ held = << >> /\ wrote = << >>
  /\ blind = {} /\ missed = << >> /\ n = 0

NoCopy == job = << >> /\ dst = Gone /\ s = << >>

Init ==
  \/ NoImage /\ NoCopy
       /\ \/ Segment!Init \/ Granule!Init \/ Sector!Init \/ Table!Init
          \/ Reading!Init \/ Disk!Init \/ Tape!Init
  \/ l = [loop |-> "image"] /\ Image!Init /\ NoCopy
  \/ l = [loop |-> "copy"] /\ NoImage /\ Copying!Init

Next ==
  \/ l.loop = "segment" /\ Segment!Next /\ UNCHANGED << image, copy >>
  \/ l.loop = "granule" /\ Granule!Next /\ UNCHANGED << image, copy >>
  \/ l.loop = "dragon" /\ Sector!Next /\ UNCHANGED << image, copy >>
  \/ l.loop = "table" /\ Table!Next /\ UNCHANGED << image, copy >>
  \/ l.loop = "read" /\ Reading!Next /\ UNCHANGED << image, copy >>
  \/ l.loop = "dcheck" /\ Disk!Next /\ UNCHANGED << image, copy >>
  \/ l.loop = "tape" /\ Tape!Next /\ UNCHANGED << image, copy >>
  \/ l.loop = "image" /\ Image!Next /\ UNCHANGED << l, copy >>
  \/ l.loop = "copy" /\ Copying!Next /\ UNCHANGED << l, image >>

Spec == Init /\ [][Next]_vars

-----------------------------------------------------------------------------
(* _os9_getSASSegment finds the longest run of free clusters it may take,   *)
(* and calls the disk full only when it is.                                 *)
SegmentFound == l.loop = "segment" => Segment!FindsSasSegment

(* find_free_granule finds the nearest free granule, never looks outside    *)
(* the disk, and calls the disk full only when it is.                       *)
GranuleFound == l.loop = "granule" => Granule!FindsNearest

(* _dd_allocate finds the sector DragonDos's actions take, and calls the    *)
(* disk full only when it is.                                               *)
SectorPlaced == l.loop = "dragon" => Sector!FindsPlace

(* di_table_find finds the first of the IDs with a sector's number that are *)
(* recorded on its track.                                                   *)
SectorFound == l.loop = "table" => Table!FindsFirst

(* Every open of a raw image reads what was last written through any, but   *)
(* for what its buffer took in before.                                      *)
WrittenIsRead == l.loop = "image" => Image!WrittenIsRead

(* A write to a raw image changes one sector of those it had.               *)
OneSectorChanges == [][l.loop = "image" => Image!ChangesOneSector]_vars

(* A read returns the bytes of the file that were asked for, in order, and  *)
(* says how many unless it begins at the end of the file, however the file  *)
(* is spread over the disk.                                                 *)
ReadsTheFile == l.loop = "read" => Reading!ReadsTheFile

(* os9 dcheck calls a disk intact only when no segment lies outside it, the *)
(* bitmap has all that is in use, and no two segments share a sector; and   *)
(* not intact only for a reason.                                            *)
VerdictIsRight == l.loop = "dcheck" => Disk!VerdictIsRight

(* A file recorded on a cassette is found by name and read as it was        *)
(* written, whatever was recorded after it.                                 *)
RecordedIsRead == l.loop = "tape" => Tape!RecordedIsRead

(* A copy that ends without an error has the whole source, translated.      *)
CopyIsWhole == l.loop = "copy" => Copying!CopyIsWhole

(* A copy that fails leaves no part of the file.                            *)
FailureLeavesNoHalf == l.loop = "copy" => Copying!FailureLeavesNoHalf
=============================================================================

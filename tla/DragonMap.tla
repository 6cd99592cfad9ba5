------------------------------ MODULE DragonMap ------------------------------
(***************************************************************************)
(* The allocation bitmap of a Dragon DOS disk, as the set of its free      *)
(* sectors, and where _dd_allocate looks in it (libdragondosbitmap.c).     *)
(***************************************************************************)
EXTENDS Integers, FiniteSets, FiniteSetsExt

CONSTANTS
  T,          \* sectors per track (18)
  Total,      \* sectors of the disk
  Dir,        \* first sector of the directory track (360)
  Back,       \* sectors from its copy to it (four tracks)
  MapSector,  \* sectors of the disk a sector of the bitmap covers (1440)
  MapByte,    \* sectors of the disk a byte of the bitmap covers (8)
  MaxExtent   \* sectors an extent can hold (255)

(* What is no sector of a disk. *)
NoHint == 65535

ASSUME MapAssumption ==
  /\ {T, MapByte, MaxExtent, Back} \subseteq Nat \ {0}
  /\ {Dir, MapSector, Back} \subseteq { T * n : n \in 1 .. 2 * MapSector }
  /\ MapSector % MapByte = 0
  /\ Back <= Dir
  /\ Total \in (Dir + T) .. (2 * MapSector) /\ Total <= NoHint

Lsn == 0 .. (Total - 1)

System == (Dir .. (Dir + T - 1)) \cup ((Dir - Back) .. (Dir - Back + T - 1))

FirstOfTrack(free) == { l \in free : l % T = 0 }

-----------------------------------------------------------------------------
(* Towards track 0: the first track of which the first sector is free, and  *)
(* that of the track above it too; or track 0.                              *)

Below(free) == { l \in FirstOfTrack(free) : l < Dir }

LookDown(free) ==
  LET pairs == { l \in Below(free) : l + T \in Below(free) } IN
  IF pairs # {} THEN {Max(pairs)} ELSE Below(free) \cap {0}

(* Towards the end of the disk, from the directory track or LSN MapSector.  *)
LookUp(free, from) ==
  LET above == { l \in FirstOfTrack(free) : l >= from } IN
  IF above = {} THEN {} ELSE {Min(above)}

LookByTrack(free, hint) ==
  IF hint # NoHint /\ hint >= MapSector THEN LookUp(free, MapSector)
  ELSE IF LookDown(free) # {} THEN LookDown(free)
  ELSE LookUp(free, Dir + T)

-----------------------------------------------------------------------------
(* scan_bitmap, of the bitmap sector for the sectors of the disk from base  *)
(* on.  A run of bytes begins with one that is not 0 and goes on through    *)
(* those that are $FF.                                                      *)

Bit(base, b) == (base + b * MapByte) .. (base + b * MapByte + MapByte - 1)

Bytes == 0 .. (MapSector \div MapByte - 1)

Nonzero(free, base, b) == b \in Bytes /\ Bit(base, b) \cap free # {}

IsFF(free, base, b) == b \in Bytes /\ Bit(base, b) \subseteq free

Starts(free, base) ==
  { b \in Bytes : /\ Nonzero(free, base, b)
                  /\ ~ (IsFF(free, base, b) /\ Nonzero(free, base, b - 1)) }

RunLength(free, base, b) ==
  CHOOSE n \in 1 .. (MapSector \div MapByte) :
    /\ \A k \in 1 .. (n - 1) : IsFF(free, base, b + k)
    /\ ~ IsFF(free, base, b + n)

(* The longest run, the first of them. *)
IsBest(free, base, b) ==
  /\ b \in Starts(free, base)
  /\ \A c \in Starts(free, base) :
       \/ RunLength(free, base, b) > RunLength(free, base, c)
       \/ RunLength(free, base, b) = RunLength(free, base, c) /\ b <= c

(* Where the free sectors to allocate in a run end: where its second byte   *)
(* begins or, in a run of one byte, after its highest free sector.          *)
IsEnd(free, base, b, end) ==
  IF IsFF(free, base, b + 1) THEN end = base + (b + 1) * MapByte
  ELSE /\ end - 1 \in Bit(base, b) \cap free
       /\ \A l \in end .. (base + (b + 1) * MapByte - 1) : l \notin free

(* Where they begin, in the run's first byte. *)
IsRunLsn(free, base, b, lsn) ==
  \E end \in Bit(base, b + 1) \cup Bit(base, b) :
    /\ IsEnd(free, base, b, end)
    /\ lsn \in (base + b * MapByte) .. end /\ (lsn .. (end - 1)) \subseteq free
    /\ lsn = base + b * MapByte \/ lsn - 1 \notin free

Scan(free, base) ==
  IF Starts(free, base) = {} THEN [run |-> 0, lsn |-> base + MapSector]
  ELSE CHOOSE r \in [run : 1 .. (MapSector \div MapByte), lsn : base .. (base + MapSector - 1)] :
         \E b \in Starts(free, base) :
           IsBest(free, base, b) /\ r.run = RunLength(free, base, b) /\ IsRunLsn(free, base, b, r.lsn)

(* Mutant: the first sector's run is only taken if it is longer than a byte *)
LookByRunInSecond(free) ==
  LET first == Scan(free, 0)  second == Scan(free, MapSector) IN
  {IF second.run < 2 /\ first.run >= 2 THEN first.lsn ELSE second.lsn} \cap free

LookByRun(free) ==
  LET first == Scan(free, 0)  second == Scan(free, MapSector) IN
  {IF second.run < 2 /\ ~ (first.run < 2 /\ first.run <= second.run)
     THEN first.lsn ELSE second.lsn} \cap free

-----------------------------------------------------------------------------
(* _dd_allocate: the first sector of the run to take, or none if the disk   *)
(* is full.                                                                 *)
Place(free, hint) ==
  IF hint \in free THEN {hint}
  ELSE IF LookByTrack(free, hint) # {} THEN LookByTrack(free, hint)
  ELSE LookByRun(free)

(* take_run: sectors from lsn up, to the most an extent can hold.  A run    *)
(* stops at the end of the bitmap sector it began in.                       *)
RunFrom(free, lsn) ==
  Max({ n \in 1 .. MaxExtent : \A k \in 1 .. (n - 1) :
          lsn + k \in free /\ (lsn + k) % MapSector # 0 })

Sectors(lsn, count) == lsn .. (lsn + count - 1)
=============================================================================

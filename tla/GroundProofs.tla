----------------------------- MODULE GroundProofs -----------------------------
(***************************************************************************)
(* Proofs about the loops, images and copies of Ground, for every size of  *)
(* disk, bitmap, wanted length and number of opens.                        *)
(***************************************************************************)
EXTENDS Ground, SequenceTheorems, Iteration

-----------------------------------------------------------------------------
(* The constants *)

LEMMA ClustersAre ==
  TotalClusters \in Nat \ {0} /\ ClusterMap \in Nat \ {0} /\ Spc \in Nat \ {0} /\ PdSas \in Nat
  BY GroundAssumption

LEMMA GranulesAre == Granules \in 1 .. 192 /\ Granules % 2 = 0
  BY GroundAssumption

LEMMA DisksAre ==
  Spt \in Nat \ {0} /\ Track0s \subseteq 1 .. Spt /\ DiskTotal \in Nat \ {0}
  BY GroundAssumption

-----------------------------------------------------------------------------
(* Arithmetic *)

LEMMA DivisionIs ==
  ASSUME NEW m \in Nat \ {0}, NEW a \in Nat
  PROVE  a \div m \in Nat /\ m * (a \div m) <= a /\ a < m * (a \div m) + m
  OBVIOUS

LEMMA TimesMonotone ==
  ASSUME NEW m \in Nat \ {0}, NEW x \in Nat, NEW y \in Nat, x < y
  PROVE  m * x + m <= m * y
  <1>1. y - x - 1 \in Nat
    OBVIOUS
  <1>2. m * (y - x - 1) >= 0
    BY <1>1
  <1> QED
    BY <1>2

LEMMA DivisionMonotone ==
  ASSUME NEW m \in Nat \ {0}, NEW a \in Nat, NEW b \in Nat, a <= b
  PROVE  a \div m <= b \div m
  <1> DEFINE x == a \div m
             y == b \div m
  <1>1. /\ x \in Nat /\ m * x <= a
        /\ y \in Nat /\ b < m * y + m
    BY DivisionIs
  <1> HIDE DEF x, y
  <1>2. CASE y < x
    <2>1. m * y + m <= m * x
      BY <1>1, <1>2, TimesMonotone
    <2>2. m * x \in Nat /\ m * y \in Nat
      BY <1>1
    <2> QED
      BY <1>1, <2>1, <2>2
  <1> QED
    BY <1>1, <1>2 DEF x, y

-----------------------------------------------------------------------------
(* _os9_getSASSegment *)

Run(bm, f, k) == Segment!FreeRun(bm, f, k)

SectorOf(c) == c \div ClusterMap

(* The clusters of a run are free and in the map sector of the first.       *)
LEMMA RunIs ==
  ASSUME NEW bm, NEW f, NEW k \in Int, Run(bm, f, k), f \in Int
  PROVE  /\ k >= 1 /\ f \in Segment!Cluster /\ f + k <= TotalClusters
         /\ \A c \in f .. (f + k - 1) :
              c \in Segment!Cluster /\ c \notin bm /\ SectorOf(c) = SectorOf(f)
  <1>1. k >= 1 /\ f .. (f + k - 1) \subseteq Segment!Cluster \ bm
        /\ f \div ClusterMap = (f + k - 1) \div ClusterMap
    BY DEF Run, Segment!FreeRun
  <1>2. TotalClusters \in Nat /\ ClusterMap \in Nat \ {0}
    BY ClustersAre
  <1>3. f \in Segment!Cluster /\ f + k - 1 \in Segment!Cluster
    BY <1>1
  <1>4. f \in Nat /\ f + k - 1 \in Nat /\ f + k <= TotalClusters
    BY <1>2, <1>3 DEF Segment!Cluster
  <1>5. ASSUME NEW c \in f .. (f + k - 1) PROVE SectorOf(c) = SectorOf(f)
    <2>1. c \in Nat /\ f <= c /\ c <= f + k - 1
      BY <1>4
    <2>2. f \div ClusterMap <= c \div ClusterMap
      BY <1>2, <1>4, <2>1, DivisionMonotone
    <2>3. c \div ClusterMap <= (f + k - 1) \div ClusterMap
      BY <1>2, <1>4, <2>1, DivisionMonotone
    <2>4. f \div ClusterMap \in Nat /\ c \div ClusterMap \in Nat
      BY <1>2, <1>4, <2>1, DivisionIs
    <2> QED
      BY <1>1, <2>2, <2>3, <2>4 DEF SectorOf
  <1> QED
    BY <1>1, <1>3, <1>4, <1>5

(* A free cluster is a run, and lengthens the run before it in its sector.  *)
LEMMA RunGrows ==
  ASSUME NEW bm, NEW c \in Segment!Cluster, c \notin bm
  PROVE  /\ Run(bm, c, 1)
         /\ \A k \in Int : Run(bm, c - k, k) /\ SectorOf(c) = SectorOf(c - 1)
                             => Run(bm, c - k, k + 1)
  <1>1. c \in Int /\ TotalClusters \in Nat
    BY ClustersAre DEF Segment!Cluster
  <1>2. Run(bm, c, 1)
    BY <1>1 DEF Run, Segment!FreeRun
  <1>3. ASSUME NEW k \in Int, Run(bm, c - k, k), SectorOf(c) = SectorOf(c - 1)
        PROVE  Run(bm, c - k, k + 1)
    <2>1. k >= 1 /\ (c - k) .. (c - k + k - 1) \subseteq Segment!Cluster \ bm
          /\ (c - k) \div ClusterMap = (c - k + k - 1) \div ClusterMap
      BY <1>3 DEF Run, Segment!FreeRun
    <2>2. c - k + k - 1 = c - 1 /\ c - k + (k + 1) - 1 = c
      BY <1>1
    <2>3. (c - k) .. (c - k + (k + 1) - 1) \subseteq Segment!Cluster \ bm
      BY <1>1, <2>1, <2>2
    <2> QED
      BY <1>1, <1>3, <2>1, <2>2, <2>3 DEF Run, Segment!FreeRun, SectorOf
  <1> QED
    BY <1>2, <1>3
-----------------------------------------------------------------------------
(* A loop stays the loop it is. *)

LoopKept == "loop" \in DOMAIN l' /\ l'.loop = l.loop

HasLoop == "loop" \in DOMAIN l

LEMMA SegmentKept == HasLoop /\ Segment!Next => LoopKept
  BY DEF HasLoop, LoopKept, Segment!Next, Segment!FreeCluster, Segment!TakenCluster,
         Segment!EndOfBitmap

LEMMA GranuleKept == HasLoop /\ Granule!Next => LoopKept
  BY DEF HasLoop, LoopKept, Granule!Next, Granule!Find, Granule!Advance, Granule!GiveUp

LEMMA SectorKept == HasLoop /\ Sector!Next => LoopKept
  BY DEF HasLoop, LoopKept, Sector!Next, Sector!TryHint, Sector!LookBelow, Sector!EndBelow,
         Sector!LookAbove, Sector!ScanByte, Sector!ScanRun, Sector!ScanEnds, Sector!SkipBit,
         Sector!TakeBit, Sector!ScannedSecond, Sector!ScannedFirst, Sector!Take

LEMMA TableKept == HasLoop /\ Table!Next => LoopKept
  BY DEF HasLoop, LoopKept, Table!Next, Table!AddId, Table!EndTrack, Table!BeginFind,
         Table!Look, Table!NotThere

LEMMA ReadingKept == HasLoop /\ Reading!Next => LoopKept
  BY DEF HasLoop, LoopKept, Reading!Next, Reading!EndOfFile, Reading!Begin,
         Reading!FindSegment, Reading!NoSegment, Reading!CopySegment, Reading!FindGranule,
         Reading!CopyGranule, Reading!LineEndsFile, Reading!CopySector, Reading!Copied,
         Reading!DescriptorFails, Reading!ReadFails, Reading!Return, Reading!Took
LEMMA DiskKept == HasLoop /\ Disk!Next => LoopKept
  BY DEF HasLoop, LoopKept, Disk!Next, Disk!EnterDirectory, Disk!SkipEntry, Disk!VisitFile,
         Disk!VisitDirectory, Disk!ReadFails, Disk!Leave, Disk!Compare, Disk!Parsed

LEMMA TapeKept == HasLoop /\ Tape!Next => LoopKept
  <1>1. HasLoop /\ (Tape!Create \/ Tape!Write) => LoopKept
    BY DEF HasLoop, LoopKept, Tape!Create, Tape!Write
  <1>4. HasLoop /\ Tape!WriteRound => LoopKept
    BY DEF HasLoop, LoopKept, Tape!WriteRound
  <1>5. HasLoop /\ Tape!CloseWritten => LoopKept
    BY DEF HasLoop, LoopKept, Tape!CloseWritten
  <1>2. HasLoop /\ (Tape!Interrupted \/ Tape!Open \/ Tape!Scan \/ Tape!Read) => LoopKept
    BY DEF HasLoop, LoopKept, Tape!Interrupted, Tape!Open, Tape!Scan, Tape!Read
  <1>3. HasLoop /\ (Tape!ReadRound \/ Tape!ReadReturns \/ Tape!Rewind \/ Tape!Close) => LoopKept
    BY DEF HasLoop, LoopKept, Tape!ReadRound, Tape!ReadReturns, Tape!Rewind, Tape!Close
  <1> QED
    BY <1>1, <1>2, <1>3, <1>4, <1>5 DEF Tape!Next

(* Of all its steps, only those of its own Next change a loop's variables.  *)
LEMMA LoopStays ==
  ASSUME HasLoop, [Next]_vars
  PROVE  /\ HasLoop' /\ l'.loop = l.loop
         /\ l.loop = "segment" => Segment!Next \/ UNCHANGED l
         /\ l.loop = "granule" => Granule!Next \/ UNCHANGED l
         /\ l.loop = "dragon" => Sector!Next \/ UNCHANGED l
         /\ l.loop = "table" => Table!Next \/ UNCHANGED l
         /\ l.loop = "image" => Image!Next \/ UNCHANGED image
         /\ l.loop = "copy" => Copying!Next \/ UNCHANGED copy
  <1>1. CASE UNCHANGED vars
    BY <1>1 DEF vars, HasLoop
  <1>2. CASE Next
    <2>1. HasLoop' /\ l'.loop = l.loop
      BY <1>2, SegmentKept, GranuleKept, SectorKept, TableKept, ReadingKept, DiskKept, TapeKept
         DEF Next, HasLoop, LoopKept
    <2> QED
      BY <1>2, <2>1 DEF Next, HasLoop
  <1> QED
    BY <1>1, <1>2

(* Each loop begins as the loop it is. *)
LEMMA LoopBegins ==
  /\ Segment!Init => HasLoop /\ l.loop = "segment"
  /\ Granule!Init => HasLoop /\ l.loop = "granule"
  /\ Sector!Init => HasLoop /\ l.loop = "dragon"
  /\ Table!Init => HasLoop /\ l.loop = "table"
  /\ Reading!Init => HasLoop /\ l.loop = "read"
  /\ Disk!Init => HasLoop /\ l.loop = "dcheck"
  /\ Tape!Init => HasLoop /\ l.loop = "tape"
  /\ l = [loop |-> "image"] => HasLoop /\ l.loop = "image"
  /\ l = [loop |-> "copy"] => HasLoop /\ l.loop = "copy"
  <1>1. Segment!Init => HasLoop /\ l.loop = "segment"
    BY DEF HasLoop, Segment!Init
  <1>2. ASSUME Granule!Init PROVE HasLoop /\ l.loop = "granule"
    <2>1. PICK fat, near :
            l = [loop |-> "granule", fat |-> fat, near |-> near, counter |-> 0, down |-> FALSE,
                 granule |-> Granule!TrackOf(near), result |-> "none yet"]
      BY <1>2 DEF Granule!Init
    <2> QED
      BY <2>1 DEF HasLoop
  <1>3. Sector!Init => HasLoop /\ l.loop = "dragon"
    BY DEF HasLoop, Sector!Init
  <1>4. Table!Init => HasLoop /\ l.loop = "table"
    BY DEF HasLoop, Table!Init
  <1>5. Reading!Init => HasLoop /\ l.loop = "read"
    BY DEF HasLoop, Reading!Init
  <1>6. ASSUME Disk!Init PROVE HasLoop /\ l.loop = "dcheck"
    <2>1. PICK fd, entry :
            l = [loop |-> "dcheck",
                 fd |-> [m \in Nodes \cup {Root} |-> IF m = Root THEN Disk!RootFd ELSE fd[m]],
                 entry |-> entry, stack |-> << [lsn |-> Root, pos |-> 0] >>,
                 secondary |-> Disk!System, bitmap |-> {}, found |-> {}, verdict |-> "none yet"]
      BY <1>6 DEF Disk!Init
    <2> QED
      BY <2>1 DEF HasLoop
  <1>7. Tape!Init => HasLoop /\ l.loop = "tape"
    BY DEF HasLoop, Tape!Init
  <1>8. /\ l = [loop |-> "image"] => HasLoop /\ l.loop = "image"
        /\ l = [loop |-> "copy"] => HasLoop /\ l.loop = "copy"
    BY DEF HasLoop
  <1> QED
    BY <1>1, <1>2, <1>3, <1>4, <1>5, <1>6, <1>7, <1>8

-----------------------------------------------------------------------------
(* What _os9_getSASSegment knows at cluster i: count clusters before it are *)
(* a run that has not ended, and of the runs that have, which begin before  *)
(* that one, start and n are the first of the longest.                      *)
Scanned(bm, i, count, start, m) ==
  /\ i \in Nat /\ count \in 0 .. i /\ start \in Int /\ m \in Nat
  /\ count > 0 => Run(bm, i - count, count)
  /\ m > 0 => Run(bm, start, m) /\ start < i - count
  /\ \A f, k \in Int : Run(bm, f, k) /\ f < i - count =>
       f + k <= i - count /\ k <= m /\ (k = m => start <= f)

Longer(i, count, start, m) ==
  IF count > m THEN [start |-> i - count, n |-> count] ELSE [start |-> start, n |-> m]

(* Best is the first of the longest runs before i. *)
LEMMA BestIsLongest ==
  ASSUME NEW bm, NEW i, NEW count, NEW start, NEW m, Scanned(bm, i, count, start, m)
  PROVE  LET b == Longer(i, count, start, m) IN
         /\ b.start \in Int /\ b.n \in Nat
         /\ b.n \in {count, m}
         /\ b.n > 0 => Run(bm, b.start, b.n) /\ b.start < i
         /\ \A f, k \in Int : Run(bm, f, k) /\ f + k <= i =>
              k <= b.n /\ (k = b.n => b.start <= f)
  <1> DEFINE b == Longer(i, count, start, m)
  <1>1. /\ i \in Nat /\ count \in 0 .. i /\ start \in Int /\ m \in Nat
        /\ count > 0 => Run(bm, i - count, count)
        /\ m > 0 => Run(bm, start, m) /\ start < i - count
    BY DEF Scanned
  <1>2. \/ count > m /\ b.start = i - count /\ b.n = count
        \/ count <= m /\ b.start = start /\ b.n = m
    BY <1>1 DEF Longer
  <1> HIDE DEF b
  <1>3. b.start \in Int /\ b.n \in Nat /\ b.n \in {count, m}
    BY <1>1, <1>2
  <1>4. b.n > 0 => Run(bm, b.start, b.n) /\ b.start < i
    BY <1>1, <1>2
  <1>5. ASSUME NEW f \in Int, NEW k \in Int, Run(bm, f, k), f + k <= i
        PROVE  k <= b.n /\ (k = b.n => b.start <= f)
    <2>1. k >= 1
      BY <1>5 DEF Run, Segment!FreeRun
    <2>2. CASE f < i - count
      <3>1. k <= m /\ (k = m => start <= f)
        BY <1>5, <2>2 DEF Scanned
      <3> QED
        BY <1>1, <1>2, <3>1
    <2>3. CASE f >= i - count
      BY <1>1, <1>2, <1>5, <2>1, <2>3
    <2> QED
      BY <1>1, <2>2, <2>3
  <1> QED
    BY <1>3, <1>4, <1>5 DEF b

(* No run of free clusters goes on over a cluster that is taken, or into    *)
(* another sector of the bitmap.                                            *)
LEMMA RunStops ==
  ASSUME NEW bm, NEW c \in Int, NEW f \in Int, NEW k \in Int, Run(bm, f, k)
  PROVE  /\ c \in bm /\ f <= c => f + k <= c
         /\ SectorOf(c) # SectorOf(c - 1) /\ f < c => f + k <= c
  <1>1. k >= 1
    BY DEF Run, Segment!FreeRun
  <1>2. \A d \in f .. (f + k - 1) : d \notin bm /\ SectorOf(d) = SectorOf(f)
    BY RunIs
  <1>3. ASSUME c \in bm, f <= c, f + k > c PROVE FALSE
    BY <1>2, <1>3
  <1>4. ASSUME SectorOf(c) # SectorOf(c - 1), f < c, f + k > c PROVE FALSE
    <2>1. c \in f .. (f + k - 1) /\ c - 1 \in f .. (f + k - 1)
      BY <1>4
    <2> QED
      BY <1>2, <1>4, <2>1
  <1> QED
    BY <1>3, <1>4

(* When the run has ended before or at i, the best of it and of those       *)
(* before it is known at i.                                                 *)
LEMMA RunEnds ==
  ASSUME NEW bm, NEW i, NEW count, NEW start, NEW m, Scanned(bm, i, count, start, m),
         NEW next \in Nat, NEW new \in Nat, new <= next, next - new \in {i, i + 1},
         new > 0 => Run(bm, next - new, new),
         \A f, k \in Int : Run(bm, f, k) /\ f < next - new => f + k <= i
  PROVE  LET b == Longer(i, count, start, m) IN Scanned(bm, next, new, b.start, b.n)
  <1> DEFINE b == Longer(i, count, start, m)
  <1>1. /\ b.start \in Int /\ b.n \in Nat
        /\ b.n > 0 => Run(bm, b.start, b.n) /\ b.start < i
        /\ \A f, k \in Int : Run(bm, f, k) /\ f + k <= i =>
              k <= b.n /\ (k = b.n => b.start <= f)
    BY BestIsLongest
  <1>2. i \in Nat
    BY DEF Scanned
  <1> HIDE DEF b
  <1>3. next - new \in Nat /\ i <= next - new
    BY <1>2
  <1>4. \A f, k \in Int : Run(bm, f, k) /\ f < next - new =>
          f + k <= next - new /\ k <= b.n /\ (k = b.n => b.start <= f)
    BY <1>1, <1>2, <1>3
  <1>5. b.n > 0 => Run(bm, b.start, b.n) /\ b.start < next - new
    BY <1>1, <1>2, <1>3
  <1>6. Scanned(bm, next, new, b.start, b.n)
    BY <1>1, <1>4, <1>5 DEF Scanned
  <1> QED
    BY <1>6 DEF b
LEMMA ScansTaken ==
  ASSUME NEW bm, NEW i, NEW count, NEW start, NEW m, Scanned(bm, i, count, start, m), i \in bm
  PROVE  LET b == Longer(i, count, start, m) IN Scanned(bm, i + 1, 0, b.start, b.n)
  <1>1. i \in Nat
    BY DEF Scanned
  <1>2. ASSUME NEW f \in Int, NEW k \in Int, Run(bm, f, k), f < i + 1 - 0
        PROVE  f + k <= i
    BY <1>1, <1>2, RunStops
  <1>3. i + 1 \in Nat /\ 0 \in Nat /\ 0 <= i + 1 /\ (i + 1) - 0 \in {i, i + 1}
    BY <1>1
  <1> QED
    BY <1>2, <1>3, RunEnds

LEMMA ScansNewSector ==
  ASSUME NEW bm, NEW i \in Segment!Cluster, NEW count, NEW start, NEW m,
         Scanned(bm, i, count, start, m), i \notin bm, SectorOf(i) # SectorOf(i - 1)
  PROVE  LET b == Longer(i, count, start, m) IN Scanned(bm, i + 1, 1, b.start, b.n)
  <1>1. i \in Nat
    BY DEF Scanned
  <1>2. ASSUME NEW f \in Int, NEW k \in Int, Run(bm, f, k), f < (i + 1) - 1
        PROVE  f + k <= i
    BY <1>1, <1>2, RunStops
  <1>3. i + 1 \in Nat /\ 1 \in Nat /\ 1 <= i + 1 /\ (i + 1) - 1 \in {i, i + 1} /\ (i + 1) - 1 = i
    BY <1>1
  <1>4. Run(bm, (i + 1) - 1, 1)
    BY <1>3, RunGrows
  <1> QED
    BY <1>2, <1>3, <1>4, RunEnds

LEMMA ScansOn ==
  ASSUME NEW bm, NEW i \in Segment!Cluster, NEW count, NEW start, NEW m,
         Scanned(bm, i, count, start, m), i \notin bm,
         count = 0 \/ SectorOf(i) = SectorOf(i - 1)
  PROVE  Scanned(bm, i + 1, count + 1, start, m)
  <1>1. /\ i \in Nat /\ count \in 0 .. i /\ start \in Int /\ m \in Nat
        /\ count > 0 => Run(bm, i - count, count)
    BY DEF Scanned
  <1>2. (i + 1) - (count + 1) = i - count
    BY <1>1
  <1>3. Run(bm, i - count, count + 1)
    <2>1. CASE count = 0
      <3>1. i - count = i /\ count + 1 = 1
        BY <1>1, <2>1
      <3> QED
        BY <3>1, RunGrows
    <2>2. CASE count > 0
      <3>1. SectorOf(i) = SectorOf(i - 1) /\ count \in Int
        BY <1>1, <2>2
      <3> QED
        BY <1>1, <2>2, <3>1, RunGrows
    <2> QED
      BY <1>1, <2>1, <2>2
  <1>4. i + 1 \in Nat /\ count + 1 \in 0 .. (i + 1) /\ start \in Int /\ m \in Nat
    BY <1>1
  <1> QED
    BY <1>1, <1>2, <1>3, <1>4 DEF Scanned

(* What the search may return: the wanted run, once it is there, or the     *)
(* first of the longest at the end.                                         *)
LEMMA WantedRunIsSegment ==
  ASSUME NEW bm, NEW i, NEW req, NEW start, NEW m,
         Scanned(bm, i, req, start, m), req > 0, m < req
  PROVE  Segment!IsSasSegment(bm, req, i - req, req)
  <1>1. /\ i \in Nat /\ req \in 0 .. i /\ start \in Int /\ m \in Nat
        /\ Run(bm, i - req, req)
    BY DEF Scanned
  <1>2. ASSUME NEW f \in Segment!Cluster, f < i - req PROVE ~ Run(bm, f, req)
    <2>1. f \in Int /\ req \in Int
      BY <1>1, ClustersAre DEF Segment!Cluster
    <2>2. Run(bm, f, req) => req <= m
      BY <1>2, <2>1 DEF Scanned
    <2> QED
      BY <1>1, <2>2
  <1> QED
    BY <1>1, <1>2 DEF Segment!IsSasSegment, Run

LEMMA LongestIsSegment ==
  ASSUME NEW bm, NEW i, NEW count, NEW req \in Int, NEW start, NEW m,
         Scanned(bm, i, count, start, m), i = TotalClusters, count < req, m < req
  PROVE  LET b == Longer(i, count, start, m) IN
         IF b.n > 0 THEN Segment!IsSasSegment(bm, req, b.start, b.n)
         ELSE Segment!Cluster \subseteq bm
  <1> DEFINE b == Longer(i, count, start, m)
  <1>1. /\ b.start \in Int /\ b.n \in Nat /\ b.n \in {count, m}
        /\ b.n > 0 => Run(bm, b.start, b.n) /\ b.start < i
        /\ \A f, k \in Int : Run(bm, f, k) /\ f + k <= i =>
              k <= b.n /\ (k = b.n => b.start <= f)
    BY BestIsLongest
  <1> HIDE DEF b
  <1>2. b.n < req
    BY <1>1
  <1>3. ASSUME NEW f \in Segment!Cluster, NEW k \in Int, Run(bm, f, k)
        PROVE  k <= b.n /\ (k = b.n => b.start <= f)
    <2>1. f \in Int
      BY ClustersAre DEF Segment!Cluster
    <2>2. f + k <= TotalClusters
      BY <1>3, <2>1, RunIs
    <2> QED
      BY <1>1, <1>3, <2>1, <2>2
  <1>4. CASE b.n > 0
    <2>1. ASSUME NEW f \in Segment!Cluster
          PROVE  /\ f < b.start => ~ Run(bm, f, b.n)
                 /\ ~ Run(bm, f, req) /\ ~ Run(bm, f, b.n + 1)
      <3>1. f \in Int /\ b.n \in Int /\ b.n + 1 \in Int
        BY <1>1, ClustersAre DEF Segment!Cluster
      <3>2. Run(bm, f, b.n) => b.start <= f
        BY <1>3, <3>1
      <3>3. Run(bm, f, req) => req <= b.n
        BY <1>3, <3>1
      <3>4. Run(bm, f, b.n + 1) => b.n + 1 <= b.n
        BY <1>3, <3>1
      <3> QED
        BY <1>1, <1>2, <3>1, <3>2, <3>3, <3>4
    <2>2. Segment!IsSasSegment(bm, req, b.start, b.n)
      BY <1>1, <1>4, <2>1 DEF Segment!IsSasSegment, Run
    <2> QED
      BY <1>4, <2>2 DEF b
  <1>5. CASE ~ b.n > 0
    <2>1. ASSUME NEW c \in Segment!Cluster, c \notin bm PROVE FALSE
      <3>1. Run(bm, c, 1)
        BY <2>1, RunGrows
      <3> QED
        BY <1>1, <1>3, <1>5, <3>1
    <2> QED
      BY <1>5, <2>1 DEF b
  <1> QED
    BY <1>4, <1>5
SegmentFields ==
  [loop : {"segment"}, bitmap : SUBSET Segment!Cluster, req : 1 .. TotalClusters,
   i : 0 .. TotalClusters, count : Nat, prev_free : Int, best_start : Int,
   best_count : Nat, result : [start : Int, n : Int]]

SegmentType == l \in SegmentFields

SegmentSearch ==
  /\ Scanned(l.bitmap, l.i, l.count, l.best_start, l.best_count)
  /\ l.count < l.req /\ l.best_count < l.req
  /\ l.count > 0 => l.prev_free = l.i - 1

(* The search as far as it has got: its result is not there yet, or right.  *)
SegmentInv ==
  l.loop = "segment" =>
    SegmentType /\ (l.result = Segment!Running => SegmentSearch) /\ Segment!FindsSasSegment

LEMMA SegmentBegins == Segment!Init => SegmentInv
  <1> SUFFICES ASSUME Segment!Init PROVE SegmentInv
    OBVIOUS
  <1>1. TotalClusters \in Nat \ {0}
    BY ClustersAre
  <1>2. SegmentType
    BY <1>1 DEF Segment!Init, SegmentType, SegmentFields, Segment!Running
  <1>3. /\ l.i = 0 /\ l.count = 0 /\ l.best_start = -1 /\ l.best_count = 0 /\ l.req > 0
        /\ l.result = Segment!Running
    BY <1>1 DEF Segment!Init
  <1>4. ASSUME NEW f \in Int, NEW k \in Int, Run(l.bitmap, f, k) PROVE ~ f < 0
    <2>1. f \in Segment!Cluster
      BY <1>4, RunIs
    <2> QED
      BY <1>1, <2>1 DEF Segment!Cluster
  <1>5. Scanned(l.bitmap, 0, 0, -1, 0)
    BY <1>4 DEF Scanned
  <1>6. SegmentSearch
    BY <1>3, <1>5 DEF SegmentSearch
  <1> QED
    BY <1>2, <1>3, <1>6 DEF SegmentInv, Segment!FindsSasSegment, Segment!Running, Segment!NoSpace

LEMMA FreeClusterScans ==
  SegmentInv /\ l.loop = "segment" /\ Segment!FreeCluster => SegmentInv'
  <1> SUFFICES ASSUME SegmentInv, l.loop = "segment", Segment!FreeCluster PROVE SegmentInv'
    OBVIOUS
  <1> DEFINE run == (IF Segment!NewMapSector THEN 0 ELSE l.count) + 1
             b == Longer(l.i, l.count, l.best_start, l.best_count)
             best == IF Segment!NewMapSector THEN b
                     ELSE [start |-> l.best_start, n |-> l.best_count]
  <1>0. TotalClusters \in Nat \ {0}
    BY ClustersAre
  <1>1. /\ SegmentType /\ SegmentSearch
        /\ l.i < TotalClusters /\ l.i \notin l.bitmap
        /\ l.result = Segment!Running
    BY DEF SegmentInv, Segment!FreeCluster
  <1>2. l' = [l EXCEPT !.i = @ + 1, !.count = run, !.prev_free = l.i,
               !.best_start = best.start, !.best_count = best.n,
               !.result = IF run = l.req THEN [start |-> l.i - run + 1, n |-> run] ELSE @]
    BY DEF Segment!FreeCluster, Segment!Best, Longer
  <1>3. /\ l.bitmap \in SUBSET Segment!Cluster /\ l.req \in 1 .. TotalClusters
        /\ l.i \in 0 .. TotalClusters /\ l.count \in Nat /\ l.prev_free \in Int
        /\ l.best_start \in Int /\ l.best_count \in Nat
    BY <1>1 DEF SegmentType, SegmentFields
  <1>4. Scanned(l.bitmap, l.i, l.count, l.best_start, l.best_count)
        /\ l.count < l.req /\ l.best_count < l.req /\ (l.count > 0 => l.prev_free = l.i - 1)
    BY <1>1 DEF SegmentSearch
  <1>5. l.i \in Segment!Cluster
    BY <1>0, <1>1, <1>3 DEF Segment!Cluster
  <1>6. b.start \in Int /\ b.n \in Nat /\ b.n < l.req
    BY <1>3, <1>4, BestIsLongest
  <1>7. /\ run \in Nat /\ run <= l.req /\ best.start \in Int /\ best.n \in Nat /\ best.n < l.req
        /\ Scanned(l.bitmap, l.i + 1, run, best.start, best.n)
    <2>1. CASE Segment!NewMapSector
      <3>1. l.count > 0 /\ SectorOf(l.i) # SectorOf(l.i - 1)
        BY <1>3, <1>4, <2>1 DEF Segment!NewMapSector, SectorOf
      <3>2. Scanned(l.bitmap, l.i + 1, 1, b.start, b.n)
        BY <1>1, <1>4, <1>5, <3>1, ScansNewSector
      <3> QED
        BY <1>3, <1>6, <2>1, <3>2
    <2>2. CASE ~ Segment!NewMapSector
      <3>1. l.count = 0 \/ SectorOf(l.i) = SectorOf(l.i - 1)
        BY <1>3, <1>4, <2>2 DEF Segment!NewMapSector, SectorOf
      <3>2. Scanned(l.bitmap, l.i + 1, l.count + 1, l.best_start, l.best_count)
        BY <1>1, <1>4, <1>5, <3>1, ScansOn
      <3> QED
        BY <1>3, <1>4, <2>2, <3>2
    <2> QED
      BY <2>1, <2>2
  <1> HIDE DEF run, best, b
  <1>8. SegmentType'
    <2>1. l.i + 1 \in 0 .. TotalClusters /\ l.i \in Int
      BY <1>0, <1>1, <1>3
    <2>2. l.result \in [start : Int, n : Int] /\ l \in SegmentFields
      BY <1>1 DEF SegmentType, SegmentFields
    <2>3. run \in Nat /\ best.start \in Int /\ best.n \in Nat
      BY <1>7
    <2>4. [start |-> l.i - run + 1, n |-> run] \in [start : Int, n : Int]
      BY <1>3, <2>3
    <2>5. PICK r \in [start : Int, n : Int] :
            r = IF run = l.req THEN [start |-> l.i - run + 1, n |-> run] ELSE l.result
      BY <2>2, <2>4
    <2>6. PICK mid : mid = [l EXCEPT !.i = l.i + 1, !.count = run, !.prev_free = l.i]
      OBVIOUS
    <2>7. mid \in SegmentFields
      BY <2>1, <2>2, <2>3, <2>6 DEF SegmentFields
    <2>8. l' = [mid EXCEPT !.best_start = best.start, !.best_count = best.n, !.result = r]
      BY <1>2, <2>2, <2>5, <2>6 DEF SegmentFields
    <2>9. l' \in SegmentFields
      BY <2>3, <2>5, <2>7, <2>8 DEF SegmentFields
    <2> QED
      BY <2>9 DEF SegmentType, SegmentFields
  <1>9. /\ l'.loop = "segment" /\ l'.bitmap = l.bitmap /\ l'.req = l.req /\ l'.i = l.i + 1
        /\ l'.count = run /\ l'.prev_free = l.i /\ l'.best_start = best.start
        /\ l'.best_count = best.n
        /\ l'.result = IF run = l.req THEN [start |-> l.i - run + 1, n |-> run] ELSE l.result
    BY <1>1, <1>2 DEF SegmentType, SegmentFields
  <1>10. CASE run = l.req
    <2>1. Segment!IsSasSegment(l.bitmap, l.req, (l.i + 1) - l.req, l.req)
      BY <1>3, <1>7, <1>10, WantedRunIsSegment
    <2>2. (l.i + 1) - l.req = l.i - run + 1 /\ run > 0
      BY <1>3, <1>10
    <2>3. l'.result.start = (l.i + 1) - l.req /\ l'.result.n = l.req
          /\ l'.result # Segment!Running /\ l'.result # Segment!NoSpace
      BY <1>3, <1>9, <1>10, <2>2 DEF Segment!Running, Segment!NoSpace
    <2>4. Segment!FindsSasSegment'
      BY <1>9, <2>1, <2>3 DEF Segment!FindsSasSegment, Segment!Running, Segment!NoSpace
    <2> QED
      BY <1>8, <2>3, <2>4 DEF SegmentInv, Segment!Running
  <1>11. CASE run # l.req
    <2>1. SegmentSearch'
      BY <1>3, <1>7, <1>9, <1>11 DEF SegmentSearch
    <2>2. Segment!FindsSasSegment'
      BY <1>1, <1>9, <1>11 DEF Segment!FindsSasSegment, Segment!Running, Segment!NoSpace
    <2> QED
      BY <1>8, <2>1, <2>2 DEF SegmentInv
  <1> QED
    BY <1>10, <1>11

LEMMA TakenClusterScans ==
  SegmentInv /\ l.loop = "segment" /\ Segment!TakenCluster => SegmentInv'
  <1> SUFFICES ASSUME SegmentInv, l.loop = "segment", Segment!TakenCluster PROVE SegmentInv'
    OBVIOUS
  <1> DEFINE b == Longer(l.i, l.count, l.best_start, l.best_count)
  <1>0. TotalClusters \in Nat \ {0}
    BY ClustersAre
  <1>1. /\ SegmentType /\ SegmentSearch
        /\ l.i < TotalClusters /\ l.i \in l.bitmap
        /\ l.result = Segment!Running
    BY DEF SegmentInv, Segment!TakenCluster
  <1>2. l' = [l EXCEPT !.i = @ + 1, !.count = 0, !.best_start = b.start, !.best_count = b.n]
    BY DEF Segment!TakenCluster, Segment!Best, Longer
  <1>3. /\ l.req \in 1 .. TotalClusters /\ l.i \in 0 .. TotalClusters /\ l.count \in Nat
        /\ l.best_count \in Nat
    BY <1>1 DEF SegmentType, SegmentFields
  <1>4. Scanned(l.bitmap, l.i, l.count, l.best_start, l.best_count)
        /\ l.count < l.req /\ l.best_count < l.req
    BY <1>1 DEF SegmentSearch
  <1>5. b.start \in Int /\ b.n \in Nat /\ b.n < l.req
    BY <1>3, <1>4, BestIsLongest
  <1>6. Scanned(l.bitmap, l.i + 1, 0, b.start, b.n)
    BY <1>1, <1>4, ScansTaken
  <1> HIDE DEF b
  <1>7. SegmentType'
    <2>1. l.i + 1 \in 0 .. TotalClusters
      BY <1>0, <1>1, <1>3
    <2> QED
      BY <1>1, <1>2, <1>5, <2>1 DEF SegmentType, SegmentFields
  <1>8. /\ l'.loop = "segment" /\ l'.bitmap = l.bitmap /\ l'.req = l.req /\ l'.i = l.i + 1
        /\ l'.count = 0 /\ l'.best_start = b.start /\ l'.best_count = b.n
        /\ l'.result = l.result
    BY <1>1, <1>2 DEF SegmentType, SegmentFields
  <1>9. SegmentSearch'
    BY <1>3, <1>5, <1>6, <1>8 DEF SegmentSearch
  <1>10. Segment!FindsSasSegment'
    BY <1>1, <1>8 DEF Segment!FindsSasSegment, Segment!Running, Segment!NoSpace
  <1> QED
    BY <1>7, <1>9, <1>10 DEF SegmentInv

LEMMA EndOfBitmapFinds ==
  SegmentInv /\ l.loop = "segment" /\ Segment!EndOfBitmap => SegmentInv'
  <1> SUFFICES ASSUME SegmentInv, l.loop = "segment", Segment!EndOfBitmap PROVE SegmentInv'
    OBVIOUS
  <1> DEFINE b == Longer(l.i, l.count, l.best_start, l.best_count)
  <1>1. /\ SegmentType /\ SegmentSearch /\ l.i = TotalClusters
        /\ l.result = Segment!Running
    BY DEF SegmentInv, Segment!EndOfBitmap
  <1>2. l' = [l EXCEPT !.result = IF b.n > 0 THEN b ELSE Segment!NoSpace]
    BY DEF Segment!EndOfBitmap, Segment!Best, Longer
  <1>3. /\ Scanned(l.bitmap, l.i, l.count, l.best_start, l.best_count)
        /\ l.count < l.req /\ l.best_count < l.req /\ l.req \in Int
    BY <1>1 DEF SegmentSearch, SegmentType, SegmentFields
  <1>4. b \in [start : Int, n : Nat]
    BY <1>3 DEF Scanned, Longer
  <1>5. IF b.n > 0 THEN Segment!IsSasSegment(l.bitmap, l.req, b.start, b.n)
        ELSE Segment!Cluster \subseteq l.bitmap
    BY <1>1, <1>3, LongestIsSegment
  <1> HIDE DEF b
  <1>6. SegmentType'
    BY <1>1, <1>2, <1>4 DEF SegmentType, SegmentFields, Segment!NoSpace
  <1>7. /\ l'.bitmap = l.bitmap /\ l'.req = l.req
        /\ l'.result = IF b.n > 0 THEN b ELSE Segment!NoSpace
    BY <1>1, <1>2 DEF SegmentType, SegmentFields
  <1>8. l'.result # Segment!Running
    BY <1>4, <1>7 DEF Segment!Running, Segment!NoSpace
  <1>9. Segment!FindsSasSegment'
    <2>1. CASE b.n > 0
      <3>1. l'.result = b /\ b # Segment!NoSpace /\ b # Segment!Running
        BY <1>4, <1>7, <2>1 DEF Segment!Running, Segment!NoSpace
      <3> QED
        BY <1>5, <1>7, <2>1, <3>1
           DEF Segment!FindsSasSegment, Segment!Running, Segment!NoSpace
    <2>2. CASE ~ b.n > 0
      BY <1>5, <1>7, <1>8, <2>2 DEF Segment!FindsSasSegment, Segment!Running, Segment!NoSpace
    <2> QED
      BY <2>1, <2>2
  <1> QED
    BY <1>6, <1>8, <1>9 DEF SegmentInv, Segment!Running

(* _os9_getSASSegment returns the first run of the wanted length or else    *)
(* the first of the longest runs, never one that two sectors of the bitmap  *)
(* share, and no space only when there is none: for every size of disk,     *)
(* bitmap and wanted length.                                                *)
THEOREM SegmentIsFound == Spec => []SegmentFound
  <1>1. Init => HasLoop /\ SegmentInv
    <2> SUFFICES ASSUME Init PROVE SegmentInv
      BY LoopBegins DEF Init
    <2>1. CASE Segment!Init
      BY <2>1, SegmentBegins
    <2>2. CASE l.loop # "segment"
      BY <2>2 DEF SegmentInv
    <2> QED
      BY <2>1, <2>2, LoopBegins DEF Init
  <1>2. HasLoop /\ SegmentInv /\ [Next]_vars => (HasLoop /\ SegmentInv)'
    <2> SUFFICES ASSUME HasLoop, SegmentInv, [Next]_vars PROVE SegmentInv'
      BY LoopStays
    <2>1. CASE l.loop = "segment" /\ Segment!Next
      BY <2>1, FreeClusterScans, TakenClusterScans, EndOfBitmapFinds DEF Segment!Next
    <2>2. CASE UNCHANGED l
      BY <2>2 DEF SegmentInv, SegmentType, SegmentFields, SegmentSearch, Segment!FindsSasSegment
    <2>3. CASE l.loop # "segment"
      BY <2>3, LoopStays DEF SegmentInv
    <2> QED
      BY <2>1, <2>2, <2>3, LoopStays
  <1>3. SegmentInv => SegmentFound
    BY DEF SegmentInv, SegmentFound
  <1> QED
    BY <1>1, <1>2, <1>3, PTL DEF Spec
-----------------------------------------------------------------------------
(* find_free_granule *)

TrackOf(g) == g - (g % 2)

LEMMA HalfIs ==
  ASSUME NEW x \in Int
  PROVE  (2 * x) % 2 = 0 /\ (2 * x + 1) % 2 = 1
  OBVIOUS

LEMMA Halves ==
  ASSUME NEW g \in Int
  PROVE  \E x \in Int, o \in {0, 1} : g = 2 * x + o /\ TrackOf(g) = 2 * x /\ g % 2 = o
  <1>1. \E x \in Int : g = 2 * x \/ g = 2 * x + 1
    <2> WITNESS g \div 2 \in Int
    <2> QED
      OBVIOUS
  <1>2. PICK x \in Int : g = 2 * x \/ g = 2 * x + 1
    BY <1>1
  <1>3. CASE g = 2 * x
    <2>1. g % 2 = 0 /\ TrackOf(g) = 2 * x
      BY <1>3, HalfIs DEF TrackOf
    <2> QED
      BY <1>3, <2>1
  <1>4. CASE g = 2 * x + 1
    <2>1. g % 2 = 1 /\ TrackOf(g) = 2 * x
      BY <1>4, HalfIs DEF TrackOf
    <2> QED
      BY <1>4, <2>1
  <1> QED
    BY <1>2, <1>3, <1>4

(* Of the tracks from t on by turns, those before track b, going down or    *)
(* up, have the granules                                                    *)
Before(t, b, down) ==
  { h \in Granule!Granule : IF down THEN b + 2 <= h /\ h < 2 * t - b
                            ELSE 2 * t - b <= h /\ h < b }

(* and there are so many of them on the disk.                               *)
CountBefore(t, b, down) ==
  IF down THEN IF 2 * (t - b) <= Granules - b THEN 2 * (t - b) - 2 ELSE Granules - b - 2
  ELSE IF 2 * (b - t) <= b THEN 2 * (b - t) ELSE b

(* What find_free_granule knows at granule g: those before it are taken.    *)
Swept(fat, near, g, counter, down) ==
  LET t == TrackOf(near)  b == TrackOf(g) IN
  /\ g \in Int /\ down \in BOOLEAN /\ (down <=> b < t)
  /\ counter = CountBefore(t, b, down) + (g % 2)
  /\ g \notin Granule!Granule => counter = Granules
  /\ b \in -2 .. Granules
  /\ \A h \in Before(t, b, down) : fat[h] # Granule!Free
  /\ g % 2 = 1 => fat[b] # Granule!Free

LEMMA RankIs ==
  ASSUME NEW near, NEW y \in Int, TrackOf(near) = 2 * y,
         NEW h \in Int, NEW w \in Int, NEW r \in {0, 1}, TrackOf(h) = 2 * w, h % 2 = r
  PROVE  /\ w < y => Granule!Rank(near, h) = 4 * (y - w) - 2 + r
         /\ w >= y => Granule!Rank(near, h) = 4 * (w - y) + r
  <1>1. near - (near % 2) = 2 * y /\ h - (h % 2) = 2 * w
    BY DEF TrackOf
  <1>2. Granule!Rank(near, h) =
          2 * (IF 2 * w < 2 * y THEN 2 * y - 2 * w - 1 ELSE 2 * w - 2 * y) + r
    BY <1>1 DEF Granule!Rank
  <1> QED
    BY <1>2

(* Granule g of those that were not looked at is the nearest.               *)
LEMMA SweptIsNearest ==
  ASSUME NEW fat, NEW near \in Granule!Granule, NEW g \in Granule!Granule, NEW counter, NEW down,
         Swept(fat, near, g, counter, down), fat[g] = Granule!Free
  PROVE  Granule!IsNearestFree(fat, near, g)
  <1>0. Granules \in Nat /\ Granule!Granule = 0 .. (Granules - 1)
    BY GranulesAre DEF Granule!Granule
  <1>1. PICK y \in Int : TrackOf(near) = 2 * y
    BY <1>0, Halves
  <1>2. PICK x \in Int, o \in {0, 1} : g = 2 * x + o /\ TrackOf(g) = 2 * x /\ g % 2 = o
    BY <1>0, Halves
  <1>3. /\ (down <=> 2 * x < 2 * y)
        /\ \A h \in Before(2 * y, 2 * x, down) : fat[h] # Granule!Free
        /\ o = 1 => fat[2 * x] # Granule!Free
    BY <1>1, <1>2 DEF Swept
  <1>4. ASSUME NEW h \in Granule!Granule, fat[h] = Granule!Free
        PROVE  Granule!Rank(near, g) <= Granule!Rank(near, h)
    <2>1. PICK w \in Int, r \in {0, 1} : h = 2 * w + r /\ TrackOf(h) = 2 * w /\ h % 2 = r
      <3>1. h \in Int
        BY <1>0
      <3> QED
        BY <3>1, Halves
    <2>2. h \notin Before(2 * y, 2 * x, down) /\ ~ (o = 1 /\ h = 2 * x)
      BY <1>3, <1>4
    <2>3. /\ x < y => Granule!Rank(near, g) = 4 * (y - x) - 2 + o
          /\ x >= y => Granule!Rank(near, g) = 4 * (x - y) + o
      BY <1>0, <1>1, <1>2, RankIs
    <2>4. /\ w < y => Granule!Rank(near, h) = 4 * (y - w) - 2 + r
          /\ w >= y => Granule!Rank(near, h) = 4 * (w - y) + r
      BY <1>0, <1>1, <2>1, RankIs
    <2>5. CASE 2 * x < 2 * y
      <3>1. ~ (2 * x + 2 <= h /\ h < 2 * (2 * y) - 2 * x)
        BY <1>3, <2>2, <2>5 DEF Before
      <3> QED
        BY <2>1, <2>2, <2>3, <2>4, <2>5, <3>1
    <2>6. CASE ~ 2 * x < 2 * y
      <3>1. ~ (2 * (2 * y) - 2 * x <= h /\ h < 2 * x)
        BY <1>3, <2>2, <2>6 DEF Before
      <3> QED
        BY <2>1, <2>2, <2>3, <2>4, <2>6, <3>1
    <2> QED
      BY <2>5, <2>6
  <1> QED
    BY <1>4 DEF Granule!IsNearestFree

(* When all have been looked at none is free.                               *)
LEMMA SweptAll ==
  ASSUME NEW fat, NEW near \in Granule!Granule, NEW g, NEW down,
         Swept(fat, near, g, Granules, down)
  PROVE  Granule!IsFull(fat)
  <1>0. Granules \in Nat /\ Granules % 2 = 0 /\ Granule!Granule = 0 .. (Granules - 1)
    BY GranulesAre DEF Granule!Granule
  <1>1. PICK z \in Int : Granules = 2 * z
    BY <1>0, Halves DEF TrackOf
  <1>2. PICK y \in Int : TrackOf(near) = 2 * y
    <2>1. near \in Int
      BY <1>0
    <2> QED
      BY <2>1, Halves
  <1>3. PICK x \in Int, o \in {0, 1} : g = 2 * x + o /\ TrackOf(g) = 2 * x /\ g % 2 = o
    BY Halves DEF Swept
  <1>4. /\ (down <=> 2 * x < 2 * y)
        /\ Granules = CountBefore(2 * y, 2 * x, down) + o
        /\ 2 * x \in -2 .. Granules
        /\ \A h \in Before(2 * y, 2 * x, down) : fat[h] # Granule!Free
    <2>1. /\ (down <=> TrackOf(g) < TrackOf(near))
          /\ Granules = CountBefore(TrackOf(near), TrackOf(g), down) + (g % 2)
          /\ TrackOf(g) \in -2 .. Granules
          /\ \A h \in Before(TrackOf(near), TrackOf(g), down) : fat[h] # Granule!Free
      BY DEF Swept
    <2> QED
      BY <1>2, <1>3, <2>1
  <1>5. ASSUME NEW h \in Granule!Granule PROVE h \in Before(2 * y, 2 * x, down)
    BY <1>0, <1>1, <1>4 DEF Before, CountBefore
  <1> QED
    BY <1>4, <1>5 DEF Granule!IsFull
(* Granule g is on side o of track 2 * x, and near on track 2 * y. *)
At(g, x, o) == x \in Int /\ o \in {0, 1} /\ g = 2 * x + o

Near(near, y) == y \in Int /\ TrackOf(near) = 2 * y

LEMMA SweptIs ==
  ASSUME NEW fat, NEW near, NEW y, Near(near, y), NEW g, NEW x, NEW o, At(g, x, o),
         NEW counter, NEW down
  PROVE  Swept(fat, near, g, counter, down) <=>
           /\ down \in BOOLEAN /\ (down <=> 2 * x < 2 * y)
           /\ counter = CountBefore(2 * y, 2 * x, down) + o
           /\ g \notin Granule!Granule => counter = Granules
           /\ 2 * x \in -2 .. Granules
           /\ \A h \in Before(2 * y, 2 * x, down) : fat[h] # Granule!Free
           /\ o = 1 => fat[2 * x] # Granule!Free
  <1>1. g \in Int /\ g % 2 = o
    BY HalfIs DEF At
  <1>2. TrackOf(g) = 2 * x
    BY <1>1 DEF TrackOf, At
  <1> QED
    BY <1>1, <1>2 DEF Swept, Near

(* The same when its track is the next. *)
LEMMA SweptTrack ==
  ASSUME NEW fat, NEW near, NEW y, Near(near, y), NEW u \in Int, NEW counter,
         NEW down \in BOOLEAN, down <=> 2 * u < 2 * y,
         counter = CountBefore(2 * y, 2 * u, down),
         2 * u \notin Granule!Granule => counter = Granules,
         2 * u \in -2 .. Granules,
         \A h \in Before(2 * y, 2 * u, down) : fat[h] # Granule!Free
  PROVE  Swept(fat, near, 2 * u, counter, down)
  <1>1. (2 * u) % 2 = 0 /\ 2 * u \in Int
    BY HalfIs
  <1>2. TrackOf(2 * u) = 2 * u
    BY <1>1 DEF TrackOf
  <1>3. counter = CountBefore(2 * y, 2 * u, down) + ((2 * u) % 2)
    BY <1>1, GranulesAre DEF CountBefore, Near
  <1> QED
    BY <1>1, <1>2, <1>3 DEF Swept, Near

(* The granule of the track's other side. *)
LEMMA SweepsSide ==
  ASSUME NEW fat, NEW near \in Granule!Granule, NEW g \in Granule!Granule, NEW counter, NEW down,
         Swept(fat, near, g, counter, down), fat[g] # Granule!Free, g % 2 = 0
  PROVE  Swept(fat, near, g + 1, counter + 1, down)
  <1>0. Granules \in Nat /\ Granules % 2 = 0 /\ Granule!Granule = 0 .. (Granules - 1)
        /\ near \in Int /\ g \in Int
    BY GranulesAre DEF Granule!Granule
  <1>1. PICK z \in Int : Granules = 2 * z
    BY <1>0, Halves DEF TrackOf
  <1>2. PICK y \in Int : Near(near, y)
    BY <1>0, Halves DEF Near
  <1>3. PICK x \in Int : g = 2 * x
    <2>1. PICK x \in Int, o \in {0, 1} : g = 2 * x + o /\ g % 2 = o
      BY <1>0, Halves
    <2> QED
      BY <2>1
  <1>4. At(g + 1, x, 1)
    BY <1>3 DEF At
  <1>8. At(g, x, 0)
    BY <1>3 DEF At
  <1>5. /\ down \in BOOLEAN /\ (down <=> 2 * x < 2 * y)
        /\ counter = CountBefore(2 * y, 2 * x, down)
        /\ 2 * x \in -2 .. Granules
        /\ \A h \in Before(2 * y, 2 * x, down) : fat[h] # Granule!Free
    <2>1. /\ down \in BOOLEAN /\ (down <=> 2 * x < 2 * y)
          /\ counter = CountBefore(2 * y, 2 * x, down) + 0
          /\ 2 * x \in -2 .. Granules
          /\ \A h \in Before(2 * y, 2 * x, down) : fat[h] # Granule!Free
      BY <1>2, <1>8, SweptIs
    <2> QED
      BY <1>0, <2>1 DEF CountBefore
  <1>6. counter + 1 = CountBefore(2 * y, 2 * x, down) + 1
    BY <1>0, <1>5 DEF CountBefore
  <1>7. 2 * x + 1 \in Granule!Granule
    BY <1>0, <1>1, <1>3
  <1> QED
    BY <1>2, <1>3, <1>4, <1>5, <1>6, <1>7, SweptIs

(* The next track, below or above those looked at. *)
TurnSweeps(fat, near, next, m, down) ==
  /\ down = FALSE /\ next - 2 - m >= 0 => Swept(fat, near, next - 2 - m, m, TRUE)
  /\ down = FALSE /\ ~ next - 2 - m >= 0 => Swept(fat, near, next, m, FALSE)
  /\ down = TRUE /\ next - 2 + m < Granules => Swept(fat, near, next - 2 + m, m, FALSE)
  /\ down = TRUE /\ ~ next - 2 + m < Granules => Swept(fat, near, next - 4, m, TRUE)

LEMMA SweepsTrack ==
  ASSUME NEW fat, NEW near \in Granule!Granule, NEW g \in Granule!Granule, NEW counter, NEW down,
         Swept(fat, near, g, counter, down), fat[g] # Granule!Free, g % 2 = 1,
         NEW next, next = g + 1, NEW m, m = counter + 1
  PROVE  TurnSweeps(fat, near, next, m, down)
  <1>0. Granules \in Nat /\ Granules % 2 = 0 /\ Granule!Granule = 0 .. (Granules - 1)
        /\ near \in Int /\ g \in Int
    BY GranulesAre DEF Granule!Granule
  <1>1. PICK z \in Int : Granules = 2 * z
    BY <1>0, Halves DEF TrackOf
  <1>2. PICK y \in Int : Near(near, y)
    BY <1>0, Halves DEF Near
  <1>3. 0 <= 2 * y /\ 2 * y < Granules
    <2>1. PICK v \in Int, o \in {0, 1} : near = 2 * v + o /\ TrackOf(near) = 2 * v
      BY <1>0, Halves
    <2> QED
      BY <1>0, <1>2, <2>1 DEF Near
  <1>4. PICK x \in Int : g = 2 * x + 1 /\ At(g, x, 1)
    <2>1. PICK x \in Int, o \in {0, 1} : g = 2 * x + o /\ g % 2 = o
      BY <1>0, Halves
    <2> QED
      BY <2>1 DEF At
  <1>5. /\ down \in BOOLEAN /\ (down <=> 2 * x < 2 * y)
        /\ counter = CountBefore(2 * y, 2 * x, down) + 1
        /\ 2 * x \in -2 .. Granules
        /\ \A h \in Before(2 * y, 2 * x, down) : fat[h] # Granule!Free
        /\ fat[2 * x] # Granule!Free
    BY <1>2, <1>4, SweptIs
  <1>6. 0 <= x /\ x < z
    BY <1>0, <1>1, <1>4
  <1>7. \A h \in Granule!Granule :
          h \in Before(2 * y, 2 * x, down) \/ (2 * x <= h /\ h < 2 * x + 2)
            => fat[h] # Granule!Free
    <2>1. fat[2 * x + 1] # Granule!Free
      BY <1>4
    <2>2. \A h \in Granule!Granule : 2 * x <= h /\ h < 2 * x + 2 => h = 2 * x \/ h = 2 * x + 1
      BY <1>0
    <2> QED
      BY <1>5, <2>1, <2>2
  <1>10. counter \in Int /\ m \in Int /\ next \in Int
    BY <1>0, <1>5 DEF CountBefore
  <1>8. CASE down = FALSE
    <2>1. x >= y
      BY <1>5, <1>8
    <2>2. counter = 1 + IF 2 * (2 * x - 2 * y) <= 2 * x THEN 2 * (2 * x - 2 * y) ELSE 2 * x
      BY <1>5, <1>8 DEF CountBefore
    <2>3. CASE x <= 2 * y - 1
      <3>0. PICK u \in Int : u = 2 * y - x - 1
        <4>1. 2 * y - x - 1 \in Int
          OBVIOUS
        <4> QED
          BY <4>1
      <3>1. counter = 1 + 4 * (x - y)
        BY <2>1, <2>2, <2>3, <3>0
      <3>2. next - 2 - (m) = 2 * u
        BY <1>4, <3>1, <3>0
      <3>3. m = CountBefore(2 * y, 2 * u, TRUE)
        BY <1>1, <1>6, <2>1, <2>3, <3>1, <3>0 DEF CountBefore
      <3>4. \A h \in Before(2 * y, 2 * u, TRUE) : fat[h] # Granule!Free
        BY <1>0, <1>7, <1>8, <3>0 DEF Before
      <3>5. 2 * u \in Granule!Granule /\ 2 * u \in -2 .. Granules
        BY <1>0, <1>3, <1>6, <2>1, <2>3, <3>0
      <3>6. 2 * u < 2 * y
        BY <2>1, <3>0
      <3>7. Swept(fat, near, 2 * u, m, TRUE)
        BY <1>2, <3>3, <3>4, <3>5, <3>6, SweptTrack
      <3>8. next - 2 - (m) >= 0
        BY <1>0, <3>2, <3>5
      <3>9. Swept(fat, near, next - 2 - (m), m, TRUE)
        BY <3>2, <3>7
      <3> QED
        BY <1>0, <1>8, <1>10, <3>8, <3>9 DEF TurnSweeps
    <2>4. CASE x >= 2 * y
      <3>0. PICK u \in Int : u = x + 1
        <4>1. x + 1 \in Int
          OBVIOUS
        <4> QED
          BY <4>1
      <3>1. counter = 1 + 2 * x
        BY <2>1, <2>2, <2>4, <3>0
      <3>2. next = 2 * u /\ next - 2 - (m) < 0
        BY <1>4, <3>1, <3>0
      <3>3. m = CountBefore(2 * y, 2 * u, FALSE)
        BY <2>1, <2>4, <3>1, <3>0 DEF CountBefore
      <3>4. \A h \in Before(2 * y, 2 * u, FALSE) : fat[h] # Granule!Free
        BY <1>0, <1>7, <1>8, <2>4, <3>0 DEF Before
      <3>5. /\ 2 * u \notin Granule!Granule => m = Granules
            /\ 2 * u \in -2 .. Granules
        BY <1>0, <1>1, <1>6, <3>1, <3>0
      <3>6. ~ 2 * u < 2 * y
        BY <2>1, <3>0
      <3>7. Swept(fat, near, 2 * u, m, FALSE)
        BY <1>2, <3>3, <3>4, <3>5, <3>6, SweptTrack
      <3>8. ~ next - 2 - (m) >= 0
        BY <1>0, <1>10, <3>2
      <3>9. Swept(fat, near, next, m, FALSE)
        BY <3>2, <3>7
      <3> QED
        BY <1>0, <1>8, <1>10, <3>8, <3>9 DEF TurnSweeps
    <2> QED
      BY <2>3, <2>4
  <1>9. CASE down = TRUE
    <2>1. x < y
      BY <1>5, <1>9
    <2>2. counter = 1 + IF 2 * (2 * y - 2 * x) <= Granules - 2 * x THEN 2 * (2 * y - 2 * x) - 2
                        ELSE Granules - 2 * x - 2
      BY <1>0, <1>5, <1>9 DEF CountBefore
    <2>3. CASE 2 * y - x < z
      <3>0. PICK u \in Int : u = 2 * y - x
        <4>1. 2 * y - x \in Int
          OBVIOUS
        <4> QED
          BY <4>1
      <3>1. counter = 1 + 4 * (y - x) - 2
        BY <1>1, <2>1, <2>2, <2>3, <3>0
      <3>2. next - 2 + (m) = 2 * u
        BY <1>4, <3>1, <3>0
      <3>3. m = CountBefore(2 * y, 2 * u, FALSE)
        BY <1>1, <1>6, <2>1, <2>3, <3>1, <3>0 DEF CountBefore
      <3>4. \A h \in Before(2 * y, 2 * u, FALSE) : fat[h] # Granule!Free
        BY <1>0, <1>7, <1>9, <3>0 DEF Before
      <3>5. 2 * u \in Granule!Granule /\ 2 * u \in -2 .. Granules
        BY <1>0, <1>1, <1>3, <1>6, <2>1, <2>3, <3>0
      <3>6. ~ 2 * u < 2 * y
        BY <2>1, <3>0
      <3>7. Swept(fat, near, 2 * u, m, FALSE)
        BY <1>2, <3>3, <3>4, <3>5, <3>6, SweptTrack
      <3>8. next - 2 + (m) < Granules
        BY <1>0, <3>2, <3>5
      <3>9. Swept(fat, near, next - 2 + (m), m, FALSE)
        BY <3>2, <3>7
      <3> QED
        BY <1>0, <1>9, <1>10, <3>8, <3>9 DEF TurnSweeps
    <2>4. CASE 2 * y - x >= z
      <3>0. PICK u \in Int : u = x - 1
        <4>1. x - 1 \in Int
          OBVIOUS
        <4> QED
          BY <4>1
      <3>1. counter = 1 + Granules - 2 * x - 2
        BY <1>1, <2>1, <2>2, <2>4, <3>0
      <3>2. next - 4 = 2 * u /\ next - 2 + (m) >= Granules
        BY <1>0, <1>4, <3>1, <3>0
      <3>3. m = CountBefore(2 * y, 2 * u, TRUE)
        BY <1>1, <2>1, <2>4, <3>1, <3>0 DEF CountBefore
      <3>4. \A h \in Before(2 * y, 2 * u, TRUE) : fat[h] # Granule!Free
        BY <1>0, <1>1, <1>7, <1>9, <2>4, <3>0 DEF Before
      <3>5. /\ 2 * u \notin Granule!Granule => m = Granules
            /\ 2 * u \in -2 .. Granules
        BY <1>0, <1>1, <1>6, <3>1, <3>0
      <3>6. 2 * u < 2 * y
        BY <2>1, <3>0
      <3>7. Swept(fat, near, 2 * u, m, TRUE)
        BY <1>2, <3>3, <3>4, <3>5, <3>6, SweptTrack
      <3>8. ~ next - 2 + (m) < Granules
        BY <1>0, <1>10, <3>2
      <3>9. Swept(fat, near, next - 4, m, TRUE)
        BY <3>2, <3>7
      <3> QED
        BY <1>0, <1>9, <1>10, <3>8, <3>9 DEF TurnSweeps
    <2> QED
      BY <2>3, <2>4
  <1> QED
    BY <1>5, <1>8, <1>9, <1>10
GranuleFields ==
  [loop : {"granule"}, fat : [Granule!Granule -> {Granule!Free, Granule!Last(1)}],
   near : Granule!Granule, counter : Int, down : BOOLEAN, granule : Int,
   result : {"none yet", "found", "full"}]

GranulesSwept == Swept(l.fat, l.near, l.granule, l.counter, l.down)

(* The search as far as it has got: its result is not there yet, or right.  *)
GranuleInv ==
  l.loop = "granule" =>
    l \in GranuleFields /\ (l.result = "none yet" => GranulesSwept) /\ Granule!FindsNearest

LEMMA SweptOnDisk == GranulesSwept /\ Granule!Looking => l.granule \in Granule!Granule
  <1>1. GranulesSwept => (l.granule \notin Granule!Granule => l.counter = Granules)
    BY DEF GranulesSwept, Swept
  <1>2. Granule!Looking => l.counter < Granules
    BY DEF Granule!Looking
  <1>3. Granules \in Nat
    BY GranulesAre
  <1> QED
    BY <1>1, <1>2, <1>3

LEMMA GranuleBegins == Granule!Init => GranuleInv
  <1> SUFFICES ASSUME Granule!Init PROVE GranuleInv
    OBVIOUS
  <1>1. PICK fat \in [Granule!Granule -> {Granule!Free, Granule!Last(1)}],
             near \in Granule!Granule :
          l = [loop |-> "granule", fat |-> fat, near |-> near, counter |-> 0, down |-> FALSE,
               granule |-> Granule!TrackOf(near), result |-> "none yet"]
    BY DEF Granule!Init
  <1>2. near \in Int /\ 0 <= near /\ near < Granules /\ Granules \in Nat
    BY GranulesAre DEF Granule!Granule
  <1>3. PICK y \in Int, o \in {0, 1} : near = 2 * y + o /\ TrackOf(near) = 2 * y
    BY <1>2, Halves
  <1>4. Near(near, y) /\ 2 * y \in Granule!Granule /\ 2 * y \in -2 .. Granules
    BY <1>2, <1>3 DEF Near, Granule!Granule
  <1>5. 0 = CountBefore(2 * y, 2 * y, FALSE) /\ Before(2 * y, 2 * y, FALSE) = {}
    BY <1>2, <1>3, <1>4 DEF CountBefore, Before, Granule!Granule
  <1>6. Swept(fat, near, 2 * y, 0, FALSE)
    <2>1. ~ 2 * y < 2 * y /\ \A h \in Before(2 * y, 2 * y, FALSE) : fat[h] # Granule!Free
      <3>1. ~ 2 * y < 2 * y
        OBVIOUS
      <3> QED
        BY <1>5, <3>1
    <2>2. FALSE \in BOOLEAN /\ (FALSE <=> 2 * y < 2 * y)
      BY <2>1
    <2> QED
      BY <1>4, <1>5, <2>1, <2>2, SweptTrack
  <1>7. Granule!TrackOf(near) = 2 * y /\ 2 * y \in Int
    BY <1>3 DEF TrackOf, Granule!TrackOf
  <1>8. l \in GranuleFields
    <2>1. l = [loop |-> "granule", fat |-> fat, near |-> near, counter |-> 0, down |-> FALSE,
               granule |-> 2 * y, result |-> "none yet"]
      BY <1>1, <1>7
    <2>2. 0 \in Int /\ FALSE \in BOOLEAN /\ "none yet" \in {"none yet", "found", "full"}
      OBVIOUS
    <2>3. fat \in [Granule!Granule -> {Granule!Free, Granule!Last(1)}] /\ near \in Granule!Granule
      OBVIOUS
    <2> QED
      BY <1>7, <2>1, <2>2, <2>3, Zenon DEF GranuleFields
  <1>9. GranulesSwept /\ l.result = "none yet"
    BY <1>1, <1>6, <1>7 DEF GranulesSwept
  <1> QED
    BY <1>8, <1>9, SweptOnDisk DEF GranuleInv, Granule!FindsNearest

LEMMA AdvanceSweeps ==
  GranuleInv /\ l.loop = "granule" /\ Granule!Advance => GranuleInv'
  <1> SUFFICES ASSUME GranuleInv, l.loop = "granule", Granule!Advance PROVE GranuleInv'
    OBVIOUS
  <1> DEFINE t == IF l.granule % 2 = 0 THEN [granule |-> l.granule + 1, down |-> l.down]
                  ELSE Granule!Turn(l.granule + 1, l.counter + 1)
  <1>1. l \in GranuleFields /\ l.result = "none yet" /\ GranulesSwept
        /\ l.granule \in Granule!Granule /\ l.fat[l.granule] # Granule!Free
    BY SweptOnDisk DEF GranuleInv, Granule!Advance, Granule!Looking
  <1>2. l' = [l EXCEPT !.counter = @ + 1, !.granule = t.granule, !.down = t.down]
    BY DEF Granule!Advance
  <1>3. /\ l.near \in Granule!Granule /\ l.granule \in Int /\ l.counter \in Int
        /\ l.down \in BOOLEAN
    BY <1>1 DEF GranuleFields
  <1>4. /\ t.granule \in Int /\ t.down \in BOOLEAN
        /\ Swept(l.fat, l.near, t.granule, l.counter + 1, t.down)
    <2>1. CASE l.granule % 2 = 0
      <3>1. Swept(l.fat, l.near, l.granule + 1, l.counter + 1, l.down)
        BY <1>1, <1>3, <2>1, SweepsSide DEF GranulesSwept
      <3>2. t.granule = l.granule + 1 /\ t.down = l.down
        BY <2>1
      <3> QED
        BY <1>3, <3>1, <3>2
    <2>2. CASE l.granule % 2 # 0
      <3>1. l.granule % 2 = 1
        BY <1>3, <2>2, Halves
      <3>2. PICK next, m : next = l.granule + 1 /\ m = l.counter + 1
        OBVIOUS
      <3>3. TurnSweeps(l.fat, l.near, next, m, l.down)
        BY <1>1, <1>3, <3>1, <3>2, SweepsTrack DEF GranulesSwept
      <3>4. next \in Int /\ m \in Int
        BY <1>3, <3>2
      <3>5. t = Granule!Turn(next, m)
        BY <2>2, <3>2
      <3>6. \/ /\ l.down = FALSE /\ next - 2 - m >= 0
               /\ t.granule = next - 2 - m /\ t.down = TRUE
            \/ /\ l.down = FALSE /\ ~ next - 2 - m >= 0
               /\ t.granule = next /\ t.down = FALSE
            \/ /\ l.down = TRUE /\ next - 2 + m < Granules
               /\ t.granule = next - 2 + m /\ t.down = FALSE
            \/ /\ l.down = TRUE /\ ~ next - 2 + m < Granules
               /\ t.granule = next - 4 /\ t.down = TRUE
        BY <1>3, <3>4, <3>5 DEF Granule!Turn, Granule!Below, Granule!Above
      <3> HIDE DEF t
      <3>7. t.granule \in Int /\ t.down \in BOOLEAN
        <4>1. next - 2 - m \in Int /\ next - 2 + m \in Int /\ next - 4 \in Int
          BY <3>4
        <4>2. t.granule \in {next - 2 - m, next, next - 2 + m, next - 4} /\ t.down \in {TRUE, FALSE}
          BY <3>6
        <4> QED
          BY <3>4, <4>1, <4>2
      <3>8. Swept(l.fat, l.near, t.granule, m, t.down)
        BY <3>3, <3>4, <3>6 DEF TurnSweeps
      <3> QED
        BY <3>2, <3>7, <3>8
    <2> QED
      BY <2>1, <2>2
  <1> HIDE DEF t
  <1>5. l' \in GranuleFields
    <2>1. l.counter + 1 \in Int
      BY <1>3
    <2> QED
      BY <1>1, <1>2, <1>4, <2>1 DEF GranuleFields
  <1>6. /\ l'.fat = l.fat /\ l'.near = l.near /\ l'.counter = l.counter + 1
        /\ l'.granule = t.granule /\ l'.down = t.down /\ l'.result = "none yet"
    BY <1>1, <1>2 DEF GranuleFields
  <1>7. GranulesSwept'
    BY <1>4, <1>6 DEF GranulesSwept
  <1>8. (Granule!Looking => l.granule \in Granule!Granule)'
    BY <1>7, SweptOnDisk, PTL
  <1> QED
    BY <1>5, <1>6, <1>7, <1>8 DEF GranuleInv, Granule!FindsNearest

LEMMA FindFinds ==
  GranuleInv /\ l.loop = "granule" /\ (Granule!Find \/ Granule!GiveUp) => GranuleInv'
  <1> SUFFICES ASSUME GranuleInv, l.loop = "granule", Granule!Find \/ Granule!GiveUp
               PROVE  GranuleInv'
    OBVIOUS
  <1>1. l \in GranuleFields /\ l.result = "none yet" /\ GranulesSwept
    BY DEF GranuleInv, Granule!Find, Granule!GiveUp, Granule!Looking
  <1>2. l.near \in Granule!Granule
    BY <1>1 DEF GranuleFields
  <1>3. CASE Granule!Find
    <2>1. l' = [l EXCEPT !.result = "found"] /\ l.fat[l.granule] = Granule!Free
          /\ l.granule \in Granule!Granule
      BY <1>1, <1>3, SweptOnDisk DEF Granule!Find
    <2>2. Granule!IsNearestFree(l.fat, l.near, l.granule)
      BY <1>1, <1>2, <2>1, SweptIsNearest DEF GranulesSwept
    <2>3. l' \in GranuleFields
      BY <1>1, <2>1 DEF GranuleFields
    <2>4. /\ l'.fat = l.fat /\ l'.near = l.near /\ l'.granule = l.granule
          /\ l'.result = "found"
      BY <1>1, <2>1 DEF GranuleFields
    <2> QED
      BY <2>2, <2>3, <2>4 DEF GranuleInv, Granule!FindsNearest, Granule!Looking
  <1>4. CASE Granule!GiveUp
    <2>1. l' = [l EXCEPT !.result = "full"] /\ l.counter = Granules
      BY <1>4 DEF Granule!GiveUp
    <2>2. Granule!IsFull(l.fat)
      BY <1>1, <1>2, <2>1, SweptAll DEF GranulesSwept
    <2>3. l' \in GranuleFields
      BY <1>1, <2>1 DEF GranuleFields
    <2>4. l'.fat = l.fat /\ l'.result = "full"
      BY <1>1, <2>1 DEF GranuleFields
    <2> QED
      BY <2>2, <2>3, <2>4 DEF GranuleInv, Granule!FindsNearest, Granule!Looking
  <1> QED
    BY <1>3, <1>4

(* find_free_granule reads no byte of the FAT that is not a granule's,      *)
(* returns the nearest free granule, and calls the disk full only when it   *)
(* is: for every size of disk, FAT and granule to be near to.               *)
THEOREM GranuleIsFound == Spec => []GranuleFound
  <1>1. Init => HasLoop /\ GranuleInv
    <2> SUFFICES ASSUME Init PROVE GranuleInv
      BY LoopBegins DEF Init
    <2>1. CASE Granule!Init
      BY <2>1, GranuleBegins
    <2>2. CASE l.loop # "granule"
      BY <2>2 DEF GranuleInv
    <2> QED
      BY <2>1, <2>2, LoopBegins DEF Init
  <1>2. HasLoop /\ GranuleInv /\ [Next]_vars => (HasLoop /\ GranuleInv)'
    <2> SUFFICES ASSUME HasLoop, GranuleInv, [Next]_vars PROVE GranuleInv'
      BY LoopStays
    <2>1. CASE l.loop = "granule" /\ Granule!Next
      BY <2>1, AdvanceSweeps, FindFinds DEF Granule!Next
    <2>2. CASE UNCHANGED l
      BY <2>2 DEF GranuleInv, GranulesSwept, Granule!FindsNearest, Granule!Looking
    <2>3. CASE l.loop # "granule"
      BY <2>3, LoopStays DEF GranuleInv
    <2> QED
      BY <2>1, <2>2, <2>3, LoopStays
  <1>3. GranuleInv => GranuleFound
    BY DEF GranuleInv, GranuleFound
  <1> QED
    BY <1>1, <1>2, <1>3, PTL DEF Spec

-----------------------------------------------------------------------------
(* Dragon DOS's search for a sector: by tracks, down from the directory     *)
(* track and up from it, then by the runs of a sector of the bitmap, as far *)
(* as each has got.                                                         *)

(* Where _dd_allocate looks: tracks and the bitmap's bytes. *)
LEMMA SectorsAre ==
  /\ T \in Nat \ {0} /\ Dir \in Nat /\ MapSector \in Nat \ {0} /\ MapByte \in Nat \ {0}
  /\ Total \in Nat /\ Total <= 2 * MapSector
  /\ Dir % T = 0 /\ MapSector % T = 0 /\ MapSector % MapByte = 0
  BY GroundAssumption

(* Tracks are T sectors apart. *)
LEMMA TracksApart ==
  ASSUME NEW x \in Nat, NEW y \in Nat, x % T = 0, y % T = 0, x < y
  PROVE  x + T <= y
  <1>1. T \in Nat \ {0}
    BY SectorsAre
  <1>2. PICK a \in Nat, b \in Nat : a = x \div T /\ b = y \div T
    BY <1>1, DivisionIs
  <1>3. x = T * a /\ y = T * b
    BY <1>1, <1>2
  <1>4. a < b
    <2>1. CASE b <= a
      <3>1. T * b <= T * a
        <4>1. a - b \in Nat
          BY <1>2, <2>1
        <4>2. T * (a - b) \in Nat /\ T * a = T * b + T * (a - b)
          BY <1>1, <4>1
        <4> QED
          BY <1>1, <1>2, <4>2
      <3> QED
        BY <1>3, <3>1
    <2> QED
      BY <1>2, <2>1
  <1>5. T * a + T <= T * b
    BY <1>1, <1>4, TimesMonotone
  <1> QED
    BY <1>3, <1>5

(* The tracks next to one. *)
LEMMA NextTracks ==
  ASSUME NEW x \in Nat, x % T = 0
  PROVE  (x + T) % T = 0 /\ (x - T >= 0 => (x - T) % T = 0)
  <1>1. T \in Nat \ {0}
    BY SectorsAre
  <1>2. PICK a \in Nat : a = x \div T
    BY <1>1, DivisionIs
  <1>3. x = T * a
    BY <1>1, <1>2
  <1>4. x + T = T * (a + 1) /\ x - T = T * (a - 1)
    BY <1>1, <1>3
  <1>5. ASSUME NEW k \in Int PROVE (T * k) % T = 0
    BY <1>1
  <1> QED
    BY <1>4, <1>5

-----------------------------------------------------------------------------

LEMMA LargestIs ==
  ASSUME NEW S \in SUBSET Nat, NEW m \in S, \A k \in S : k <= m
  PROVE  Sector!Max(S) = m
  <1>1. \E x \in S : \A k \in S : x >= k
    OBVIOUS
  <1>2. PICK y \in S : y = Sector!Max(S) /\ \A k \in S : y >= k
    BY <1>1 DEF Sector!Max
  <1>3. y >= m /\ m >= y /\ y \in Nat /\ m \in Nat
    BY <1>2
  <1> QED
    BY <1>2, <1>3

LEMMA SmallestIs ==
  ASSUME NEW S \in SUBSET Nat, NEW m \in S, \A k \in S : m <= k
  PROVE  Sector!Min(S) = m
  <1>1. \E x \in S : \A k \in S : x =< k
    OBVIOUS
  <1>2. PICK y \in S : y = Sector!Min(S) /\ \A k \in S : y =< k
    BY <1>1 DEF Sector!Min
  <1>3. y <= m /\ m <= y /\ y \in Nat /\ m \in Nat
    BY <1>2
  <1> QED
    BY <1>2, <1>3

(* _dd_allocate has looked at the tracks from p on to the directory track:  *)
(* no two in a row are free at their beginning.                             *)
DownSwept(f, p, found) ==
  /\ p \in Nat /\ p % T = 0 /\ p <= Dir
  /\ found \in BOOLEAN /\ (found <=> p \in Sector!Below(f))
  /\ \A x \in Sector!Below(f) : x >= p => x + T \notin Sector!Below(f)

(* It has looked at those below p: none is free at its beginning.           *)
UpSwept(f, hint, p) ==
  /\ p \in Nat /\ p % T = 0
  /\ \E from \in Nat :
       /\ Sector!LookByTrack(f, hint) = Sector!LookUp(f, from)
       /\ \A x \in Sector!FirstOfTrack(f) : x >= from <=> x >= p

LEMMA BelowIs ==
  ASSUME NEW f \in SUBSET Sector!Lsn
  PROVE  /\ \A x \in Sector!Below(f) : x \in Nat /\ x \in f /\ x % T = 0 /\ x < Dir
         /\ \A x \in f : x \in Nat /\ (x % T = 0 /\ x < Dir => x \in Sector!Below(f))
  <1>1. \A x \in f : x \in Nat
    BY SectorsAre DEF Sector!Lsn
  <1> QED
    BY <1>1 DEF Sector!Below, Sector!FirstOfTrack

LEMMA DownBegins ==
  ASSUME NEW f \in SUBSET Sector!Lsn
  PROVE  DownSwept(f, Dir, FALSE)
  <1>1. \A x \in Sector!Below(f) : x \in Nat /\ x < Dir
    BY BelowIs
  <1>2. Dir \in Nat /\ Dir % T = 0 /\ Dir <= Dir
    BY SectorsAre
  <1>3. Dir \notin Sector!Below(f) /\ \A x \in Sector!Below(f) : ~ x >= Dir
    BY <1>1, <1>2
  <1> QED
    BY <1>2, <1>3 DEF DownSwept

(* The next track below: free, and that above it too, or swept as well.     *)
LEMMA DownGoesOn ==
  ASSUME NEW f \in SUBSET Sector!Lsn, NEW p, NEW found, DownSwept(f, p, found),
         NEW q, q = p - T, q >= 0
  PROVE  /\ q \notin f => DownSwept(f, q, FALSE)
         /\ q \in f /\ found = FALSE => DownSwept(f, q, TRUE)
         /\ q \in f /\ found = TRUE => Sector!LookDown(f) = {q}
  <1>1. /\ p \in Nat /\ p % T = 0 /\ p <= Dir /\ found \in BOOLEAN /\ (found <=> p \in Sector!Below(f))
        /\ \A x \in Sector!Below(f) : x >= p => x + T \notin Sector!Below(f)
    BY DEF DownSwept
  <1>2. T \in Nat \ {0} /\ Dir \in Nat
    BY SectorsAre
  <1>3. q \in Nat /\ q % T = 0 /\ q < Dir /\ q + T = p
    BY <1>1, <1>2, NextTracks
  <1>4. q \in f <=> q \in Sector!Below(f)
    BY <1>3, BelowIs
  <1>5. ASSUME NEW x \in Sector!Below(f), x >= q PROVE x = q \/ x >= p
    <2>1. x \in Nat /\ x % T = 0
      BY BelowIs
    <2>2. CASE q < x
      <3>1. q + T <= x
        BY <1>3, <2>1, <2>2, TracksApart
      <3> QED
        BY <1>3, <3>1
    <2> QED
      BY <1>3, <1>5, <2>1, <2>2
  <1>0. found \in BOOLEAN
    BY <1>1
  <1>6. ASSUME ~ (q \in f /\ found) PROVE DownSwept(f, q, q \in f)
    <2>1. \A x \in Sector!Below(f) : x >= q => x + T \notin Sector!Below(f)
      <3> SUFFICES ASSUME NEW x \in Sector!Below(f), x >= q PROVE x + T \notin Sector!Below(f)
        OBVIOUS
      <3>1. CASE x = q
        BY <3>1, <1>1, <1>3, <1>4, <1>6
      <3>2. CASE x >= p
        BY <3>2, <1>1
      <3> QED
        BY <3>1, <3>2, <1>5
    <2>2. (q \in f) = (q \in Sector!Below(f)) /\ q <= Dir
      BY <1>2, <1>3, <1>4
    <2> QED
      BY <1>3, <2>1, <2>2 DEF DownSwept
  <1>7. ASSUME q \in f, found PROVE Sector!LookDown(f) = {q}
    <2> DEFINE pairs == { x \in Sector!Below(f) : x + T \in Sector!Below(f) }
    <2>1. pairs \in SUBSET Nat
      BY BelowIs
    <2>2. q \in pairs
      BY <1>1, <1>3, <1>4, <1>7
    <2>3. ASSUME NEW x \in pairs PROVE x <= q
      <3>1. x \in Sector!Below(f) /\ x \in Nat /\ ~ x >= p
        BY <1>1, BelowIs
      <3> QED
        BY <3>1, <1>1, <1>3, <1>5
    <2>4. Sector!Max(pairs) = q
      <3> HIDE DEF pairs
      <3> QED
        BY <2>1, <2>2, <2>3, LargestIs
    <2>5. pairs # {}
      BY <2>2
    <2> QED
      BY <2>4, <2>5 DEF Sector!LookDown
  <1>8. q \notin f => (q \in f) = FALSE
    OBVIOUS
  <1>9. q \in f => (q \in f) = TRUE
    OBVIOUS
  <1> QED
    BY <1>6, <1>7, <1>8, <1>9

(* At track 0. *)
LEMMA DownEnds ==
  ASSUME NEW f \in SUBSET Sector!Lsn, NEW p, NEW found, DownSwept(f, p, found), p < T
  PROVE  /\ p = 0 /\ (found <=> 0 \in Sector!Below(f))
         /\ Sector!LookDown(f) = Sector!Below(f) \cap {0}
  <1>1. /\ p \in Nat /\ p % T = 0 /\ found \in BOOLEAN /\ (found <=> p \in Sector!Below(f))
        /\ \A x \in Sector!Below(f) : x >= p => x + T \notin Sector!Below(f)
    BY DEF DownSwept
  <1>2. T \in Nat \ {0}
    BY SectorsAre
  <1>3. p = 0
    <2>1. CASE 0 < p
      <3>1. 0 \in Nat /\ 0 % T = 0
        BY <1>2
      <3>2. 0 + T <= p
        BY <1>1, <2>1, <3>1, TracksApart
      <3> QED
        BY <1>1, <1>2, <3>2
    <2> QED
      BY <1>1, <2>1
  <1>4. { x \in Sector!Below(f) : x + T \in Sector!Below(f) } = {}
    <2>1. \A x \in Sector!Below(f) : x \in Nat
      BY BelowIs
    <2> QED
      BY <1>1, <1>3, <2>1
  <1>5. Sector!LookDown(f) = Sector!Below(f) \cap {0}
    BY <1>4 DEF Sector!LookDown
  <1> QED
    BY <1>1, <1>3, <1>5

(* Upwards from the directory track or the second sector of the bitmap. *)
LEMMA UpBegins ==
  ASSUME NEW f \in SUBSET Sector!Lsn, NEW hint
  PROVE  /\ hint # Sector!NoHint /\ hint >= MapSector => UpSwept(f, hint, MapSector)
         /\ ~ (hint # Sector!NoHint /\ hint >= MapSector) /\ Sector!LookDown(f) = {} =>
              UpSwept(f, hint, Dir + T)
  <1>1. MapSector \in Nat /\ MapSector % T = 0 /\ Dir + T \in Nat /\ (Dir + T) % T = 0
    <2>1. Dir \in Nat /\ Dir % T = 0 /\ T \in Nat
      BY SectorsAre
    <2>2. (Dir + T) % T = 0
      BY <2>1, NextTracks
    <2> QED
      BY <2>1, <2>2, SectorsAre
  <1> QED
    BY <1>1 DEF UpSwept, Sector!LookByTrack

LEMMA UpGoesOn ==
  ASSUME NEW f \in SUBSET Sector!Lsn, NEW hint, NEW p, UpSwept(f, hint, p)
  PROVE  /\ p >= 2 * MapSector => Sector!LookByTrack(f, hint) = {}
         /\ p \in f => Sector!LookByTrack(f, hint) = {p}
         /\ p \notin f => UpSwept(f, hint, p + T)
  <1>1. PICK from \in Nat :
          /\ Sector!LookByTrack(f, hint) = Sector!LookUp(f, from)
          /\ \A x \in Sector!FirstOfTrack(f) : x >= from <=> x >= p
    BY DEF UpSwept
  <1>2. p \in Nat /\ p % T = 0 /\ T \in Nat \ {0}
    BY SectorsAre DEF UpSwept
  <1>3. \A x \in Sector!FirstOfTrack(f) : x \in Nat /\ x \in f /\ x % T = 0 /\ x < 2 * MapSector
    BY SectorsAre DEF Sector!FirstOfTrack, Sector!Lsn
  <1> DEFINE above == { x \in Sector!FirstOfTrack(f) : x >= from }
  <1>4. above = { x \in Sector!FirstOfTrack(f) : x >= p } /\ above \in SUBSET Nat
    BY <1>1, <1>3
  <1>5. Sector!LookUp(f, from) = IF above = {} THEN {} ELSE {Sector!Min(above)}
    BY DEF Sector!LookUp
  <1> HIDE DEF above
  <1>6. ASSUME p >= 2 * MapSector PROVE Sector!LookByTrack(f, hint) = {}
    <2>1. above = {}
      BY <1>2, <1>3, <1>4, <1>6, SectorsAre
    <2> QED
      BY <1>1, <1>5, <2>1
  <1>7. ASSUME p \in f PROVE Sector!LookByTrack(f, hint) = {p}
    <2>1. p \in above /\ \A x \in above : p <= x
      BY <1>2, <1>4, <1>7 DEF Sector!FirstOfTrack
    <2>2. Sector!Min(above) = p
      BY <1>4, <2>1, SmallestIs
    <2> QED
      BY <1>1, <1>5, <2>1, <2>2
  <1>8. ASSUME p \notin f PROVE UpSwept(f, hint, p + T)
    <2>1. ASSUME NEW x \in Sector!FirstOfTrack(f) PROVE x >= from <=> x >= p + T
      <3>1. x \in Nat /\ x % T = 0 /\ x # p
        BY <1>3, <1>8
      <3>2. x > p => x >= p + T
        BY <3>1, <1>2, TracksApart
      <3> QED
        BY <1>1, <1>2, <3>1, <3>2
    <2>2. p + T \in Nat /\ (p + T) % T = 0
      BY <1>2, NextTracks
    <2> QED
      BY <1>1, <2>1, <2>2 DEF UpSwept
  <1> QED
    BY <1>6, <1>7, <1>8

(* The bytes of a sector of the bitmap. *)
ByteCount == MapSector \div MapByte

LEMMA BytesAre ==
  /\ ByteCount \in Nat \ {0} /\ MapSector = MapByte * ByteCount
  /\ Sector!Bytes = 0 .. (ByteCount - 1)
  <1>1. MapByte \in Nat \ {0} /\ MapSector % MapByte = 0 /\ MapSector \in Nat \ {0}
    BY SectorsAre
  <1>2. PICK d \in Int : d = MapSector \div MapByte
    BY <1>1
  <1>3. MapSector = MapByte * d
    BY <1>1, <1>2
  <1>4. d \in Nat \ {0}
    BY <1>1, <1>3
  <1> QED
    BY <1>2, <1>3, <1>4 DEF ByteCount, Sector!Bytes

(* Where a byte's sectors are. *)
LEMMA ByteIs ==
  ASSUME NEW b \in Sector!Bytes
  PROVE  /\ b \in Nat /\ b * MapByte \in Nat /\ (b + 1) * MapByte = b * MapByte + MapByte
         /\ (b + 1) * MapByte <= MapSector /\ MapByte \in Nat \ {0}
  <1>1. ByteCount \in Nat \ {0} /\ MapByte \in Nat \ {0} /\ MapSector = MapByte * ByteCount
    BY BytesAre, SectorsAre
  <1>2. b \in Nat /\ b + 1 <= ByteCount
    BY BytesAre
  <1>3. b * MapByte \in Nat /\ (b + 1) * MapByte = b * MapByte + MapByte
    BY <1>1, <1>2
  <1>4. (b + 1) * MapByte <= ByteCount * MapByte
    BY <1>1, <1>2
  <1>5. ByteCount * MapByte = MapSector
    BY <1>1
  <1> QED
    BY <1>1, <1>2, <1>3, <1>4, <1>5

(* Each sector of the disk has its bit in one of them. *)
LEMMA ByteOf ==
  ASSUME NEW base \in Nat, NEW x \in base .. (base + MapSector - 1)
  PROVE  \E b \in Sector!Bytes : x \in Sector!Bit(base, b)
  <1>1. ByteCount \in Nat \ {0} /\ MapByte \in Nat \ {0} /\ MapSector = MapByte * ByteCount
    BY BytesAre, SectorsAre
  <1>2. PICK k \in Nat : x = base + k /\ k < MapSector
    BY <1>1
  <1>3. PICK b \in Int : b = k \div MapByte
    BY <1>1, <1>2
  <1>4. b * MapByte \in Int /\ b * MapByte <= k /\ k < b * MapByte + MapByte
    BY <1>1, <1>2, <1>3
  <1>5. b >= 0
    BY <1>1, <1>2, <1>4
  <1>6. b < ByteCount
    BY <1>1, <1>2, <1>4
  <1>7. b \in Sector!Bytes
    BY <1>5, <1>6, BytesAre
  <1>8. x \in Sector!Bit(base, b)
    BY <1>1, <1>2, <1>4 DEF Sector!Bit
  <1> QED
    BY <1>7, <1>8

(* A byte that is $FF is not 0. *)
LEMMA FullIsNonzero ==
  ASSUME NEW f, NEW base \in Nat, NEW b, Sector!IsFF(f, base, b)
  PROVE  Sector!Nonzero(f, base, b)
  <1>1. b \in Sector!Bytes /\ Sector!Bit(base, b) \subseteq f
    BY DEF Sector!IsFF
  <1>2. base + b * MapByte \in Sector!Bit(base, b)
    BY <1>1, ByteIs DEF Sector!Bit
  <1> QED
    BY <1>1, <1>2 DEF Sector!Nonzero

(* What is free of a sector of the bitmap begins a run. *)
LEMMA StartsIs ==
  ASSUME NEW f, NEW base \in Nat, NEW x \in f, x \in base .. (base + MapSector - 1)
  PROVE  Sector!Starts(f, base) # {}
  <1> DEFINE S == { b \in Sector!Bytes : Sector!Nonzero(f, base, b) }
  <1>1. S \in SUBSET Nat /\ S # {}
    <2>1. PICK b \in Sector!Bytes : x \in Sector!Bit(base, b)
      BY ByteOf
    <2> QED
      BY <2>1, ByteIs DEF Sector!Nonzero
  <1>2. PICK b \in S : \A c \in S : b <= c
    <2> HIDE DEF S
    <2> QED
      BY <1>1, LeastNumber
  <1>3. b - 1 \notin S
    BY <1>1, <1>2
  <1>4. ~ Sector!Nonzero(f, base, b - 1)
    BY <1>3 DEF Sector!Nonzero
  <1> QED
    BY <1>2, <1>4 DEF Sector!Starts

(* A run of m bytes from b on. *)
HasLength(f, base, b, m) ==
  /\ \A k \in 1 .. (m - 1) : Sector!IsFF(f, base, b + k)
  /\ ~ Sector!IsFF(f, base, b + m)

(* A run of bytes has one length. *)
LEMMA LengthIs ==
  ASSUME NEW f, NEW base \in Nat, NEW b \in Sector!Bytes, NEW m \in 1 .. ByteCount,
         HasLength(f, base, b, m)
  PROVE  Sector!RunLength(f, base, b) = m
  <1>1. Sector!RunLength(f, base, b) = CHOOSE k \in 1 .. ByteCount : HasLength(f, base, b, k)
    BY DEF Sector!RunLength, HasLength, ByteCount
  <1>2. ASSUME NEW k \in 1 .. ByteCount, HasLength(f, base, b, k) PROVE k = m
    <2>1. ByteCount \in Nat /\ k \in Nat /\ m \in Nat /\ k >= 1 /\ m >= 1
      BY BytesAre
    <2>2. CASE k < m
      <3>1. k \in 1 .. (m - 1)
        BY <2>1, <2>2
      <3> QED
        BY <3>1, <1>2 DEF HasLength
    <2>3. CASE m < k
      <3>1. m \in 1 .. (k - 1)
        BY <2>1, <2>3
      <3> QED
        BY <3>1, <1>2 DEF HasLength
    <2> QED
      BY <2>1, <2>2, <2>3
  <1>3. PICK k \in 1 .. ByteCount :
          k = Sector!RunLength(f, base, b) /\ HasLength(f, base, b, k)
    BY <1>1
  <1> QED
    BY <1>2, <1>3

(* Every run has a length. *)
LEMMA LengthExists ==
  ASSUME NEW f, NEW base \in Nat, NEW b \in Sector!Bytes
  PROVE  /\ Sector!RunLength(f, base, b) \in 1 .. ByteCount
         /\ HasLength(f, base, b, Sector!RunLength(f, base, b))
  <1> DEFINE S == { k \in Nat : k >= 1 /\ ~ Sector!IsFF(f, base, b + k) }
  <1>1. ByteCount \in Nat \ {0} /\ b \in Nat /\ b + ByteCount \notin Sector!Bytes
    BY BytesAre
  <1>2. ByteCount \in S /\ S \in SUBSET Nat
    BY <1>1 DEF Sector!IsFF
  <1>3. PICK m \in S : \A k \in S : m <= k
    <2> HIDE DEF S
    <2> QED
      BY <1>2, LeastNumber
  <1>4. m \in 1 .. ByteCount /\ ~ Sector!IsFF(f, base, b + m)
    BY <1>1, <1>2, <1>3
  <1>5. \A k \in 1 .. (m - 1) : Sector!IsFF(f, base, b + k)
    <2> TAKE k \in 1 .. (m - 1)
    <2>1. k \in Nat /\ k >= 1 /\ k < m
      BY <1>4
    <2>2. k \notin S
      BY <2>1, <1>3
    <2> QED
      BY <2>1, <2>2
  <1> HIDE DEF S
  <1>6. HasLength(f, base, b, m)
    BY <1>4, <1>5 DEF HasLength
  <1>7. Sector!RunLength(f, base, b) = m
    BY <1>4, <1>6, LengthIs
  <1> QED
    BY <1>4, <1>6, <1>7

LEMMA StartIs ==
  ASSUME NEW f, NEW base \in Nat, NEW c \in Sector!Starts(f, base)
  PROVE  /\ c \in Sector!Bytes /\ c \in Nat /\ c < ByteCount /\ Sector!Nonzero(f, base, c)
         /\ ~ (Sector!IsFF(f, base, c) /\ Sector!Nonzero(f, base, c - 1))
         /\ Sector!RunLength(f, base, c) \in 1 .. ByteCount
         /\ HasLength(f, base, c, Sector!RunLength(f, base, c))
  BY BytesAre, LengthExists DEF Sector!Starts

-----------------------------------------------------------------------------
(* Of the runs that begin below byte bound, that at b is the first of the   *)
(* longest, if there is any.                                                *)
LongestOf(f, base, bound, best, b) ==
  /\ best = 0 => \A c \in Sector!Starts(f, base) : c >= bound
  /\ best # 0 =>
       /\ b \in Sector!Starts(f, base) /\ best = Sector!RunLength(f, base, b) /\ b < bound
       /\ \A c \in Sector!Starts(f, base) : c < bound =>
            \/ best > Sector!RunLength(f, base, c)
            \/ best = Sector!RunLength(f, base, c) /\ b <= c

(* scan_bitmap has looked at the bytes below at; the run it is in, if it is *)
(* in one, began at start.                                                  *)
ScanSwept(f, base, at, start, length, best, b) ==
  /\ at \in 0 .. ByteCount /\ length \in Nat /\ best \in Nat
  /\ length = 0 => ~ (Sector!IsFF(f, base, at) /\ Sector!Nonzero(f, base, at - 1))
  /\ length # 0 =>
       /\ start \in Sector!Starts(f, base) /\ at = start + length
       /\ \A k \in 1 .. (length - 1) : Sector!IsFF(f, base, start + k)
  /\ LongestOf(f, base, IF length # 0 THEN start ELSE at, best, b)

LEMMA ScanBegins ==
  ASSUME NEW f, NEW base \in Nat, NEW start, NEW b
  PROVE  ScanSwept(f, base, 0, start, 0, 0, b)
  <1>1. ByteCount \in Nat \ {0} /\ 0 - 1 \notin Sector!Bytes
    BY BytesAre
  <1>2. ~ Sector!Nonzero(f, base, 0 - 1)
    BY <1>1 DEF Sector!Nonzero
  <1>3. LongestOf(f, base, 0, 0, b)
    BY StartIs DEF LongestOf
  <1> QED
    BY <1>1, <1>2, <1>3 DEF ScanSwept

(* Outside a run: the next byte begins one or is 0. *)
LEMMA ByteScans ==
  ASSUME NEW f, NEW base \in Nat, NEW at \in Sector!Bytes, NEW start, NEW best, NEW b,
         ScanSwept(f, base, at, start, 0, best, b)
  PROVE  /\ Sector!Nonzero(f, base, at) => ScanSwept(f, base, at + 1, at, 1, best, b)
         /\ ~ Sector!Nonzero(f, base, at) => ScanSwept(f, base, at + 1, start, 0, best, b)
  <1>1. /\ at \in Nat /\ at + 1 \in 0 .. ByteCount /\ (at + 1) - 1 = at /\ best \in Nat
        /\ ~ (Sector!IsFF(f, base, at) /\ Sector!Nonzero(f, base, at - 1))
        /\ LongestOf(f, base, at, best, b)
    BY BytesAre DEF ScanSwept
  <1>2. ASSUME Sector!Nonzero(f, base, at) PROVE ScanSwept(f, base, at + 1, at, 1, best, b)
    <2>1. at \in Sector!Starts(f, base)
      BY <1>1, <1>2 DEF Sector!Starts
    <2>2. \A k \in 1 .. (1 - 1) : Sector!IsFF(f, base, at + k)
      OBVIOUS
    <2> QED
      BY <1>1, <2>1, <2>2 DEF ScanSwept
  <1>3. ASSUME ~ Sector!Nonzero(f, base, at) PROVE ScanSwept(f, base, at + 1, start, 0, best, b)
    <2>1. \A c \in Sector!Starts(f, base) : c \in Nat /\ (c < at + 1 <=> c < at) /\ (c >= at => c >= at + 1)
      <3> SUFFICES ASSUME NEW c \in Sector!Starts(f, base) PROVE c \in Nat /\ c # at
        BY <1>1
      <3> QED
        BY <1>3, StartIs
    <2>2. LongestOf(f, base, at + 1, best, b)
      BY <1>1, <2>1 DEF LongestOf
    <2> QED
      BY <1>1, <1>3, <2>2 DEF ScanSwept
  <1> QED
    BY <1>2, <1>3

(* In a run: the next byte goes on with it or ends it. *)
LEMMA RunScans ==
  ASSUME NEW f, NEW base \in Nat, NEW at, NEW start, NEW length, NEW best, NEW b,
         ScanSwept(f, base, at, start, length, best, b), length # 0
  PROVE  /\ Sector!IsFF(f, base, at) => ScanSwept(f, base, at + 1, start, length + 1, best, b)
         /\ ~ Sector!IsFF(f, base, at) =>
              /\ length > best => ScanSwept(f, base, at, start, 0, length, start)
              /\ ~ length > best => ScanSwept(f, base, at, start, 0, best, b)
  <1>1. /\ at \in 0 .. ByteCount /\ length \in Nat /\ length >= 1 /\ best \in Nat
        /\ start \in Sector!Starts(f, base) /\ at = start + length
        /\ \A k \in 1 .. (length - 1) : Sector!IsFF(f, base, start + k)
        /\ LongestOf(f, base, start, best, b)
    BY DEF ScanSwept
  <1>2. start \in Sector!Bytes /\ start \in Nat /\ Sector!Nonzero(f, base, start) /\ ByteCount \in Nat
    BY <1>1, StartIs, BytesAre
  <1>3. ASSUME Sector!IsFF(f, base, at)
        PROVE  ScanSwept(f, base, at + 1, start, length + 1, best, b)
    <2>1. at \in Sector!Bytes /\ at + 1 \in 0 .. ByteCount
      BY <1>3, BytesAre DEF Sector!IsFF
    <2>2. \A k \in 1 .. ((length + 1) - 1) : Sector!IsFF(f, base, start + k)
      <3> TAKE k \in 1 .. ((length + 1) - 1)
      <3>1. k = length \/ k \in 1 .. (length - 1)
        BY <1>1
      <3> QED
        BY <1>1, <1>3, <3>1
    <2>3. length + 1 \in Nat /\ length + 1 # 0 /\ at + 1 = start + (length + 1)
      BY <1>1, <1>2
    <2> QED
      BY <1>1, <2>1, <2>2, <2>3 DEF ScanSwept
  <1>4. ASSUME ~ Sector!IsFF(f, base, at)
        PROVE  /\ length > best => ScanSwept(f, base, at, start, 0, length, start)
               /\ ~ length > best => ScanSwept(f, base, at, start, 0, best, b)
    <2>1. Sector!RunLength(f, base, start) = length
      <3>1. HasLength(f, base, start, length)
        BY <1>1, <1>4 DEF HasLength
      <3>2. length \in 1 .. ByteCount
        BY <1>1, <1>2
      <3> QED
        BY <1>2, <3>1, <3>2, LengthIs
    <2>2. ASSUME NEW c \in Sector!Starts(f, base), c < at PROVE c <= start
      <3>1. c \in Nat /\ ~ (Sector!IsFF(f, base, c) /\ Sector!Nonzero(f, base, c - 1))
        BY StartIs
      <3>2. ASSUME start < c PROVE FALSE
        <4>1. PICK k \in Nat : k = c - start /\ k >= 1 /\ k <= length - 1
          BY <1>1, <1>2, <2>2, <3>1, <3>2
        <4>2. Sector!IsFF(f, base, c)
          BY <1>1, <1>2, <3>1, <4>1
        <4>3. Sector!Nonzero(f, base, c - 1)
          <5>1. CASE k = 1
            BY <5>1, <1>2, <3>1, <4>1
          <5>2. CASE k # 1
            <6>1. k - 1 \in 1 .. (length - 1) /\ start + (k - 1) = c - 1
              BY <1>1, <1>2, <3>1, <4>1, <5>2
            <6>2. Sector!IsFF(f, base, c - 1)
              BY <1>1, <6>1
            <6> QED
              BY <6>2, FullIsNonzero
          <5> QED
            BY <5>1, <5>2
        <4> QED
          BY <3>1, <4>2, <4>3
      <3> QED
        BY <1>2, <3>1, <3>2
    <2>3. \A c \in Sector!Starts(f, base) : c \in Nat /\ Sector!RunLength(f, base, c) \in Nat
      BY <1>2, StartIs
    <2>4. start < at /\ at \in Nat
      BY <1>1, <1>2
    <2>5. ASSUME length > best PROVE LongestOf(f, base, at, length, start)
      <3>1. ASSUME NEW c \in Sector!Starts(f, base), c < at
            PROVE  \/ length > Sector!RunLength(f, base, c)
                   \/ length = Sector!RunLength(f, base, c) /\ start <= c
        <4>1. CASE c = start
          BY <4>1, <2>1, <1>2
        <4>2. CASE c < start
          <5>1. best # 0
            BY <4>2, <1>1, <1>2, <2>3 DEF LongestOf
          <5>2. best >= Sector!RunLength(f, base, c)
            BY <4>2, <5>1, <1>1, <2>3 DEF LongestOf
          <5> QED
            BY <5>2, <1>1, <2>3, <2>5
        <4> QED
          BY <4>1, <4>2, <2>2, <2>3, <3>1, <1>2
      <3> QED
        BY <1>1, <2>1, <2>4, <3>1 DEF LongestOf
    <2>6. ASSUME ~ length > best PROVE LongestOf(f, base, at, best, b)
      <3>1. best # 0 /\ best >= length
        BY <1>1, <2>6
      <3>2. b \in Sector!Starts(f, base) /\ best = Sector!RunLength(f, base, b) /\ b < start
            /\ \A c \in Sector!Starts(f, base) : c < start =>
                 \/ best > Sector!RunLength(f, base, c)
                 \/ best = Sector!RunLength(f, base, c) /\ b <= c
        BY <1>1, <3>1 DEF LongestOf
      <3>3. ASSUME NEW c \in Sector!Starts(f, base), c < at
            PROVE  \/ best > Sector!RunLength(f, base, c)
                   \/ best = Sector!RunLength(f, base, c) /\ b <= c
        <4>1. CASE c = start
          BY <4>1, <2>1, <2>3, <3>1, <3>2, <1>1, <1>2
        <4>2. CASE c < start
          BY <4>2, <3>2
        <4> QED
          BY <4>1, <4>2, <2>2, <2>3, <3>3, <1>2
      <3>4. b < at
        BY <2>3, <2>4, <3>2, <1>2
      <3> QED
        BY <3>1, <3>2, <3>3, <3>4 DEF LongestOf
    <2> QED
      BY <1>1, <1>4, <2>5, <2>6 DEF ScanSwept
  <1> QED
    BY <1>3, <1>4

(* All bytes were looked at. *)
LEMMA ScanEndsAt ==
  ASSUME NEW f, NEW base \in Nat, NEW at, NEW start, NEW best, NEW b,
         ScanSwept(f, base, at, start, 0, best, b), at \notin Sector!Bytes
  PROVE  /\ best = 0 => Sector!Starts(f, base) = {}
         /\ best # 0 => Sector!IsBest(f, base, b) /\ best = Sector!RunLength(f, base, b)
  <1>1. at \in 0 .. ByteCount /\ LongestOf(f, base, at, best, b) /\ best \in Nat
    BY DEF ScanSwept
  <1>2. at = ByteCount
    BY <1>1, BytesAre
  <1>3. \A c \in Sector!Starts(f, base) : c \in Nat /\ c < at /\ ByteCount \in Nat
    BY <1>2, StartIs, BytesAre
  <1>4. best = 0 => Sector!Starts(f, base) = {}
    BY <1>1, <1>2, <1>3 DEF LongestOf
  <1>5. ASSUME best # 0 PROVE Sector!IsBest(f, base, b) /\ best = Sector!RunLength(f, base, b)
    BY <1>1, <1>3, <1>5 DEF LongestOf, Sector!IsBest
  <1> QED
    BY <1>4, <1>5

(* The sector behind those of byte b. *)
Top(base, b) == base + (b + 1) * MapByte

LEMMA TopIs ==
  ASSUME NEW base \in Nat, NEW b \in Sector!Bytes
  PROVE  Top(base, b) = base + b * MapByte + MapByte /\ Top(base, b) \in Nat
  BY ByteIs DEF Top

LEMMA IsEndAt ==
  ASSUME NEW f, NEW base \in Nat, NEW b \in Sector!Bytes, NEW end
  PROVE  /\ Sector!IsFF(f, base, b + 1) => (Sector!IsEnd(f, base, b, end) <=> end = Top(base, b))
         /\ ~ Sector!IsFF(f, base, b + 1) =>
              (Sector!IsEnd(f, base, b, end) <=>
                 /\ end - 1 \in Sector!Bit(base, b) \cap f
                 /\ \A x \in end .. (Top(base, b) - 1) : x \notin f)
  <1>1. ASSUME Sector!IsFF(f, base, b + 1)
        PROVE  Sector!IsEnd(f, base, b, end) <=> end = Top(base, b)
    BY <1>1 DEF Sector!IsEnd, Top
  <1>5. base + (b + 1) * MapByte - 1 = Top(base, b) - 1
    <2>1. (b + 1) * MapByte \in Nat
      BY ByteIs
    <2> QED
      BY <2>1 DEF Top
  <1>2. ASSUME ~ Sector!IsFF(f, base, b + 1), Sector!IsEnd(f, base, b, end)
        PROVE  \A x \in end .. (Top(base, b) - 1) : x \notin f
    BY <1>2, <1>5, Zenon DEF Sector!IsEnd
  <1>3. ASSUME ~ Sector!IsFF(f, base, b + 1), Sector!IsEnd(f, base, b, end)
        PROVE  end - 1 \in Sector!Bit(base, b) \cap f
    BY <1>3 DEF Sector!IsEnd
  <1>4. ASSUME ~ Sector!IsFF(f, base, b + 1),
               end - 1 \in Sector!Bit(base, b) \cap f,
               \A x \in end .. (Top(base, b) - 1) : x \notin f
        PROVE  Sector!IsEnd(f, base, b, end)
    BY <1>4, <1>5, Zenon DEF Sector!IsEnd
  <1> QED
    BY <1>1, <1>2, <1>3, <1>4

(* Where the sectors to allocate in the run from byte b on may end. *)
Ends(f, base, b, end) ==
  end \in Sector!Bit(base, b + 1) \cup Sector!Bit(base, b) /\ Sector!IsEnd(f, base, b, end)

(* The end is looked for in the byte: no sector from p on is free. *)
Skipping(f, base, b, p) ==
  /\ ~ Sector!IsFF(f, base, b + 1) /\ p \in Nat
  /\ p <= Top(base, b)
  /\ \A x \in p .. (Top(base, b) - 1) : x \notin f

(* The beginning is looked for: all sectors from p to the end are free. *)
Taking(f, base, b, p) ==
  \E end \in Nat :
    /\ Ends(f, base, b, end) /\ p \in Nat /\ base + b * MapByte <= p /\ p <= end
    /\ (p .. (end - 1)) \subseteq f

(* From the end of the best run's first byte. *)
LEMMA PositionBegins ==
  ASSUME NEW f, NEW base \in Nat, NEW b \in Sector!Starts(f, base),
         NEW p, p = Top(base, b)
  PROVE  /\ Sector!RunLength(f, base, b) = 1 => Skipping(f, base, b, p)
         /\ Sector!RunLength(f, base, b) # 1 => Taking(f, base, b, p)
  <1>1. b \in Sector!Bytes /\ b \in Nat
        /\ Sector!RunLength(f, base, b) \in 1 .. ByteCount
        /\ HasLength(f, base, b, Sector!RunLength(f, base, b))
    BY StartIs
  <1>2. /\ b * MapByte \in Nat /\ (b + 1) * MapByte = b * MapByte + MapByte /\ MapByte \in Nat \ {0}
    BY <1>1, ByteIs
  <1>3. p \in Nat /\ base + b * MapByte <= p /\ p = base + b * MapByte + MapByte
    BY <1>1, <1>2, TopIs
  <1>4. ASSUME Sector!RunLength(f, base, b) = 1 PROVE Skipping(f, base, b, p)
    <2>1. HasLength(f, base, b, 1)
      BY <1>1, <1>4
    <2>2. ~ Sector!IsFF(f, base, b + 1)
      BY <2>1 DEF HasLength
    <2>3. \A x \in p .. (Top(base, b) - 1) : x \notin f
      BY <1>3
    <2> QED
      BY <1>3, <2>2, <2>3 DEF Skipping
  <1>5. ASSUME Sector!RunLength(f, base, b) # 1 PROVE Taking(f, base, b, p)
    <2>1. 1 \in 1 .. (Sector!RunLength(f, base, b) - 1)
      BY <1>1, <1>5, BytesAre
    <2>2. Sector!IsFF(f, base, b + 1)
      BY <1>1, <2>1 DEF HasLength
    <2>3. p \in Sector!Bit(base, b + 1)
      BY <1>2, <1>3 DEF Sector!Bit
    <2>4. Ends(f, base, b, p)
      BY <1>1, <2>2, <2>3, IsEndAt DEF Ends
    <2>5. (p .. (p - 1)) \subseteq f
      BY <1>3
    <2> QED
      BY <1>3, <2>4, <2>5 DEF Taking
  <1> QED
    BY <1>4, <1>5

LEMMA SkipGoesOn ==
  ASSUME NEW f, NEW base \in Nat, NEW b \in Sector!Starts(f, base), NEW p,
         Skipping(f, base, b, p)
  PROVE  /\ p - 1 \in f => Taking(f, base, b, p)
         /\ p - 1 \notin f => Skipping(f, base, b, p - 1)
  <1>1. b \in Sector!Bytes /\ b \in Nat /\ Sector!Nonzero(f, base, b)
    BY StartIs
  <1>2. /\ b * MapByte \in Nat /\ (b + 1) * MapByte = b * MapByte + MapByte /\ MapByte \in Nat \ {0}
    BY <1>1, ByteIs
  <1> DEFINE a == base + b * MapByte
  <1>3. a \in Nat /\ Top(base, b) = a + MapByte
    BY <1>1, <1>2, TopIs
  <1>5. Sector!Bit(base, b) = a .. (a + MapByte - 1)
    BY DEF Sector!Bit
  <1>9. Sector!Bit(base, b + 1) = (a + MapByte) .. (a + MapByte + MapByte - 1)
    BY <1>2 DEF Sector!Bit
  <1> HIDE DEF a
  <1>4. ~ Sector!IsFF(f, base, b + 1) /\ p \in Nat /\ p <= a + MapByte
    BY <1>3 DEF Skipping
  <1>0. ASSUME NEW x \in Nat, p <= x, x < a + MapByte PROVE x \notin f
    <2>1. x \in p .. (Top(base, b) - 1)
      BY <1>0, <1>2, <1>3, <1>4
    <2> QED
      BY <2>1 DEF Skipping
  <1>6. a < p
    <2>1. PICK x \in Sector!Bit(base, b) : x \in f
      BY <1>1 DEF Sector!Nonzero
    <2>2. x \in a .. (a + MapByte - 1)
      BY <2>1, <1>5
    <2>3. ~ p <= x
      BY <1>0, <1>2, <1>3, <2>1, <2>2
    <2> QED
      BY <1>2, <1>3, <1>4, <2>2, <2>3
  <1>7. ASSUME p - 1 \in f PROVE Taking(f, base, b, p)
    <2>1. p - 1 \in Sector!Bit(base, b)
      BY <1>2, <1>3, <1>4, <1>5, <1>6
    <2>6. \A x \in p .. (Top(base, b) - 1) : x \notin f
      BY DEF Skipping
    <2>2. Sector!IsEnd(f, base, b, p)
      BY <1>1, <1>4, <1>7, <2>1, <2>6, IsEndAt
    <2>3. p \in Sector!Bit(base, b + 1) \cup Sector!Bit(base, b)
      <3>1. CASE p = a + MapByte
        BY <3>1, <1>2, <1>3, <1>9
      <3>2. CASE p < a + MapByte
        BY <3>2, <1>2, <1>3, <1>4, <1>5, <1>6
      <3> QED
        BY <3>1, <3>2, <1>2, <1>3, <1>4
    <2>4. (p .. (p - 1)) \subseteq f
      BY <1>4
    <2>5. base + b * MapByte <= p
      BY <1>2, <1>3, <1>4, <1>6 DEF a
    <2> QED
      BY <1>4, <2>2, <2>3, <2>4, <2>5 DEF Taking, Ends
  <1>8. ASSUME p - 1 \notin f PROVE Skipping(f, base, b, p - 1)
    <2>1. p - 1 \in Nat /\ p - 1 <= a + MapByte
      BY <1>2, <1>3, <1>4, <1>6
    <2>2. \A x \in (p - 1) .. (Top(base, b) - 1) : x \notin f
      <3> TAKE x \in (p - 1) .. (Top(base, b) - 1)
      <3>1. x = p - 1 \/ (x \in Nat /\ p <= x /\ x < a + MapByte)
        BY <1>2, <1>3, <1>4, <2>1
      <3> QED
        BY <1>0, <1>8, <3>1
    <2>3. p - 1 \in Nat /\ p - 1 <= Top(base, b)
      BY <1>3, <2>1
    <2> QED
      BY <1>4, <2>2, <2>3 DEF Skipping
  <1> QED
    BY <1>7, <1>8

LEMMA TakeGoesOn ==
  ASSUME NEW f, NEW base \in Nat, NEW b \in Sector!Starts(f, base), NEW p,
         Taking(f, base, b, p)
  PROVE  /\ p - 1 \in f /\ p - 1 >= base + b * MapByte => Taking(f, base, b, p - 1)
         /\ ~ (p - 1 \in f /\ p - 1 >= base + b * MapByte) => Sector!IsRunLsn(f, base, b, p)
  <1>1. b \in Sector!Bytes
    BY StartIs
  <1>2. b * MapByte \in Nat
    BY <1>1, ByteIs
  <1>3. PICK end \in Nat :
          /\ Ends(f, base, b, end) /\ p \in Nat /\ base + b * MapByte <= p /\ p <= end
          /\ (p .. (end - 1)) \subseteq f
    BY DEF Taking
  <1>4. ASSUME p - 1 \in f, p - 1 >= base + b * MapByte PROVE Taking(f, base, b, p - 1)
    <2>1. p - 1 \in Nat /\ base + b * MapByte <= p - 1 /\ p - 1 <= end
      BY <1>2, <1>3, <1>4
    <2>2. ((p - 1) .. (end - 1)) \subseteq f
      <3> SUFFICES ASSUME NEW x \in (p - 1) .. (end - 1) PROVE x \in f
        OBVIOUS
      <3>1. x = p - 1 \/ x \in p .. (end - 1)
        BY <1>3, <2>1
      <3> QED
        BY <1>3, <1>4, <3>1
    <2> QED
      BY <1>3, <2>1, <2>2 DEF Taking
  <1>5. ASSUME ~ (p - 1 \in f /\ p - 1 >= base + b * MapByte)
        PROVE  Sector!IsRunLsn(f, base, b, p)
    <2>1. p = base + b * MapByte \/ p - 1 \notin f
      BY <1>2, <1>3, <1>5
    <2>2. p \in (base + b * MapByte) .. end
      BY <1>2, <1>3
    <2> QED
      BY <1>3, <2>1, <2>2 DEF Sector!IsRunLsn, Ends
  <1> QED
    BY <1>4, <1>5

-----------------------------------------------------------------------------
(* There is one such end, *)
LEMMA EndIsOne ==
  ASSUME NEW f, NEW base \in Nat, NEW b \in Sector!Bytes, NEW x, NEW y,
         Ends(f, base, b, x), Ends(f, base, b, y)
  PROVE  x = y
  <1>1. /\ b \in Nat /\ b * MapByte \in Nat /\ (b + 1) * MapByte = b * MapByte + MapByte
        /\ MapByte \in Nat \ {0}
    BY ByteIs
  <1> DEFINE a == base + b * MapByte
  <1>2. a \in Nat /\ Top(base, b) = a + MapByte
    BY <1>1, TopIs
  <1>3. Sector!IsEnd(f, base, b, x) /\ Sector!IsEnd(f, base, b, y)
    BY DEF Ends
  <1>4. Sector!Bit(base, b) = a .. (a + MapByte - 1)
    BY DEF Sector!Bit
  <1> HIDE DEF a
  <1>5. CASE Sector!IsFF(f, base, b + 1)
    <2>1. x = Top(base, b)
      BY <1>3, <1>5, IsEndAt
    <2>2. y = Top(base, b)
      BY <1>3, <1>5, IsEndAt
    <2> QED
      BY <2>1, <2>2
  <1>6. CASE ~ Sector!IsFF(f, base, b + 1)
    <2>1. /\ x - 1 \in Sector!Bit(base, b) \cap f
          /\ \A z \in x .. (Top(base, b) - 1) : z \notin f
          /\ y - 1 \in Sector!Bit(base, b) \cap f
          /\ \A z \in y .. (Top(base, b) - 1) : z \notin f
      BY <1>3, <1>6, IsEndAt
    <2>2. x \in Int /\ y \in Int
      <3>1. x \in Sector!Bit(base, b + 1) \cup Sector!Bit(base, b)
            /\ y \in Sector!Bit(base, b + 1) \cup Sector!Bit(base, b)
        BY DEF Ends
      <3> QED
        BY <3>1, <1>1 DEF Sector!Bit
    <2>3. x - 1 \in a .. (a + MapByte - 1) /\ y - 1 \in a .. (a + MapByte - 1)
      BY <2>1, <1>4
    <2>4. CASE x < y
      <3>1. y - 1 \in x .. (Top(base, b) - 1)
        BY <1>1, <1>2, <2>2, <2>3, <2>4
      <3> QED
        BY <3>1, <2>1
    <2>5. CASE y < x
      <3>1. x - 1 \in y .. (Top(base, b) - 1)
        BY <1>1, <1>2, <2>2, <2>3, <2>5
      <3> QED
        BY <3>1, <2>1
    <2> QED
      BY <2>2, <2>4, <2>5
  <1> QED
    BY <1>5, <1>6

LEMMA EndIs ==
  ASSUME NEW f, NEW base \in Nat, NEW b \in Sector!Bytes, NEW x, Ends(f, base, b, x)
  PROVE  /\ x \in Nat /\ x <= base + b * MapByte + MapByte /\ base + b * MapByte <= x
         /\ x - 1 \in f \/ (x \in f /\ x = base + b * MapByte + MapByte /\ b + 1 \in Sector!Bytes)
         /\ x \in f \/ x # base + b * MapByte
  <1>1. /\ b \in Nat /\ b * MapByte \in Nat /\ (b + 1) * MapByte = b * MapByte + MapByte
        /\ MapByte \in Nat \ {0}
    BY ByteIs
  <1> DEFINE a == base + b * MapByte
  <1>2. /\ a \in Nat /\ Top(base, b) = a + MapByte /\ a = base + b * MapByte
        /\ base + (b + 1) * MapByte = a + MapByte
    BY <1>1, TopIs
  <1>3. Sector!IsEnd(f, base, b, x)
    BY DEF Ends
  <1>4. Sector!Bit(base, b) = a .. (a + MapByte - 1)
    BY DEF Sector!Bit
  <1>5. Sector!Bit(base, b + 1) = (a + MapByte) .. (a + MapByte + MapByte - 1)
    BY <1>2 DEF Sector!Bit
  <1> HIDE DEF a
  <1>6. CASE Sector!IsFF(f, base, b + 1)
    <2>1. x = a + MapByte
      <3>1. x = Top(base, b)
        BY <1>3, <1>6, IsEndAt
      <3> QED
        BY <1>2, <3>1
    <2>2. x \in Sector!Bit(base, b + 1)
      BY <1>1, <1>2, <1>5, <2>1
    <2>3. x \in f /\ b + 1 \in Sector!Bytes
      BY <1>6, <2>2 DEF Sector!IsFF
    <2> QED
      BY <1>1, <1>2, <2>1, <2>3
  <1>7. CASE ~ Sector!IsFF(f, base, b + 1)
    <2>1. x - 1 \in Sector!Bit(base, b) \cap f
      BY <1>3, <1>7, IsEndAt
    <2>2. x \in Int
      <3>1. x \in Sector!Bit(base, b + 1) \cup Sector!Bit(base, b)
        BY DEF Ends
      <3> QED
        BY <3>1, <1>1, <1>2, <1>4, <1>5
    <2>3. x - 1 \in a .. (a + MapByte - 1)
      BY <2>1, <1>4
    <2> QED
      BY <1>1, <1>2, <2>1, <2>2, <2>3
  <1> QED
    BY <1>6, <1>7

(* and one beginning, which is a free sector that has its bit in the        *)
(* sector of the bitmap.                                                    *)
LEMMA RunLsnIs ==
  ASSUME NEW f, NEW base \in Nat, NEW b \in Sector!Bytes, NEW x, Sector!IsRunLsn(f, base, b, x)
  PROVE  /\ x \in f /\ x \in base .. (base + MapSector - 1)
         /\ \A y : Sector!IsRunLsn(f, base, b, y) => y = x
  <1> DEFINE a == base + b * MapByte
             P(y, end) ==
               /\ y \in a .. end /\ (y .. (end - 1)) \subseteq f
               /\ y = a \/ y - 1 \notin f
  <1>1. /\ b * MapByte \in Nat /\ (b + 1) * MapByte = b * MapByte + MapByte
        /\ (b + 1) * MapByte <= MapSector /\ MapByte \in Nat \ {0} /\ MapSector \in Nat
    BY ByteIs, SectorsAre
  <1>2. a \in Nat /\ base <= a /\ a + MapByte <= base + MapSector
    BY <1>1
  <1>3. ASSUME NEW y PROVE Sector!IsRunLsn(f, base, b, y) <=> \E end : Ends(f, base, b, end) /\ P(y, end)
    BY DEF Sector!IsRunLsn, Ends
  <1>4. PICK end : Ends(f, base, b, end) /\ P(x, end)
    BY <1>3
  <1>5. /\ end \in Nat /\ end <= a + MapByte
        /\ end - 1 \in f \/ (end \in f /\ end = a + MapByte /\ b + 1 \in Sector!Bytes)
        /\ end \in f \/ end # a
    BY <1>4, EndIs
  <1>6. \A y : Sector!IsRunLsn(f, base, b, y) => P(y, end)
    BY <1>3, <1>4, EndIsOne
  <1> HIDE DEF a
  <1>7. x \in Nat /\ a <= x /\ x <= end
    BY <1>2, <1>4, <1>5
  <1>8. x \in f
    <2>1. CASE x < end
      BY <2>1, <1>4, <1>5, <1>7
    <2>2. CASE x = end
      BY <2>2, <1>4, <1>5
    <2> QED
      BY <2>1, <2>2, <1>5, <1>7
  <1>9. x \in base .. (base + MapSector - 1)
    <2>1. CASE x < a + MapByte
      BY <2>1, <1>1, <1>2, <1>7
    <2>2. CASE x = a + MapByte
      <3>1. end = x /\ x # a
        BY <2>2, <1>1, <1>2, <1>5, <1>7
      <3>2. b + 1 \in Sector!Bytes
        BY <3>1, <1>4, <1>5
      <3>3. b \in Nat /\ ((b + 1) + 1) * MapByte <= MapSector
            /\ ((b + 1) + 1) * MapByte = (b + 1) * MapByte + MapByte
        BY <3>2, ByteIs
      <3>4. PICK m : m = (b + 1) * MapByte
        OBVIOUS
      <3>5. PICK j : j = b * MapByte
        OBVIOUS
      <3>6. a = base + j /\ j \in Nat /\ m = j + MapByte /\ m + MapByte <= MapSector
        BY <3>3, <3>4, <3>5, <1>1 DEF a
      <3>7. a + MapByte + MapByte <= base + MapSector
        BY ONLY <3>6, <1>1
      <3> QED
        BY <2>2, <3>7, <1>1, <1>2
    <2> QED
      BY <2>1, <2>2, <1>1, <1>2, <1>5, <1>7
  <1>10. ASSUME NEW y, Sector!IsRunLsn(f, base, b, y) PROVE y = x
    <2>1. P(y, end)
      BY <1>6, <1>10
    <2>2. y \in Nat /\ a <= y /\ y <= end
      BY <1>2, <1>5, <2>1
    <2>3. CASE y < x
      <3>1. x - 1 \in y .. (end - 1) /\ x # a
        BY <1>2, <1>5, <1>7, <2>2, <2>3
      <3> QED
        BY <3>1, <1>4, <2>1
    <2>4. CASE x < y
      <3>1. y - 1 \in x .. (end - 1) /\ y # a
        BY <1>2, <1>5, <1>7, <2>2, <2>4
      <3> QED
        BY <3>1, <1>4, <2>1
    <2>5. x \in Nat /\ y \in Nat
      BY <1>7, <2>2
    <2> QED
      BY ONLY <2>3, <2>4, <2>5
  <1> QED
    BY <1>8, <1>9, <1>10

(* What a scan of one sector of the bitmap returns. *)
LEMMA ScanFinds ==
  ASSUME NEW f, NEW base \in Nat, NEW b, Sector!IsBest(f, base, b), NEW x,
         Sector!IsRunLsn(f, base, b, x)
  PROVE  /\ Sector!Scan(f, base) = [run |-> Sector!RunLength(f, base, b), lsn |-> x]
         /\ x \in f
  <1> DEFINE R == [run : 1 .. ByteCount, lsn : base .. (base + MapSector - 1)]
             P(r) == \E c \in Sector!Starts(f, base) :
                       /\ Sector!IsBest(f, base, c) /\ r.run = Sector!RunLength(f, base, c)
                       /\ Sector!IsRunLsn(f, base, c, r.lsn)
             q == [run |-> Sector!RunLength(f, base, b), lsn |-> x]
  <1>1. b \in Sector!Starts(f, base)
    BY DEF Sector!IsBest
  <1>2. b \in Sector!Bytes /\ Sector!RunLength(f, base, b) \in 1 .. ByteCount
    BY <1>1, StartIs
  <1>3. x \in f /\ x \in base .. (base + MapSector - 1)
    BY <1>2, RunLsnIs
  <1>4. q \in R /\ P(q)
    BY <1>1, <1>2, <1>3
  <1>5. ASSUME NEW r \in R, P(r) PROVE r = q
    <2>1. PICK c \in Sector!Starts(f, base) :
            /\ Sector!IsBest(f, base, c) /\ r.run = Sector!RunLength(f, base, c)
            /\ Sector!IsRunLsn(f, base, c, r.lsn)
      BY <1>5
    <2>2. c = b
      <3>1. /\ c \in Nat /\ Sector!RunLength(f, base, c) \in Nat
            /\ b \in Nat /\ Sector!RunLength(f, base, b) \in Nat
        BY <1>1, StartIs, BytesAre
      <3>2. \/ Sector!RunLength(f, base, b) > Sector!RunLength(f, base, c)
            \/ Sector!RunLength(f, base, b) = Sector!RunLength(f, base, c) /\ b <= c
        BY DEF Sector!IsBest
      <3>3. \/ Sector!RunLength(f, base, c) > Sector!RunLength(f, base, b)
            \/ Sector!RunLength(f, base, c) = Sector!RunLength(f, base, b) /\ c <= b
        BY <1>1, <2>1 DEF Sector!IsBest
      <3> QED
        BY <3>1, <3>2, <3>3
    <2>3. r.lsn = x
      BY <1>2, <2>1, <2>2, RunLsnIs
    <2> HIDE DEF P
    <2> QED
      BY <2>1, <2>2, <2>3
  <1>6. Sector!Starts(f, base) # {}
    BY <1>1
  <1>7. Sector!Scan(f, base) = CHOOSE r \in R : P(r)
    BY <1>6 DEF Sector!Scan, ByteCount
  <1> HIDE DEF P, R, q
  <1>8. Sector!Scan(f, base) = q
    BY <1>4, <1>5, <1>7
  <1> QED
    BY <1>3, <1>8 DEF q

LEMMA ScanFindsNone ==
  ASSUME NEW f, NEW base, Sector!Starts(f, base) = {}
  PROVE  Sector!Scan(f, base) = [run |-> 0, lsn |-> base + MapSector]
  BY DEF Sector!Scan

(* Neither sector of the bitmap has a run: the disk is full. *)
LEMMA NoneStarts ==
  ASSUME NEW f \in SUBSET Sector!Lsn, Sector!Starts(f, 0) = {}, Sector!Starts(f, MapSector) = {}
  PROVE  f = {}
  <1> SUFFICES ASSUME NEW x \in f PROVE FALSE
    OBVIOUS
  <1>1. MapSector \in Nat \ {0} /\ Total \in Nat /\ Total <= 2 * MapSector
    BY SectorsAre
  <1>2. x \in Sector!Lsn
    OBVIOUS
  <1>3. x \in Nat /\ x < 2 * MapSector
    BY ONLY <1>1, <1>2 DEF Sector!Lsn
  <1>4. CASE x < MapSector
    <2>1. x \in 0 .. (0 + MapSector - 1)
      BY <1>1, <1>3, <1>4
    <2> QED
      BY <2>1, StartsIs
  <1>5. CASE x >= MapSector
    <2>1. x \in MapSector .. (MapSector + MapSector - 1)
      BY <1>1, <1>3, <1>5
    <2> QED
      BY <1>1, <2>1, StartsIs
  <1> QED
    BY <1>1, <1>3, <1>4, <1>5

(* What a scan of base has returned, r: nothing, or a free sector. *)
ScanReturns(f, base, r) ==
  /\ Sector!Scan(f, base) = r /\ r.run \in Nat
  /\ r.run = 0 => Sector!Starts(f, base) = {}
  /\ r.run # 0 => r.lsn \in f

(* The second sector of the bitmap has a run of two bytes or more. *)
LEMMA SecondFinds ==
  ASSUME NEW f, NEW hint, hint \notin f, Sector!LookByTrack(f, hint) = {},
         NEW second, ScanReturns(f, MapSector, second), second.run >= 2
  PROVE  second.lsn \in f /\ Sector!Place(f, hint) = {second.lsn}
  <1>1. /\ Sector!Scan(f, MapSector) = second /\ second.run \in Nat
        /\ second.run # 0 => second.lsn \in f
    BY DEF ScanReturns
  <1>2. second.lsn \in f /\ ~ second.run < 2
    BY <1>1
  <1>3. Sector!LookByRun(f) = {second.lsn} \cap f
    BY <1>1, <1>2 DEF Sector!LookByRun
  <1> QED
    BY <1>2, <1>3 DEF Sector!Place

(* It has not: both scans together. *)
LEMMA ScansFind ==
  ASSUME NEW f \in SUBSET Sector!Lsn, NEW hint, hint \notin f,
         Sector!LookByTrack(f, hint) = {},
         NEW first, NEW second, ScanReturns(f, 0, first), ScanReturns(f, MapSector, second),
         second.run < 2
  PROVE  /\ ~ (first.run < 2 /\ first.run <= second.run) =>
              Sector!Place(f, hint) = {first.lsn} /\ first.lsn \in f
         /\ first.run < 2 /\ first.run <= second.run =>
              /\ second.lsn \in f => Sector!Place(f, hint) = {second.lsn}
              /\ second.lsn \notin f => Sector!Place(f, hint) = {} /\ f = {}
  <1>1. Sector!Place(f, hint) = Sector!LookByRun(f)
    BY DEF Sector!Place
  <1>2. Sector!LookByRun(f) =
          {IF second.run < 2 /\ ~ (first.run < 2 /\ first.run <= second.run)
             THEN first.lsn ELSE second.lsn} \cap f
    BY DEF ScanReturns, Sector!LookByRun
  <1>3. /\ first.run \in Nat /\ (first.run # 0 => first.lsn \in f)
        /\ second.run \in Nat /\ (second.run # 0 => second.lsn \in f)
        /\ first.run = 0 /\ second.run = 0 => f = {}
    BY NoneStarts DEF ScanReturns
  <1>4. CASE ~ (first.run < 2 /\ first.run <= second.run)
    <2>1. Sector!LookByRun(f) = {first.lsn} \cap f
      BY <1>2, <1>4
    <2>2. first.lsn \in f
      BY <1>3, <1>4
    <2> QED
      BY <1>1, <1>3, <1>4, <2>1, <2>2
  <1>5. CASE first.run < 2 /\ first.run <= second.run
    <2>1. Sector!LookByRun(f) = {second.lsn} \cap f
      BY <1>2, <1>5
    <2>2. second.lsn \notin f => f = {}
      BY <1>3, <1>5
    <2> QED
      BY <1>1, <1>3, <1>5, <2>1, <2>2
  <1> QED
    BY <1>3, <1>4, <1>5

SearchFields ==
  [loop : {"dragon"}, free : SUBSET Sector!Lsn, hint : Hints,
   pc : {"hint", "down", "up", "scan", "skip", "bits", "scanned", "done"},
   position : Int, found : BOOLEAN, candidate : Int, base : {0, MapSector}, offset : Nat,
   start : Int, length : Nat, best : Nat, best_offset : Int,
   second : [run : Nat, lsn : Int], result : Int]

(* scan_bitmap has looked at nothing yet. *)
Unscanned(r) == r.offset = 0 /\ r.length = 0 /\ r.best = 0

(* The file goes on in the second sector of the bitmap. *)
Beyond(hint) == hint # Sector!NoHint /\ hint >= MapSector

ByTrack(r) == Unscanned(r) /\ r.hint \notin r.free

ByRun(r) ==
  /\ r.hint \notin r.free /\ Sector!LookByTrack(r.free, r.hint) = {}
  /\ r.base = 0 => ScanReturns(r.free, MapSector, r.second) /\ r.second.run < 2

(* A run was chosen. *)
Chosen(r) ==
  /\ r.length = 0 /\ Sector!IsBest(r.free, r.base, r.best_offset)
  /\ r.best = Sector!RunLength(r.free, r.base, r.best_offset)

(* What has been looked at, by where the search is. *)
Searched(r) ==
  /\ r.pc = "hint" => Unscanned(r) /\ r.position = Dir /\ r.found = FALSE
  /\ r.pc = "down" =>
       /\ ByTrack(r) /\ ~ Beyond(r.hint)
       /\ DownSwept(r.free, r.position, r.found) /\ (r.found => r.candidate = r.position)
  /\ r.pc = "up" => ByTrack(r) /\ UpSwept(r.free, r.hint, r.position)
  /\ r.pc = "scan" =>
       /\ ByRun(r)
       /\ ScanSwept(r.free, r.base, r.offset, r.start, r.length, r.best, r.best_offset)
  /\ r.pc = "skip" => ByRun(r) /\ Chosen(r) /\ Skipping(r.free, r.base, r.best_offset, r.position)
  /\ r.pc = "bits" => ByRun(r) /\ Chosen(r) /\ Taking(r.free, r.base, r.best_offset, r.position)
  /\ r.pc = "scanned" =>
       /\ ByRun(r) /\ r.length = 0
       /\ ScanReturns(r.free, r.base, [run |-> r.best, lsn |-> r.position])

(* The search as far as it has got: its result is not there yet, or right.  *)
SearchInv ==
  l.loop = "dragon" =>
    l \in SearchFields /\ (l.pc # "done" => Searched(l)) /\ Sector!FindsPlace

(* The search goes on, or it takes what it looked for. *)
LEMMA SearchGoesOn ==
  ASSUME l' \in SearchFields, l'.pc # "done", Searched(l')
  PROVE  SearchInv'
  BY DEF SearchInv, Sector!FindsPlace

LEMMA SectorTaken ==
  ASSUME l \in SearchFields, NEW x, Sector!Take(x),
         \/ x \in l.free /\ Sector!Place(l.free, l.hint) = {x}
         \/ x = Sector!Full /\ Sector!Place(l.free, l.hint) = {} /\ l.free = {}
  PROVE  SearchInv'
  <1>1. l' = [l EXCEPT !.pc = "done", !.result = x]
    BY DEF Sector!Take
  <1>2. l.free \in SUBSET Sector!Lsn
    BY DEF SearchFields
  <1>3. x \in l.free => x \in Int /\ x # -1
    BY <1>2, SectorsAre DEF Sector!Lsn
  <1>4. x \in Int
    BY <1>3 DEF Sector!Full
  <1>5. l' \in SearchFields
    BY <1>1, <1>4 DEF SearchFields
  <1>6. l'.pc = "done" /\ l'.result = x /\ l'.free = l.free /\ l'.hint = l.hint
    BY <1>1 DEF SearchFields
  <1>7. Sector!FindsPlace'
    BY <1>3, <1>6 DEF Sector!FindsPlace, Sector!Full
  <1> QED
    BY <1>5, <1>6, <1>7 DEF SearchInv

LEMMA SearchBegins == Sector!Init => SearchInv
  <1> SUFFICES ASSUME Sector!Init PROVE SearchInv
    OBVIOUS
  <1>1. PICK free \in SUBSET (Sector!Lsn \ Sector!System), hint \in Hints :
          l = [loop |-> "dragon", free |-> free, hint |-> hint, pc |-> "hint",
               position |-> Dir, found |-> FALSE, candidate |-> 0,
               base |-> 0, offset |-> 0, start |-> 0, length |-> 0,
               best |-> 0, best_offset |-> 0,
               second |-> [run |-> 0, lsn |-> 0], result |-> Sector!Full]
    BY DEF Sector!Init
  <1>2. Dir \in Int /\ Sector!Full \in Int
    BY SectorsAre DEF Sector!Full
  <1>3. l \in SearchFields
    BY <1>1, <1>2 DEF SearchFields
  <1>4. l.pc = "hint" /\ Searched(l)
    BY <1>1 DEF Searched, Unscanned
  <1> QED
    BY <1>3, <1>4 DEF SearchInv, Sector!FindsPlace

LEMMA HintTried == ASSUME SearchInv, l.loop = "dragon", Sector!TryHint PROVE SearchInv'
  <1>1. l \in SearchFields /\ l.pc = "hint" /\ Searched(l)
    BY DEF SearchInv, Sector!TryHint
  <1>2. Unscanned(l) /\ l.position = Dir /\ l.found = FALSE
    BY <1>1 DEF Searched
  <1>3. l.free \in SUBSET Sector!Lsn
    BY <1>1 DEF SearchFields
  <1>4. CASE l.hint \in l.free
    <2>1. Sector!Take(l.hint) /\ Sector!Place(l.free, l.hint) = {l.hint}
      BY <1>4 DEF Sector!TryHint, Sector!Place
    <2> QED
      BY <1>1, <1>4, <2>1, SectorTaken
  <1>5. CASE l.hint \notin l.free /\ Beyond(l.hint)
    <2>1. l' = [l EXCEPT !.pc = "up", !.position = MapSector] /\ MapSector \in Int
      BY <1>5, SectorsAre DEF Sector!TryHint, Beyond
    <2>2. l' \in SearchFields
      BY <1>1, <2>1 DEF SearchFields
    <2>3. /\ l'.pc = "up" /\ l'.position = MapSector /\ l'.free = l.free /\ l'.hint = l.hint
          /\ l'.offset = l.offset /\ l'.length = l.length /\ l'.best = l.best
      BY <1>1, <2>1 DEF SearchFields
    <2>4. UpSwept(l.free, l.hint, MapSector)
      BY <1>3, <1>5, UpBegins DEF Beyond
    <2>5. Searched(l')
      BY <1>2, <1>5, <2>3, <2>4 DEF Searched, ByTrack, Unscanned
    <2> QED
      BY <2>2, <2>3, <2>5, SearchGoesOn
  <1>6. CASE l.hint \notin l.free /\ ~ Beyond(l.hint)
    <2>1. l' = [l EXCEPT !.pc = "down"]
      BY <1>6 DEF Sector!TryHint, Beyond
    <2>2. l' \in SearchFields
      BY <1>1, <2>1 DEF SearchFields
    <2>3. /\ l'.pc = "down" /\ l'.position = Dir /\ l'.free = l.free /\ l'.hint = l.hint
          /\ l'.offset = l.offset /\ l'.length = l.length /\ l'.best = l.best
          /\ l'.found = FALSE
      BY <1>1, <1>2, <2>1 DEF SearchFields
    <2>4. DownSwept(l.free, Dir, FALSE)
      BY <1>3, DownBegins
    <2>5. Searched(l')
      BY <1>2, <1>6, <2>3, <2>4 DEF Searched, ByTrack, Unscanned
    <2> QED
      BY <2>2, <2>3, <2>5, SearchGoesOn
  <1> QED
    BY <1>4, <1>5, <1>6

LEMMA BelowLooked == ASSUME SearchInv, l.loop = "dragon", Sector!LookBelow PROVE SearchInv'
  <1>1. PICK q : q = l.position - T
    OBVIOUS
  <1>2. l \in SearchFields /\ l.pc = "down" /\ Searched(l) /\ q >= 0
    BY <1>1 DEF SearchInv, Sector!LookBelow
  <1>3. /\ ByTrack(l) /\ ~ Beyond(l.hint) /\ DownSwept(l.free, l.position, l.found)
        /\ l.found => l.candidate = l.position
    BY <1>2 DEF Searched
  <1>4. l.free \in SUBSET Sector!Lsn /\ l.found \in BOOLEAN /\ l.position \in Int /\ q \in Int
    BY <1>1, <1>2, SectorsAre DEF SearchFields
  <1>5. /\ q \notin l.free => DownSwept(l.free, q, FALSE)
        /\ q \in l.free /\ ~ l.found => DownSwept(l.free, q, TRUE)
        /\ q \in l.free /\ l.found => Sector!LookDown(l.free) = {q}
    <2>1. PICK f \in SUBSET Sector!Lsn : f = l.free
      BY <1>4
    <2>2. PICK p \in Int : p = l.position
      BY <1>4
    <2>3. PICK found \in BOOLEAN : found = l.found
      BY <1>4
    <2>4. q = p - T /\ q >= 0 /\ DownSwept(f, p, found)
      BY <1>1, <1>2, <1>3, <2>1, <2>2, <2>3
    <2>5. /\ q \notin f => DownSwept(f, q, FALSE)
          /\ q \in f /\ found = FALSE => DownSwept(f, q, TRUE)
          /\ q \in f /\ found = TRUE => Sector!LookDown(f) = {q}
      BY ONLY <2>4, f \in SUBSET Sector!Lsn, DownGoesOn
    <2> QED
      BY <2>1, <2>2, <2>3, <2>5
  <1>6. CASE q \notin l.free
    <2>1. l' = [l EXCEPT !.position = q, !.found = FALSE]
      BY <1>1, <1>6 DEF Sector!LookBelow
    <2>2. l' \in SearchFields
      BY <1>2, <1>4, <2>1 DEF SearchFields
    <2>3. /\ l'.pc = "down" /\ l'.position = q /\ l'.free = l.free /\ l'.hint = l.hint
          /\ l'.offset = l.offset /\ l'.length = l.length /\ l'.best = l.best
          /\ l'.found = FALSE
      BY <1>2, <2>1 DEF SearchFields
    <2>4. Searched(l')
      BY <1>3, <1>5, <1>6, <2>3 DEF Searched, ByTrack, Unscanned
    <2> QED
      BY <2>2, <2>3, <2>4, SearchGoesOn
  <1>7. CASE q \in l.free /\ ~ l.found
    <2>1. l' = [l EXCEPT !.position = q, !.found = TRUE, !.candidate = q]
      BY <1>1, <1>7 DEF Sector!LookBelow
    <2>2. l' \in SearchFields
      BY <1>2, <1>4, <2>1 DEF SearchFields
    <2>3. /\ l'.pc = "down" /\ l'.position = q /\ l'.free = l.free /\ l'.hint = l.hint
          /\ l'.offset = l.offset /\ l'.length = l.length /\ l'.best = l.best
          /\ l'.found = TRUE /\ l'.candidate = q
      BY <1>2, <2>1 DEF SearchFields
    <2>4. Searched(l')
      BY <1>3, <1>5, <1>7, <2>3 DEF Searched, ByTrack, Unscanned
    <2> QED
      BY <2>2, <2>3, <2>4, SearchGoesOn
  <1>8. CASE q \in l.free /\ l.found
    <2>1. Sector!Take(q)
      BY <1>1, <1>8 DEF Sector!LookBelow
    <2>2. Sector!Place(l.free, l.hint) = {q}
      BY <1>3, <1>5, <1>8 DEF Sector!Place, Sector!LookByTrack, ByTrack, Beyond
    <2> QED
      BY <1>2, <1>8, <2>1, <2>2, SectorTaken
  <1> QED
    BY <1>6, <1>7, <1>8

LEMMA BelowEnded == ASSUME SearchInv, l.loop = "dragon", Sector!EndBelow PROVE SearchInv'
  <1>1. l \in SearchFields /\ l.pc = "down" /\ Searched(l) /\ l.position < T
    BY DEF SearchInv, Sector!EndBelow
  <1>2. /\ ByTrack(l) /\ ~ Beyond(l.hint) /\ DownSwept(l.free, l.position, l.found)
        /\ l.found => l.candidate = l.position
    BY <1>1 DEF Searched
  <1>3. l.free \in SUBSET Sector!Lsn /\ l.found \in BOOLEAN
    BY <1>1 DEF SearchFields
  <1>4. /\ l.position = 0 /\ (l.found <=> 0 \in Sector!Below(l.free))
        /\ Sector!LookDown(l.free) = Sector!Below(l.free) \cap {0}
    BY <1>1, <1>2, <1>3, DownEnds
  <1>5. CASE l.found
    <2>1. Sector!Take(0)
      BY <1>2, <1>4, <1>5 DEF Sector!EndBelow
    <2>2. Sector!LookDown(l.free) = {0} /\ 0 \in l.free
      BY <1>3, <1>4, <1>5, BelowIs
    <2>3. Sector!Place(l.free, l.hint) = {0}
      BY <1>2, <2>2 DEF Sector!Place, Sector!LookByTrack, ByTrack, Beyond
    <2> QED
      BY <1>1, <2>1, <2>2, <2>3, SectorTaken
  <1>6. CASE ~ l.found
    <2>1. l' = [l EXCEPT !.pc = "up", !.position = Dir + T] /\ Dir + T \in Int
      BY <1>6, SectorsAre DEF Sector!EndBelow
    <2>2. l' \in SearchFields
      BY <1>1, <2>1 DEF SearchFields
    <2>3. /\ l'.pc = "up" /\ l'.position = Dir + T /\ l'.free = l.free /\ l'.hint = l.hint
          /\ l'.offset = l.offset /\ l'.length = l.length /\ l'.best = l.best
      BY <1>1, <2>1 DEF SearchFields
    <2>4. Sector!LookDown(l.free) = {}
      BY <1>4, <1>6
    <2>5. UpSwept(l.free, l.hint, Dir + T)
      BY <1>2, <1>3, <2>4, UpBegins DEF Beyond
    <2>6. Searched(l')
      BY <1>2, <2>3, <2>5 DEF Searched, ByTrack, Unscanned
    <2> QED
      BY <2>2, <2>3, <2>6, SearchGoesOn
  <1> QED
    BY <1>5, <1>6

LEMMA AboveLooked == ASSUME SearchInv, l.loop = "dragon", Sector!LookAbove PROVE SearchInv'
  <1>1. l \in SearchFields /\ l.pc = "up" /\ Searched(l)
    BY DEF SearchInv, Sector!LookAbove
  <1>2. ByTrack(l) /\ UpSwept(l.free, l.hint, l.position)
    BY <1>1 DEF Searched
  <1>3. l.free \in SUBSET Sector!Lsn /\ l.position \in Int /\ l.position + T \in Int
        /\ MapSector \in Nat \ {0}
    BY <1>1, SectorsAre DEF SearchFields
  <1>4. /\ l.position >= 2 * MapSector => Sector!LookByTrack(l.free, l.hint) = {}
        /\ l.position \in l.free => Sector!LookByTrack(l.free, l.hint) = {l.position}
        /\ l.position \notin l.free => UpSwept(l.free, l.hint, l.position + T)
    BY <1>2, <1>3, UpGoesOn
  <1>5. CASE l.position >= 2 * MapSector
    <2>1. l' = [l EXCEPT !.pc = "scan", !.base = MapSector]
      BY <1>5 DEF Sector!LookAbove
    <2>2. l' \in SearchFields
      BY <1>1, <2>1 DEF SearchFields
    <2>3. /\ l'.pc = "scan" /\ l'.base = MapSector /\ l'.free = l.free /\ l'.hint = l.hint
          /\ l'.offset = 0 /\ l'.length = 0 /\ l'.best = 0
      BY <1>1, <1>2, <2>1 DEF SearchFields, ByTrack, Unscanned
    <2>4. ScanSwept(l'.free, MapSector, 0, l'.start, 0, 0, l'.best_offset)
      BY <1>3, ScanBegins
    <2>5. ByRun(l')
      BY <1>2, <1>3, <1>4, <1>5, <2>3 DEF ByRun, ByTrack
    <2>6. Searched(l')
      BY <2>3, <2>4, <2>5 DEF Searched
    <2> QED
      BY <2>2, <2>3, <2>6, SearchGoesOn
  <1>6. CASE ~ l.position >= 2 * MapSector /\ l.position \in l.free
    <2>1. Sector!Take(l.position)
      BY <1>6 DEF Sector!LookAbove
    <2>2. Sector!Place(l.free, l.hint) = {l.position}
      BY <1>2, <1>4, <1>6 DEF Sector!Place, ByTrack
    <2> QED
      BY <1>1, <1>6, <2>1, <2>2, SectorTaken
  <1>7. CASE ~ l.position >= 2 * MapSector /\ l.position \notin l.free
    <2>1. l' = [l EXCEPT !.position = l.position + T]
      BY <1>7 DEF Sector!LookAbove
    <2>2. l' \in SearchFields
      BY <1>1, <1>3, <2>1 DEF SearchFields
    <2>3. /\ l'.pc = "up" /\ l'.position = l.position + T /\ l'.free = l.free
          /\ l'.hint = l.hint
          /\ l'.offset = l.offset /\ l'.length = l.length /\ l'.best = l.best
      BY <1>1, <2>1 DEF SearchFields
    <2>4. Searched(l')
      BY <1>2, <1>4, <1>7, <2>3 DEF Searched, ByTrack, Unscanned
    <2> QED
      BY <2>2, <2>3, <2>4, SearchGoesOn
  <1> QED
    BY <1>5, <1>6, <1>7

(* The scan of one sector of the bitmap. *)
LEMMA ByteScanned ==
  ASSUME SearchInv, l.loop = "dragon", Sector!ScanByte PROVE SearchInv'
  <1>1. l \in SearchFields /\ l.pc = "scan" /\ Searched(l) /\ l.length = 0
        /\ l.offset \in Sector!Bytes
    BY DEF SearchInv, Sector!ScanByte
  <1>2. /\ ByRun(l)
        /\ ScanSwept(l.free, l.base, l.offset, l.start, 0, l.best, l.best_offset)
    BY <1>1 DEF Searched
  <1>3. l.base \in Nat /\ l.offset \in Int /\ l.offset + 1 \in Nat /\ 1 \in Nat
    BY <1>1, SectorsAre DEF SearchFields
  <1>4. /\ Sector!Nonzero(l.free, l.base, l.offset) =>
             ScanSwept(l.free, l.base, l.offset + 1, l.offset, 1, l.best, l.best_offset)
        /\ ~ Sector!Nonzero(l.free, l.base, l.offset) =>
             ScanSwept(l.free, l.base, l.offset + 1, l.start, 0, l.best, l.best_offset)
    BY <1>1, <1>2, <1>3, ByteScans
  <1>5. CASE Sector!Nonzero(l.free, l.base, l.offset)
    <2>1. l' = [l EXCEPT !.offset = l.offset + 1, !.start = l.offset, !.length = 1]
      BY <1>5 DEF Sector!ScanByte
    <2>2. l' \in SearchFields
      BY <1>1, <1>3, <2>1 DEF SearchFields
    <2>3. /\ l'.pc = "scan" /\ l'.free = l.free /\ l'.hint = l.hint /\ l'.base = l.base
          /\ l'.second = l.second /\ l'.offset = l.offset + 1 /\ l'.start = l.offset
          /\ l'.length = 1 /\ l'.best = l.best /\ l'.best_offset = l.best_offset
      BY <1>1, <2>1 DEF SearchFields
    <2>4. Searched(l')
      BY <1>2, <1>4, <1>5, <2>3 DEF Searched, ByRun
    <2> QED
      BY <2>2, <2>3, <2>4, SearchGoesOn
  <1>6. CASE ~ Sector!Nonzero(l.free, l.base, l.offset)
    <2>1. l' = [l EXCEPT !.offset = l.offset + 1]
      BY <1>6 DEF Sector!ScanByte
    <2>2. l' \in SearchFields
      BY <1>1, <1>3, <2>1 DEF SearchFields
    <2>3. /\ l'.pc = "scan" /\ l'.free = l.free /\ l'.hint = l.hint /\ l'.base = l.base
          /\ l'.second = l.second /\ l'.offset = l.offset + 1 /\ l'.start = l.start
          /\ l'.length = 0 /\ l'.best = l.best /\ l'.best_offset = l.best_offset
      BY <1>1, <2>1 DEF SearchFields
    <2>4. Searched(l')
      BY <1>2, <1>4, <1>6, <2>3 DEF Searched, ByRun
    <2> QED
      BY <2>2, <2>3, <2>4, SearchGoesOn
  <1> QED
    BY <1>5, <1>6

LEMMA RunScanned ==
  ASSUME SearchInv, l.loop = "dragon", Sector!ScanRun PROVE SearchInv'
  <1>1. l \in SearchFields /\ l.pc = "scan" /\ Searched(l) /\ l.length > 0
    BY DEF SearchInv, Sector!ScanRun
  <1>2. /\ ByRun(l)
        /\ ScanSwept(l.free, l.base, l.offset, l.start, l.length, l.best, l.best_offset)
    BY <1>1 DEF Searched
  <1>3. /\ l.base \in Nat /\ l.offset \in Nat /\ l.start \in Int /\ l.length \in Nat
        /\ l.best \in Nat /\ l.offset + 1 \in Nat /\ l.length + 1 \in Nat
    BY <1>1, SectorsAre DEF SearchFields
  <1>4. /\ Sector!IsFF(l.free, l.base, l.offset) =>
             ScanSwept(l.free, l.base, l.offset + 1, l.start, l.length + 1, l.best, l.best_offset)
        /\ ~ Sector!IsFF(l.free, l.base, l.offset) =>
             /\ l.length > l.best =>
                  ScanSwept(l.free, l.base, l.offset, l.start, 0, l.length, l.start)
             /\ ~ l.length > l.best =>
                  ScanSwept(l.free, l.base, l.offset, l.start, 0, l.best, l.best_offset)
    <2>1. l.length # 0
      BY <1>1, <1>3
    <2> QED
      BY <1>2, <1>3, <2>1, RunScans
  <1>5. CASE Sector!IsFF(l.free, l.base, l.offset)
    <2>1. l' = [l EXCEPT !.offset = l.offset + 1, !.length = l.length + 1]
      BY <1>5 DEF Sector!ScanRun
    <2>2. l' \in SearchFields
      BY <1>1, <1>3, <2>1 DEF SearchFields
    <2>3. /\ l'.pc = "scan" /\ l'.free = l.free /\ l'.hint = l.hint /\ l'.base = l.base
          /\ l'.second = l.second /\ l'.offset = l.offset + 1 /\ l'.start = l.start
          /\ l'.length = l.length + 1 /\ l'.best = l.best /\ l'.best_offset = l.best_offset
      BY <1>1, <2>1 DEF SearchFields
    <2>4. Searched(l')
      BY <1>2, <1>4, <1>5, <2>3 DEF Searched, ByRun
    <2> QED
      BY <2>2, <2>3, <2>4, SearchGoesOn
  <1>6. CASE ~ Sector!IsFF(l.free, l.base, l.offset) /\ l.length > l.best
    <2>1. l' = [l EXCEPT !.length = 0, !.best = l.length, !.best_offset = l.start]
      BY <1>6 DEF Sector!ScanRun
    <2>2. l' \in SearchFields
      BY <1>1, <1>3, <2>1 DEF SearchFields
    <2>3. /\ l'.pc = "scan" /\ l'.free = l.free /\ l'.hint = l.hint /\ l'.base = l.base
          /\ l'.second = l.second /\ l'.offset = l.offset /\ l'.start = l.start
          /\ l'.length = 0 /\ l'.best = l.length /\ l'.best_offset = l.start
      BY <1>1, <2>1 DEF SearchFields
    <2>4. Searched(l')
      BY <1>2, <1>4, <1>6, <2>3 DEF Searched, ByRun
    <2> QED
      BY <2>2, <2>3, <2>4, SearchGoesOn
  <1>7. CASE ~ Sector!IsFF(l.free, l.base, l.offset) /\ ~ l.length > l.best
    <2>1. l' = [l EXCEPT !.length = 0]
      BY <1>7 DEF Sector!ScanRun
    <2>2. l' \in SearchFields
      BY <1>1, <1>3, <2>1 DEF SearchFields
    <2>3. /\ l'.pc = "scan" /\ l'.free = l.free /\ l'.hint = l.hint /\ l'.base = l.base
          /\ l'.second = l.second /\ l'.offset = l.offset /\ l'.start = l.start
          /\ l'.length = 0 /\ l'.best = l.best /\ l'.best_offset = l.best_offset
      BY <1>1, <2>1 DEF SearchFields
    <2>4. Searched(l')
      BY <1>2, <1>4, <1>7, <2>3 DEF Searched, ByRun
    <2> QED
      BY <2>2, <2>3, <2>4, SearchGoesOn
  <1> QED
    BY <1>5, <1>6, <1>7

LEMMA ScanEnded ==
  ASSUME SearchInv, l.loop = "dragon", Sector!ScanEnds PROVE SearchInv'
  <1>1. l \in SearchFields /\ l.pc = "scan" /\ Searched(l) /\ l.length = 0
        /\ l.offset \notin Sector!Bytes
    BY DEF SearchInv, Sector!ScanEnds
  <1>2. /\ ByRun(l)
        /\ ScanSwept(l.free, l.base, l.offset, l.start, 0, l.best, l.best_offset)
    BY <1>1 DEF Searched
  <1>3. l.base \in Nat /\ l.best \in Nat /\ l.base + MapSector \in Int
    BY <1>1, SectorsAre DEF SearchFields
  <1>4. /\ l.best = 0 => Sector!Starts(l.free, l.base) = {}
        /\ l.best # 0 => /\ Sector!IsBest(l.free, l.base, l.best_offset)
                         /\ l.best = Sector!RunLength(l.free, l.base, l.best_offset)
    BY <1>1, <1>2, <1>3, ScanEndsAt
  <1>5. CASE l.best = 0
    <2>1. l' = [l EXCEPT !.pc = "scanned", !.position = l.base + MapSector]
      BY <1>5 DEF Sector!ScanEnds
    <2>2. l' \in SearchFields
      BY <1>1, <1>3, <2>1 DEF SearchFields
    <2>3. /\ l'.pc = "scanned" /\ l'.free = l.free /\ l'.hint = l.hint /\ l'.base = l.base
          /\ l'.second = l.second /\ l'.length = 0 /\ l'.best = 0
          /\ l'.position = l.base + MapSector
      BY <1>1, <1>5, <2>1 DEF SearchFields
    <2>4. ScanReturns(l.free, l.base, [run |-> 0, lsn |-> l.base + MapSector])
      BY <1>4, <1>5, ScanFindsNone DEF ScanReturns
    <2>5. Searched(l')
      BY <1>2, <2>3, <2>4 DEF Searched, ByRun
    <2> QED
      BY <2>2, <2>3, <2>5, SearchGoesOn
  <1>6. CASE l.best # 0
    <2> DEFINE top == Top(l.base, l.best_offset)
    <2>1. l.best_offset \in Sector!Starts(l.free, l.base)
      BY <1>4, <1>6 DEF Sector!IsBest
    <2>2. top \in Nat
      BY <1>3, <2>1, StartIs, TopIs
    <2>3. l' = [l EXCEPT !.pc = IF l.best = 1 THEN "skip" ELSE "bits", !.position = top]
      BY <1>6 DEF Sector!ScanEnds, Top
    <2>4. /\ l.best = 1 => Skipping(l.free, l.base, l.best_offset, top)
          /\ l.best # 1 => Taking(l.free, l.base, l.best_offset, top)
      BY <1>3, <1>4, <1>6, <2>1, PositionBegins
    <2> HIDE DEF top
    <2>5. l' \in SearchFields
      <3>1. top \in Int
        BY <2>2
      <3>2. CASE l.best = 1
        <4>1. l' = [l EXCEPT !.pc = "skip", !.position = top]
          BY <2>3, <3>2
        <4> QED
          BY <1>1, <3>1, <4>1 DEF SearchFields
      <3>3. CASE l.best # 1
        <4>1. l' = [l EXCEPT !.pc = "bits", !.position = top]
          BY <2>3, <3>3
        <4> QED
          BY <1>1, <3>1, <4>1 DEF SearchFields
      <3> QED
        BY <3>2, <3>3
    <2>6. /\ l'.pc = IF l.best = 1 THEN "skip" ELSE "bits"
          /\ l'.free = l.free /\ l'.hint = l.hint /\ l'.base = l.base
          /\ l'.second = l.second /\ l'.length = 0 /\ l'.best = l.best
          /\ l'.position = top /\ l'.best_offset = l.best_offset
      BY <1>1, <2>3 DEF SearchFields
    <2>7. ByRun(l') /\ Chosen(l')
      BY <1>2, <1>4, <1>6, <2>6 DEF ByRun, Chosen
    <2>8. Searched(l') /\ l'.pc # "done"
      BY <2>4, <2>6, <2>7 DEF Searched
    <2> QED
      BY <2>5, <2>8, SearchGoesOn
  <1> QED
    BY <1>5, <1>6

(* The bits of a run that was chosen. *)
LEMMA BitSkipped ==
  ASSUME SearchInv, l.loop = "dragon", Sector!SkipBit PROVE SearchInv'
  <1>1. l \in SearchFields /\ l.pc = "skip" /\ Searched(l)
    BY DEF SearchInv, Sector!SkipBit
  <1>2. ByRun(l) /\ Chosen(l) /\ Skipping(l.free, l.base, l.best_offset, l.position)
    BY <1>1 DEF Searched
  <1>3. l.base \in Nat /\ l.position \in Int /\ l.best_offset \in Sector!Starts(l.free, l.base)
    BY <1>1, <1>2, SectorsAre DEF SearchFields, Chosen, Sector!IsBest
  <1>4. /\ l.position - 1 \in l.free => Taking(l.free, l.base, l.best_offset, l.position)
        /\ l.position - 1 \notin l.free =>
             Skipping(l.free, l.base, l.best_offset, l.position - 1)
    BY <1>2, <1>3, SkipGoesOn
  <1>5. CASE l.position - 1 \in l.free
    <2>1. l' = [l EXCEPT !.pc = "bits"]
      BY <1>5 DEF Sector!SkipBit
    <2>2. l' \in SearchFields
      BY <1>1, <2>1 DEF SearchFields
    <2>3. /\ l'.pc = "bits" /\ l'.free = l.free /\ l'.hint = l.hint /\ l'.base = l.base
          /\ l'.second = l.second /\ l'.length = l.length /\ l'.best = l.best
          /\ l'.position = l.position /\ l'.best_offset = l.best_offset
      BY <1>1, <2>1 DEF SearchFields
    <2>4. Searched(l')
      BY <1>2, <1>4, <1>5, <2>3 DEF Searched, ByRun, Chosen
    <2> QED
      BY <2>2, <2>3, <2>4, SearchGoesOn
  <1>6. CASE l.position - 1 \notin l.free
    <2>1. l' = [l EXCEPT !.position = l.position - 1]
      BY <1>6 DEF Sector!SkipBit
    <2>2. l' \in SearchFields
      BY <1>1, <1>3, <2>1 DEF SearchFields
    <2>3. /\ l'.pc = "skip" /\ l'.free = l.free /\ l'.hint = l.hint /\ l'.base = l.base
          /\ l'.second = l.second /\ l'.length = l.length /\ l'.best = l.best
          /\ l'.position = l.position - 1 /\ l'.best_offset = l.best_offset
      BY <1>1, <2>1 DEF SearchFields
    <2>4. Searched(l')
      BY <1>2, <1>4, <1>6, <2>3 DEF Searched, ByRun, Chosen
    <2> QED
      BY <2>2, <2>3, <2>4, SearchGoesOn
  <1> QED
    BY <1>5, <1>6

LEMMA BitTaken ==
  ASSUME SearchInv, l.loop = "dragon", Sector!TakeBit PROVE SearchInv'
  <1>1. l \in SearchFields /\ l.pc = "bits" /\ Searched(l)
    BY DEF SearchInv, Sector!TakeBit
  <1>2. ByRun(l) /\ Chosen(l) /\ Taking(l.free, l.base, l.best_offset, l.position)
    BY <1>1 DEF Searched
  <1>3. /\ l.base \in Nat /\ l.position \in Int
        /\ l.best_offset \in Sector!Starts(l.free, l.base)
        /\ Sector!IsBest(l.free, l.base, l.best_offset)
        /\ l.best = Sector!RunLength(l.free, l.base, l.best_offset)
    BY <1>1, <1>2, SectorsAre DEF SearchFields, Chosen, Sector!IsBest
  <1> DEFINE again == /\ l.position - 1 \in l.free
                      /\ l.position - 1 >= l.base + l.best_offset * MapByte
  <1>4. /\ again => Taking(l.free, l.base, l.best_offset, l.position - 1)
        /\ ~ again => Sector!IsRunLsn(l.free, l.base, l.best_offset, l.position)
    BY <1>2, <1>3, TakeGoesOn
  <1>5. CASE again
    <2>1. l' = [l EXCEPT !.position = l.position - 1]
      BY <1>5 DEF Sector!TakeBit
    <2>2. l' \in SearchFields
      BY <1>1, <1>3, <2>1 DEF SearchFields
    <2>3. /\ l'.pc = "bits" /\ l'.free = l.free /\ l'.hint = l.hint /\ l'.base = l.base
          /\ l'.second = l.second /\ l'.length = l.length /\ l'.best = l.best
          /\ l'.position = l.position - 1 /\ l'.best_offset = l.best_offset
      BY <1>1, <2>1 DEF SearchFields
    <2>4. Searched(l')
      BY <1>2, <1>4, <1>5, <2>3 DEF Searched, ByRun, Chosen
    <2> QED
      BY <2>2, <2>3, <2>4, SearchGoesOn
  <1>6. CASE ~ again
    <2>1. l' = [l EXCEPT !.pc = "scanned"]
      BY <1>6 DEF Sector!TakeBit
    <2>2. l' \in SearchFields
      BY <1>1, <2>1 DEF SearchFields
    <2>3. /\ l'.pc = "scanned" /\ l'.free = l.free /\ l'.hint = l.hint /\ l'.base = l.base
          /\ l'.second = l.second /\ l'.length = l.length /\ l'.best = l.best
          /\ l'.position = l.position
      BY <1>1, <2>1 DEF SearchFields
    <2>4. ScanReturns(l.free, l.base, [run |-> l.best, lsn |-> l.position])
      <3>1. /\ Sector!Scan(l.free, l.base) = [run |-> l.best, lsn |-> l.position]
            /\ l.position \in l.free
        BY <1>3, <1>4, <1>6, ScanFinds
      <3>2. l.best \in Nat /\ l.best # 0
        BY <1>3, StartIs, BytesAre
      <3> QED
        BY <3>1, <3>2 DEF ScanReturns
    <2>5. Searched(l')
      BY <1>2, <2>3, <2>4 DEF Searched, ByRun, Chosen
    <2> QED
      BY <2>2, <2>3, <2>5, SearchGoesOn
  <1> QED
    BY <1>5, <1>6

LEMMA SecondScanned ==
  ASSUME SearchInv, l.loop = "dragon", Sector!ScannedSecond PROVE SearchInv'
  <1>1. l \in SearchFields /\ l.pc = "scanned" /\ Searched(l) /\ l.base = MapSector
    BY DEF SearchInv, Sector!ScannedSecond
  <1> DEFINE second == [run |-> l.best, lsn |-> l.position]
  <1>2. ByRun(l) /\ l.length = 0 /\ ScanReturns(l.free, MapSector, second)
    BY <1>1 DEF Searched
  <1>3. /\ l.free \in SUBSET Sector!Lsn /\ l.best \in Nat /\ l.position \in Int
        /\ second \in [run : Nat, lsn : Int] /\ second.run = l.best /\ second.lsn = l.position
        /\ MapSector # 0
    BY <1>1, SectorsAre DEF SearchFields
  <1> HIDE DEF second
  <1>4. CASE l.best >= 2
    <2>1. Sector!Take(l.position)
      BY <1>4 DEF Sector!ScannedSecond
    <2>2. l.position \in l.free /\ Sector!Place(l.free, l.hint) = {l.position}
      BY <1>2, <1>3, <1>4, SecondFinds DEF ByRun
    <2> QED
      BY <1>1, <2>1, <2>2, SectorTaken
  <1>5. CASE ~ l.best >= 2
    <2>1. l' = [l EXCEPT !.pc = "scan", !.base = 0, !.offset = 0, !.best = 0, !.second = second]
      BY <1>5 DEF Sector!ScannedSecond, second
    <2>2. l' \in SearchFields
      BY <1>1, <1>3, <2>1 DEF SearchFields
    <2>3. /\ l'.pc = "scan" /\ l'.base = 0 /\ l'.free = l.free /\ l'.hint = l.hint
          /\ l'.offset = 0 /\ l'.length = 0 /\ l'.best = 0 /\ l'.second = second
      BY <1>1, <1>2, <2>1 DEF SearchFields
    <2>4. ScanSwept(l'.free, 0, 0, l'.start, 0, 0, l'.best_offset)
      BY ScanBegins
    <2>5. ByRun(l')
      BY <1>2, <1>3, <1>5, <2>3 DEF ByRun
    <2>6. Searched(l')
      BY <2>3, <2>4, <2>5 DEF Searched
    <2> QED
      BY <2>2, <2>3, <2>6, SearchGoesOn
  <1> QED
    BY <1>4, <1>5

LEMMA FirstScanned ==
  ASSUME SearchInv, l.loop = "dragon", Sector!ScannedFirst PROVE SearchInv'
  <1>1. l \in SearchFields /\ l.pc = "scanned" /\ Searched(l) /\ l.base = 0
    BY DEF SearchInv, Sector!ScannedFirst
  <1> DEFINE first == [run |-> l.best, lsn |-> l.position]
  <1>2. /\ ByRun(l) /\ ScanReturns(l.free, 0, first)
        /\ ScanReturns(l.free, MapSector, l.second) /\ l.second.run < 2
    BY <1>1 DEF Searched, ByRun
  <1>3. l.free \in SUBSET Sector!Lsn /\ first.run = l.best /\ first.lsn = l.position
    BY <1>1 DEF SearchFields
  <1> HIDE DEF first
  <1>4. /\ ~ (first.run < 2 /\ first.run <= l.second.run) =>
             Sector!Place(l.free, l.hint) = {first.lsn} /\ first.lsn \in l.free
        /\ first.run < 2 /\ first.run <= l.second.run =>
             /\ l.second.lsn \in l.free => Sector!Place(l.free, l.hint) = {l.second.lsn}
             /\ l.second.lsn \notin l.free => Sector!Place(l.free, l.hint) = {} /\ l.free = {}
    BY <1>2, <1>3, ScansFind DEF ByRun
  <1>5. CASE ~ (l.best < 2 /\ l.best <= l.second.run)
    <2>1. Sector!Take(l.position)
      BY <1>5 DEF Sector!ScannedFirst
    <2> QED
      BY <1>1, <1>3, <1>4, <1>5, <2>1, SectorTaken
  <1>6. CASE l.best < 2 /\ l.best <= l.second.run /\ l.second.lsn \in l.free
    <2>1. Sector!Take(l.second.lsn)
      BY <1>6 DEF Sector!ScannedFirst
    <2> QED
      BY <1>1, <1>3, <1>4, <1>6, <2>1, SectorTaken
  <1>7. CASE l.best < 2 /\ l.best <= l.second.run /\ l.second.lsn \notin l.free
    <2>1. Sector!Take(Sector!Full)
      BY <1>7 DEF Sector!ScannedFirst
    <2> QED
      BY <1>1, <1>3, <1>4, <1>7, <2>1, SectorTaken
  <1> QED
    BY <1>5, <1>6, <1>7

(* _dd_allocate takes the sector that DragonDos takes it to take, and calls *)
(* the disk full only when no sector is free: for every geometry of disk,   *)
(* bitmap and end of the file.                                              *)
THEOREM SectorIsPlaced == Spec => []SectorPlaced
  <1>1. Init => HasLoop /\ SearchInv
    <2> SUFFICES ASSUME Init PROVE SearchInv
      BY LoopBegins DEF Init
    <2>1. CASE Sector!Init
      BY <2>1, SearchBegins
    <2>2. CASE l.loop # "dragon"
      BY <2>2 DEF SearchInv
    <2> QED
      BY <2>1, <2>2, LoopBegins DEF Init
  <1>2. HasLoop /\ SearchInv /\ [Next]_vars => (HasLoop /\ SearchInv)'
    <2> SUFFICES ASSUME HasLoop, SearchInv, [Next]_vars PROVE SearchInv'
      BY LoopStays
    <2>1. CASE l.loop = "dragon" /\ Sector!Next
      BY <2>1, HintTried, BelowLooked, BelowEnded, AboveLooked, ByteScanned, RunScanned,
         ScanEnded, BitSkipped, BitTaken, SecondScanned, FirstScanned DEF Sector!Next
    <2>2. CASE UNCHANGED l
      BY <2>2 DEF SearchInv, Sector!FindsPlace
    <2>3. CASE l.loop # "dragon"
      BY <2>3, LoopStays DEF SearchInv
    <2> QED
      BY <2>1, <2>2, <2>3, LoopStays
  <1>3. SearchInv => SectorPlaced
    BY DEF SearchInv, SectorPlaced
  <1> QED
    BY <1>1, <1>2, <1>3, PTL DEF Spec

-----------------------------------------------------------------------------
(* Raw disk images *)

SectorData == [Image!Half -> Int]

ImageType ==
  /\ t0 \in 1 .. Spt
  /\ file \in Seq(SectorData)
  /\ opens \in [Opens -> [slots : Int, total : Int]]
  /\ wrote \in [Image!Lsn -> [Image!Half -> Nat]]
  /\ n \in Nat

(* No open counts slots or sectors that are not there. *)
SlotsThere ==
  \A o \in Opens : opens[o].slots <= Len(file) /\ opens[o].total <= Image!TotalOf(Len(file))

(* Nothing is in the slots of a short track 0 that are not sectors. *)
GapEmpty == \A i \in 1 .. Len(file) : i \in (t0 + 1) .. Spt => file[i] = Image!Zero

(* What was last written to a sector is in its slot, but for that of which  *)
(* half was written without looking.                                        *)
SlotsHold ==
  \A lsn \in Image!Lsn, h \in Image!Half :
    wrote[lsn][h] # 0 =>
      /\ Image!Slot(lsn) < Len(file)
      /\ lsn \notin blind => file[Image!Slot(lsn) + 1][h] = wrote[lsn][h]

(* What an open's buffer has of a sector is what is in the file, unless     *)
(* another open wrote it since.                                             *)
BuffersHold ==
  /\ held = [o \in Opens |-> held[o]] /\ missed = [o \in Opens |-> missed[o]]
  /\ \A o \in Opens, lsn \in Image!Lsn :
       Image!Slot(lsn) \in DOMAIN held[o] =>
         /\ Image!Slot(lsn) < Len(file) /\ held[o][Image!Slot(lsn)] \in SectorData
         /\ lsn \notin missed[o] => held[o][Image!Slot(lsn)] = file[Image!Slot(lsn) + 1]

ImageInv ==
  l.loop = "image" => ImageType /\ SlotsThere /\ GapEmpty /\ SlotsHold /\ BuffersHold

LEMMA SequenceIs ==
  ASSUME NEW k \in Nat, NEW S, NEW f \in [1 .. k -> S]
  PROVE  f \in Seq(S) /\ Len(f) = k
  OBVIOUS

LEMMA ZeroIs == Image!Zero \in SectorData /\ \A h \in Image!Half : Image!Zero[h] = 0
  BY DEF Image!Zero, SectorData

(* A sector's slot is not one that is no sector, and is its own.            *)
LEMMA SlotIs ==
  ASSUME t0 \in 1 .. Spt, NEW a \in Image!Lsn
  PROVE  /\ Image!Slot(a) \in Nat /\ Image!Slot(a) + 1 \notin (t0 + 1) .. Spt
         /\ \A b \in Image!Lsn : Image!Slot(a) = Image!Slot(b) => a = b
         /\ \A k \in Nat : Image!Slot(a) < k <=> a < Image!TotalOf(k)
  <1>1. Spt \in Nat \ {0} /\ a \in Nat /\ \A b \in Image!Lsn : b \in Nat
    BY DisksAre DEF Image!Lsn
  <1> QED
    BY <1>1 DEF Image!Slot, Image!Missing, Image!TotalOf

LEMMA TotalGrows ==
  ASSUME t0 \in 1 .. Spt, NEW j \in Nat, NEW k \in Nat, j <= k
  PROVE  Image!TotalOf(j) \in Nat /\ Image!TotalOf(j) <= Image!TotalOf(k)
  BY DisksAre DEF Image!Missing, Image!TotalOf

(* What a write to a sector past the end of what its open knows begins at:  *)
(* the end of the file.                                                     *)
LEMMA GrowsAtEnd ==
  ASSUME ImageType, SlotsThere, NEW o \in Opens, NEW lsn \in Image!Lsn,
         NEW p, p = Image!Refreshed(o, lsn)
  PROVE  /\ p.slots \in Int /\ p.total \in Int /\ p \in [slots : Int, total : Int]
         /\ p.slots <= Len(file) /\ p.total <= Image!TotalOf(Len(file))
         /\ lsn >= p.total => p.slots = Len(file)
  <1>1. Len(file) \in Nat /\ opens[o] \in [slots : Int, total : Int] /\ opens[o].slots <= Len(file)
        /\ opens[o].total <= Image!TotalOf(Len(file))
        /\ t0 \in 1 .. Spt /\ lsn \in Int /\ Spt \in Nat
    BY DisksAre DEF ImageType, SlotsThere, Image!Lsn
  <1>2. CASE lsn >= opens[o].total /\ Len(file) > opens[o].slots
    <2>1. p = [slots |-> Len(file), total |-> Image!TotalOf(Len(file))]
      BY <1>2 DEF Image!Refreshed, Image!SetSlots
    <2>2. Image!TotalOf(Len(file)) \in Int
      BY <1>1 DEF Image!TotalOf, Image!Missing
    <2> QED
      BY <1>1, <2>1, <2>2
  <1>3. CASE ~ (lsn >= opens[o].total /\ Len(file) > opens[o].slots)
    <2>1. p = opens[o]
      BY <1>3 DEF Image!Refreshed
    <2> QED
      BY <1>1, <1>3, <2>1
  <1> QED
    BY <1>2, <1>3

(* Growing the file changes nothing in it. *)
Grows(f, g) ==
  /\ g \in Seq(SectorData) /\ Len(g) >= Len(f)
  /\ \A i \in 1 .. Len(f) : g[i] = f[i]
  /\ \A i \in 1 .. Len(g) : i > Len(f) => g[i] = Image!Zero

LEMMA ExtendedGrows ==
  ASSUME ImageType, NEW k \in Nat
  PROVE  Grows(file, Image!Extended(Len(file), k)) /\ k <= Len(Image!Extended(Len(file), k))
  <1> DEFINE m == IF k <= Len(file) \/ k < Len(file) THEN Len(file) ELSE k
             g == Image!Extended(Len(file), k)
  <1>1. file \in Seq(SectorData) /\ Len(file) \in Nat /\ m \in Nat /\ m >= Len(file) /\ m >= k
    BY DEF ImageType
  <1>2. g = [i \in 1 .. m |-> IF i \in (Len(file) + 1) .. k \/ i > Len(file) THEN Image!Zero ELSE file[i]]
    BY DEF Image!Extended
  <1> HIDE DEF m, g
  <1>3. ASSUME NEW i \in 1 .. m
        PROVE  /\ i > Len(file) => g[i] = Image!Zero
               /\ i <= Len(file) => g[i] = file[i]
    BY <1>1, <1>2
  <1>4. g \in [1 .. m -> SectorData]
    <2>1. ASSUME NEW i \in 1 .. m
          PROVE  (IF i \in (Len(file) + 1) .. k \/ i > Len(file) THEN Image!Zero ELSE file[i]) \in SectorData
      <3>1. CASE i > Len(file)
        BY <3>1, ZeroIs
      <3>2. CASE ~ i > Len(file)
        <4>1. i \in 1 .. Len(file)
          BY <1>1, <3>2
        <4> QED
          BY <1>1, <3>2, <4>1
      <3> QED
        BY <3>1, <3>2
    <2> QED
      BY <1>2, <2>1
  <1>5. g \in Seq(SectorData) /\ Len(g) = m
    BY <1>1, <1>4, SequenceIs
  <1>6. \A i \in 1 .. Len(file) : g[i] = file[i]
    BY <1>1, <1>3
  <1>7. Grows(file, g)
    BY <1>1, <1>3, <1>5, <1>6 DEF Grows
  <1> QED
    BY <1>1, <1>5, <1>7 DEF g

(* And writing one sector changes that one. *)
Puts(f, slot, data, g) ==
  /\ g \in Seq(SectorData) /\ Len(g) >= Len(f) /\ slot < Len(g)
  /\ \A i \in 1 .. Len(f) : i # slot + 1 => g[i] = f[i]
  /\ \A i \in 1 .. Len(g) : i > Len(f) => i = slot + 1
  /\ g[slot + 1] = data

LEMMA PutIs ==
  ASSUME NEW f \in Seq(SectorData), NEW slot \in Nat, slot <= Len(f), NEW data \in SectorData
  PROVE  Puts(f, slot, data, Image!Put(f, slot, data))
  <1> DEFINE g == Image!Put(f, slot, data)
  <1> DEFINE m == IF slot < Len(f) THEN Len(f) ELSE slot + 1
  <1>1. Len(f) \in Nat /\ m \in Nat /\ m >= Len(f) /\ slot < m /\ m <= (IF slot < Len(f) THEN Len(f) ELSE Len(f) + 1)
    OBVIOUS
  <1>2. g = [i \in 1 .. m |-> IF i = slot + 1 THEN data ELSE IF i <= Len(f) THEN f[i] ELSE Image!Zero]
    BY DEF Image!Put
  <1> HIDE DEF m, g
  <1>3. g \in [1 .. m -> SectorData]
    BY <1>1, <1>2, ZeroIs
  <1>4. g \in Seq(SectorData) /\ Len(g) = m
    BY <1>1, <1>3, SequenceIs
  <1>5. slot + 1 \in 1 .. m
    BY <1>1
  <1>6. \A i \in 1 .. Len(f) : i # slot + 1 => g[i] = f[i]
    BY <1>1, <1>2
  <1>7. \A i \in 1 .. m : i > Len(f) => i = slot + 1
    BY <1>1 DEF m
  <1> QED
    BY <1>1, <1>2, <1>4, <1>5, <1>6, <1>7 DEF Puts, g

(* What is written of half a sector is the half, and the rest as it is in   *)
(* the file, if that was seen.                                              *)
Merges(o, p, lsn, halves) ==
  /\ Image!Merged(o, p, lsn, halves) \in SectorData
  /\ \A h \in halves : Image!Merged(o, p, lsn, halves)[h] = n + 1
  /\ Image!ReadSector(o, p, lsn).ec = "ok" /\ ~ Image!Stale(o, lsn) =>
       \A h \in Image!Half \ halves :
         Image!Merged(o, p, lsn, halves)[h] = file[Image!Slot(lsn) + 1][h]

LEMMA MergedIs ==
  ASSUME ImageType, BuffersHold, NEW o \in Opens, NEW p, NEW lsn \in Image!Lsn,
         NEW halves \in SUBSET Image!Half
  PROVE  Merges(o, p, lsn, halves)
  <1> DEFINE r == Image!ReadSector(o, p, lsn)
             rest == IF r.ec = "EOS_SECT" THEN Image!FF ELSE r.data
             m == Image!Merged(o, p, lsn, halves)
  <1>1. m = [h \in Image!Half |-> IF h \in halves THEN n + 1 ELSE rest[h]]
    BY DEF Image!Merged
  <1>2. PICK slot \in Nat : slot = Image!Slot(lsn)
    BY SlotIs DEF ImageType
  <1>3. slot < Len(file) => file[slot + 1] \in SectorData
    BY <1>2 DEF ImageType
  <1>4. Image!Buffered(o, lsn) =>
          /\ held[o][slot] \in SectorData
          /\ ~ Image!Stale(o, lsn) => held[o][slot] = file[slot + 1]
    BY <1>2 DEF BuffersHold, Image!Buffered, Image!Stale
  <1>5. /\ r = IF lsn >= p.total THEN [ec |-> "EOS_SECT", data |-> Image!Zero]
               ELSE IF Image!Buffered(o, lsn) THEN [ec |-> "ok", data |-> held[o][slot]]
               ELSE IF slot >= Len(file) THEN [ec |-> "EOS_READ", data |-> Image!Zero]
               ELSE [ec |-> "ok", data |-> file[slot + 1]]
        /\ Len(file) \in Nat
    BY <1>2 DEF Image!ReadSector, ImageType
  <1>6. rest \in SectorData
    <2>1. Image!FF \in SectorData
      BY DEF Image!FF, SectorData
    <2>2. r.data \in SectorData
      <3> HIDE DEF r
      <3> QED
        BY <1>2, <1>3, <1>4, <1>5, ZeroIs
    <2> QED
      BY <2>1, <2>2
  <1>7. r.ec = "ok" /\ ~ Image!Stale(o, lsn) => rest = file[slot + 1]
    <2>1. rest = IF r.ec = "EOS_SECT" THEN Image!FF ELSE r.data
      OBVIOUS
    <2> HIDE DEF r, rest
    <2> QED
      BY <1>4, <1>5, <2>1
  <1> HIDE DEF rest, r, m
  <1>8. m \in SectorData
    BY <1>1, <1>6 DEF SectorData, ImageType
  <1> QED
    BY <1>1, <1>2, <1>7, <1>8 DEF m, r, Merges

(* A write leaves all but its sector as it was, and grows the file by it    *)
(* and zeros.                                                               *)
LEMMA WriteChanges ==
  ASSUME ImageType, SlotsThere, BuffersHold, NEW o \in Opens, NEW lsn \in Image!Lsn,
         NEW halves \in SUBSET Image!Half, Image!Write(o, lsn, halves)
  PROVE  /\ file' \in Seq(SectorData) /\ Len(file') >= Len(file)
         /\ Image!Slot(lsn) < Len(file')
         /\ \A i \in 1 .. Len(file) : i # Image!Slot(lsn) + 1 => file'[i] = file[i]
         /\ \A i \in 1 .. Len(file') :
              i > Len(file) => i = Image!Slot(lsn) + 1 \/ file'[i] = Image!Zero
         /\ file'[Image!Slot(lsn) + 1] = Image!Merged(o, Image!Refreshed(o, lsn), lsn, halves)
  <1>1. PICK p : p = Image!Refreshed(o, lsn)
    OBVIOUS
  <1>2. PICK slot \in Nat : slot = Image!Slot(lsn)
    BY SlotIs DEF ImageType
  <1>3. PICK data \in SectorData : data = Image!Merged(o, p, lsn, halves)
    <2>1. Merges(o, p, lsn, halves)
      BY MergedIs
    <2> QED
      BY <2>1 DEF Merges
  <1>4. PICK grown : grown = IF lsn >= p.total THEN Image!Extended(p.slots, slot) ELSE file
    OBVIOUS
  <1>5. file' = Image!Put(grown, slot, data)
    BY <1>1, <1>2, <1>3, <1>4 DEF Image!Write
  <1>6. /\ p.total \in Int /\ p.total <= Image!TotalOf(Len(file))
        /\ lsn >= p.total => p.slots = Len(file)
    BY <1>1, GrowsAtEnd
  <1>7. file \in Seq(SectorData) /\ Len(file) \in Nat /\ t0 \in 1 .. Spt /\ lsn \in Int
    BY DisksAre DEF ImageType, Image!Lsn
  <1>8. Grows(file, grown) /\ slot <= Len(grown)
    <2>1. CASE lsn >= p.total
      BY <1>4, <1>6, <2>1, ExtendedGrows
    <2>2. CASE ~ lsn >= p.total
      <3>1. grown = file /\ Grows(file, file)
        BY <1>4, <1>7, <2>2 DEF Grows
      <3>2. Image!TotalOf(Len(file)) \in Nat
        BY <1>7, TotalGrows
      <3>3. lsn < Image!TotalOf(Len(file))
        BY <1>6, <1>7, <2>2, <3>2
      <3>4. slot < Len(file)
        BY <1>2, <1>7, <3>3, SlotIs
      <3> QED
        BY <1>7, <3>1, <3>4
    <2> QED
      BY <2>1, <2>2
  <1>9. /\ grown \in Seq(SectorData) /\ Len(grown) \in Nat /\ Len(grown) >= Len(file)
        /\ \A i \in 1 .. Len(file) : grown[i] = file[i]
        /\ \A i \in 1 .. Len(grown) : i > Len(file) => grown[i] = Image!Zero
    BY <1>8 DEF Grows
  <1>10. /\ file' \in Seq(SectorData) /\ Len(file') >= Len(grown) /\ slot < Len(file')
         /\ \A i \in 1 .. Len(grown) : i # slot + 1 => file'[i] = grown[i]
         /\ \A i \in 1 .. Len(file') : i > Len(grown) => i = slot + 1
         /\ file'[slot + 1] = data
    <2>1. Puts(grown, slot, data, Image!Put(grown, slot, data))
      BY <1>8, <1>9, PutIs
    <2> QED
      BY <1>5, <2>1 DEF Puts
  <1>11. \A i \in 1 .. Len(file) : i # slot + 1 => file'[i] = file[i]
    BY <1>7, <1>9, <1>10
  <1>12. ASSUME NEW i \in 1 .. Len(file'), i > Len(file) PROVE i = slot + 1 \/ file'[i] = Image!Zero
    <2>1. i \in Nat /\ i >= 1
      BY <1>10
    <2>2. CASE i <= Len(grown)
      <3>1. i \in 1 .. Len(grown)
        BY <1>9, <2>1, <2>2
      <3> QED
        BY <1>9, <1>10, <1>12, <3>1
    <2>3. CASE i > Len(grown)
      BY <1>10, <2>3
    <2> QED
      BY <1>9, <2>1, <2>2, <2>3
  <1>13. Len(file') >= Len(file)
    BY <1>7, <1>9, <1>10
  <1> QED
    BY <1>1, <1>2, <1>3, <1>10, <1>11, <1>12, <1>13

LEMMA FailedWriteGrows ==
  ASSUME ImageType, SlotsThere, NEW o \in Opens, NEW lsn \in Image!Lsn, Image!FailedWrite(o, lsn)
  PROVE  Grows(file, file') /\ \E p \in [slots : Int, total : Int] :
           /\ opens' = [opens EXCEPT ![o] = p]
           /\ p.slots <= Len(file') /\ p.total <= Image!TotalOf(Len(file))
  <1>1. PICK p : p = Image!Refreshed(o, lsn)
    OBVIOUS
  <1>2. PICK slot \in Nat : slot = Image!Slot(lsn)
    BY SlotIs DEF ImageType
  <1>3. PICK k \in IF lsn >= p.total /\ p.slots < slot THEN p.slots .. slot ELSE {slot} :
          IF lsn >= p.total
            THEN /\ file' = Image!Extended(p.slots, k)
                 /\ opens' = [opens EXCEPT ![o] = [p EXCEPT !.slots = IF @ < k THEN k ELSE @]]
            ELSE file' = file /\ opens' = [opens EXCEPT ![o] = p]
    BY <1>1, <1>2 DEF Image!FailedWrite
  <1>4. /\ p \in [slots : Int, total : Int]
        /\ p.slots <= Len(file) /\ p.total <= Image!TotalOf(Len(file))
        /\ lsn >= p.total => p.slots = Len(file)
    BY <1>1, GrowsAtEnd
  <1>5. file \in Seq(SectorData) /\ Len(file) \in Nat
    BY DEF ImageType
  <1>6. CASE lsn >= p.total
    <2>1. k \in Nat /\ p.slots = Len(file)
      BY <1>3, <1>4, <1>5, <1>6
    <2>2. file' = Image!Extended(Len(file), k)
      BY <1>3, <1>6, <2>1
    <2>3. Grows(file, file') /\ k <= Len(file')
      BY <2>1, <2>2, ExtendedGrows
    <2>4. PICK q : q = [p EXCEPT !.slots = IF @ < k THEN k ELSE @]
      OBVIOUS
    <2>5. q \in [slots : Int, total : Int] /\ q.total = p.total /\ q.slots \in {p.slots, k}
      BY <1>4, <2>1, <2>4
    <2>6. Len(file') \in Nat /\ Len(file') >= Len(file)
      BY <2>3 DEF Grows
    <2>7. q.slots <= Len(file') /\ q.total <= Image!TotalOf(Len(file))
      BY <1>4, <1>5, <2>1, <2>3, <2>5, <2>6
    <2>8. opens' = [opens EXCEPT ![o] = q]
      BY <1>3, <1>6, <2>4
    <2> QED
      BY <2>3, <2>5, <2>7, <2>8
  <1>7. CASE ~ lsn >= p.total
    <2>1. file' = file /\ opens' = [opens EXCEPT ![o] = p]
      BY <1>3, <1>7
    <2>2. Grows(file, file')
      BY <1>5, <2>1 DEF Grows
    <2> QED
      BY <1>4, <2>1, <2>2
  <1> QED
    BY <1>6, <1>7
-----------------------------------------------------------------------------
(* What an open reads into its buffer is what is in the file.               *)
FileHas(buffer) ==
  \A i \in DOMAIN buffer :
    i \in Nat /\ i < Len(file) /\ buffer[i] \in SectorData /\ buffer[i] = file[i + 1]

LEMMA FilledIs ==
  ASSUME ImageType, NEW slot \in Nat, NEW buffer \in Image!Filled(slot)
  PROVE  FileHas(buffer)
  <1>1. PICK from : buffer = [i \in (from .. (from + BufferSlots - 1)) \cap (0 .. (Len(file) - 1)) |->
                                file[i + 1]]
    BY DEF Image!Filled
  <1>2. file \in Seq(SectorData) /\ Len(file) \in Nat
    BY DEF ImageType
  <1>3. ASSUME NEW i \in DOMAIN buffer
        PROVE  i \in Nat /\ i < Len(file) /\ buffer[i] \in SectorData /\ buffer[i] = file[i + 1]
    <2>1. i \in 0 .. (Len(file) - 1) /\ buffer[i] = file[i + 1]
      BY <1>1, <1>3
    <2>2. i \in Nat /\ i < Len(file) /\ i + 1 \in 1 .. Len(file)
      BY <1>2, <2>1
    <2> QED
      BY <1>2, <2>1, <2>2
  <1> QED
    BY <1>3 DEF FileHas

(* An open whose buffer is as the file, or empty, has missed nothing.       *)
LEMMA BufferHolds ==
  ASSUME BuffersHold, NEW o \in Opens, NEW buffer, FileHas(buffer), t0' = t0, file' = file,
         held' = [held EXCEPT ![o] = buffer], missed' = [missed EXCEPT ![o] = {}]
  PROVE  BuffersHold'
  <1>1. /\ held = [q \in Opens |-> held[q]] /\ missed = [q \in Opens |-> missed[q]]
    BY DEF BuffersHold
  <1>2. /\ held' = [q \in Opens |-> held'[q]] /\ missed' = [q \in Opens |-> missed'[q]]
        /\ held'[o] = buffer
        /\ \A q \in Opens \ {o} : held'[q] = held[q] /\ missed'[q] = missed[q]
    BY <1>1
  <1>3. ASSUME NEW q \in Opens, NEW lsn \in Image!Lsn, Image!Slot(lsn) \in DOMAIN held'[q]
        PROVE  /\ Image!Slot(lsn) < Len(file) /\ held'[q][Image!Slot(lsn)] \in SectorData
               /\ lsn \notin missed'[q] => held'[q][Image!Slot(lsn)] = file[Image!Slot(lsn) + 1]
    <2>1. CASE q = o
      BY <1>2, <1>3, <2>1 DEF FileHas
    <2>2. CASE q # o
      <3>1. held'[q] = held[q] /\ missed'[q] = missed[q]
        BY <1>2, <2>2
      <3> QED
        BY <1>3, <3>1 DEF BuffersHold
    <2> QED
      BY <2>1, <2>2
  <1>4. \A lsn \in Image!Lsn : Image!Slot(lsn)' = Image!Slot(lsn)
    BY DEF Image!Slot, Image!Missing
  <1>5. Image!Lsn' = Image!Lsn /\ SectorData' = SectorData
    BY DEF Image!Lsn, SectorData, Image!Half
  <1> QED
    BY <1>2, <1>3, <1>4, <1>5 DEF BuffersHold

LEMMA NothingHolds == FileHas(<< >>)
  BY DEF FileHas

LEMMA ImageBegins ==
  Image!Init => ImageType /\ SlotsThere /\ GapEmpty /\ SlotsHold /\ BuffersHold
  <1> SUFFICES ASSUME Image!Init
               PROVE  ImageType /\ SlotsThere /\ GapEmpty /\ SlotsHold /\ BuffersHold
    OBVIOUS
  <1>1. /\ t0 \in 1 .. Spt /\ Spt \in Nat /\ DiskTotal \in Nat
        /\ opens = [o \in Opens |-> Image!Closed]
        /\ wrote = [lsn \in Image!Lsn |-> Image!Zero] /\ n = 0
    BY DisksAre DEF Image!Init
  <1>2. PICK k \in 1 .. (DiskTotal + Image!Missing) : file = [i \in 1 .. k |-> Image!Zero]
    BY DEF Image!Init
  <1>3. k \in Nat
    BY <1>1 DEF Image!Missing
  <1>4. file \in [1 .. k -> SectorData] /\ \A i \in 1 .. k : file[i] = Image!Zero
    BY <1>2, ZeroIs
  <1>5. file \in Seq(SectorData) /\ Len(file) = k
    BY <1>3, <1>4, SequenceIs
  <1>6. ImageType
    BY <1>1, <1>5 DEF ImageType, Image!Closed, Image!Zero
  <1>7. SlotsThere
    <2>1. Image!TotalOf(k) \in Nat
      BY <1>1, <1>3, TotalGrows
    <2>2. ASSUME NEW o \in Opens PROVE opens[o].slots = -1 /\ opens[o].total = -1
      BY <1>1 DEF Image!Closed
    <2> QED
      BY <1>3, <1>5, <2>1, <2>2 DEF SlotsThere
  <1>8. GapEmpty
    BY <1>4, <1>5 DEF GapEmpty
  <1>9. SlotsHold
    BY <1>1, ZeroIs DEF SlotsHold
  <1>10. BuffersHold
    BY DEF BuffersHold, Image!Init
  <1> QED
    BY <1>6, <1>7, <1>8, <1>9, <1>10

(* Opens that only look at the file leave it all as it is. *)
LEMMA LooksKeep ==
  ASSUME ImageType, SlotsThere, GapEmpty, SlotsHold, BuffersHold, NEW o \in Opens,
         Image!Open(o) \/ Image!Close(o) \/ \E lsn \in Image!Lsn : Image!Read(o, lsn)
  PROVE  ImageType' /\ SlotsThere' /\ GapEmpty' /\ SlotsHold' /\ BuffersHold'
  <1>1. UNCHANGED << t0, file, wrote, blind, n >>
    BY DEF Image!Open, Image!Close, Image!Read
  <1>2. Len(file) \in Nat /\ t0 \in 1 .. Spt
    BY DEF ImageType
  <1>3. Image!TotalOf(Len(file)) \in Nat
    BY <1>2, TotalGrows
  <1>4. PICK p \in [slots : Int, total : Int] :
          /\ opens' = [opens EXCEPT ![o] = p]
          /\ p.slots <= Len(file) /\ p.total <= Image!TotalOf(Len(file))
    <2>1. CASE Image!Open(o)
      <3>1. PICK p : p = [slots |-> Len(file), total |-> Image!TotalOf(Len(file))]
        OBVIOUS
      <3>2. /\ p \in [slots : Int, total : Int]
            /\ p.slots <= Len(file) /\ p.total <= Image!TotalOf(Len(file))
        BY <1>2, <1>3, <3>1
      <3> QED
        BY <2>1, <3>1, <3>2 DEF Image!Open, Image!SetSlots
    <2>2. CASE Image!Close(o)
      <3>1. PICK p : p = [slots |-> -1, total |-> -1]
        OBVIOUS
      <3>2. /\ p \in [slots : Int, total : Int]
            /\ p.slots <= Len(file) /\ p.total <= Image!TotalOf(Len(file))
        BY <1>2, <1>3, <3>1
      <3> QED
        BY <2>2, <3>1, <3>2 DEF Image!Close, Image!Closed
    <2>3. ASSUME NEW lsn \in Image!Lsn, Image!Read(o, lsn)
          PROVE  \E p \in [slots : Int, total : Int] :
                   /\ opens' = [opens EXCEPT ![o] = p]
                   /\ p.slots <= Len(file) /\ p.total <= Image!TotalOf(Len(file))
      <3>1. PICK p : p = Image!Refreshed(o, lsn)
        OBVIOUS
      <3>2. /\ p \in [slots : Int, total : Int]
            /\ p.slots <= Len(file) /\ p.total <= Image!TotalOf(Len(file))
        BY <3>1, GrowsAtEnd
      <3> QED
        BY <2>3, <3>1, <3>2 DEF Image!Read
    <2> QED
      BY <2>1, <2>2, <2>3
  <1>5. ImageType' /\ GapEmpty'
    BY <1>1, <1>4 DEF ImageType, GapEmpty
  <1>6. SlotsHold'
    BY <1>1 DEF SlotsHold, Image!Slot, Image!Missing
  <1>7. SlotsThere'
    <2>1. Image!TotalOf(Len(file))' = Image!TotalOf(Len(file))
      BY <1>1 DEF Image!TotalOf, Image!Missing
    <2>2. opens \in [Opens -> [slots : Int, total : Int]]
      BY DEF ImageType
    <2> QED
      BY <1>1, <1>4, <2>1, <2>2 DEF SlotsThere
  <1>8. BuffersHold'
    <2>1. ASSUME NEW slot \in Nat, Image!Fill(o, slot) PROVE BuffersHold'
      BY <1>1, <2>1, FilledIs, BufferHolds DEF Image!Fill
    <2>2. CASE Image!Open(o)
      BY <2>1, <2>2 DEF Image!Open
    <2>3. CASE Image!Close(o)
      BY <1>1, <2>3, NothingHolds, BufferHolds DEF Image!Close
    <2>4. ASSUME NEW lsn \in Image!Lsn, Image!Read(o, lsn) PROVE BuffersHold'
      <3>1. CASE UNCHANGED << held, missed >>
        BY <1>1, <3>1 DEF BuffersHold, Image!Slot, Image!Missing
      <3>2. CASE ~ UNCHANGED << held, missed >>
        <4>1. Image!Fill(o, IF lsn < Image!Refreshed(o, lsn).total THEN Image!Slot(lsn) ELSE Len(file))
          BY <2>4, <3>2 DEF Image!Read
        <4>2. Image!Slot(lsn) \in Nat
          BY <1>2, SlotIs
        <4> QED
          BY <1>2, <2>1, <4>1, <4>2
      <3> QED
        BY <3>1, <3>2
    <2> QED
      BY <2>2, <2>3, <2>4
  <1> QED
    BY <1>5, <1>6, <1>7, <1>8

(* Opens keep to what is in the file when it grows. *)
LEMMA SlotsStayThere ==
  ASSUME ImageType, SlotsThere, NEW o \in Opens, NEW p \in [slots : Int, total : Int],
         t0' = t0, Len(file') \in Nat, Len(file') >= Len(file),
         opens' = [opens EXCEPT ![o] = p],
         p.slots <= Len(file') /\ p.total <= Image!TotalOf(Len(file'))
  PROVE  SlotsThere' /\ opens' \in [Opens -> [slots : Int, total : Int]]
  <1>1. Len(file) \in Nat /\ t0 \in 1 .. Spt /\ opens \in [Opens -> [slots : Int, total : Int]]
    BY DEF ImageType
  <1>2. /\ Image!TotalOf(Len(file)) \in Nat /\ Image!TotalOf(Len(file')) \in Nat
        /\ Image!TotalOf(Len(file)) <= Image!TotalOf(Len(file'))
    BY <1>1, TotalGrows
  <1>3. Image!TotalOf(Len(file))' = Image!TotalOf(Len(file'))
    BY DEF Image!TotalOf, Image!Missing
  <1>4. ASSUME NEW q \in Opens
        PROVE  opens'[q].slots <= Len(file') /\ opens'[q].total <= Image!TotalOf(Len(file'))
    <2>1. CASE q = o
      BY <1>1, <2>1
    <2>2. CASE q # o
      <3>1. opens'[q] = opens[q] /\ opens[q].slots \in Int /\ opens[q].total \in Int
        BY <1>1, <2>2
      <3>2. opens[q].slots <= Len(file) /\ opens[q].total <= Image!TotalOf(Len(file))
        BY DEF SlotsThere
      <3> QED
        BY <1>1, <1>2, <3>1, <3>2
    <2> QED
      BY <2>1, <2>2
  <1> QED
    BY <1>1, <1>3, <1>4 DEF SlotsThere
LEMMA WriteKeepsSlots ==
  ASSUME ImageType, SlotsThere, BuffersHold, NEW o \in Opens, NEW lsn \in Image!Lsn,
         NEW halves \in SUBSET Image!Half, Image!Write(o, lsn, halves)
  PROVE  SlotsThere' /\ opens' \in [Opens -> [slots : Int, total : Int]]
  <1>1. PICK p : p = Image!Refreshed(o, lsn)
    OBVIOUS
  <1>2. /\ p \in [slots : Int, total : Int] /\ p.slots \in Int /\ p.total \in Int
        /\ p.slots <= Len(file) /\ p.total <= Image!TotalOf(Len(file))
    BY <1>1, GrowsAtEnd
  <1>3. /\ file' \in Seq(SectorData) /\ Len(file') >= Len(file) /\ Image!Slot(lsn) < Len(file')
    BY WriteChanges
  <1>4. /\ Len(file) \in Nat /\ Len(file') \in Nat /\ t0 \in 1 .. Spt /\ lsn \in Int
        /\ Image!Slot(lsn) \in Nat /\ t0' = t0
    BY <1>3, SlotIs, DisksAre DEF ImageType, Image!Lsn, Image!Write
  <1>5. /\ Image!TotalOf(Len(file)) \in Nat /\ Image!TotalOf(Len(file')) \in Nat
        /\ Image!TotalOf(Len(file)) <= Image!TotalOf(Len(file'))
    BY <1>3, <1>4, TotalGrows
  <1>6. PICK q : q = IF lsn >= p.total THEN [slots |-> Image!Slot(lsn) + 1, total |-> lsn + 1]
                     ELSE p
    OBVIOUS
  <1>7. opens' = [opens EXCEPT ![o] = q]
    BY <1>1, <1>6 DEF Image!Write
  <1>8. /\ q \in [slots : Int, total : Int]
        /\ q.slots <= Len(file') /\ q.total <= Image!TotalOf(Len(file'))
    <2>1. CASE lsn >= p.total
      <3>1. q = [slots |-> Image!Slot(lsn) + 1, total |-> lsn + 1]
        BY <1>6, <2>1
      <3>2. lsn < Image!TotalOf(Len(file'))
        BY <1>3, <1>4, SlotIs
      <3> QED
        BY <1>3, <1>4, <1>5, <3>1, <3>2
    <2>2. CASE ~ lsn >= p.total
      BY <1>2, <1>3, <1>4, <1>5, <1>6, <2>2
    <2> QED
      BY <2>1, <2>2
  <1> QED
    BY <1>3, <1>4, <1>7, <1>8, SlotsStayThere

(* What is written to its slot is what was written, and no other sector     *)
(* is.                                                                      *)
LEMMA WriteHolds ==
  ASSUME ImageType, SlotsThere, SlotsHold, BuffersHold, NEW o \in Opens, NEW lsn \in Image!Lsn,
         NEW halves \in SUBSET Image!Half, Image!Write(o, lsn, halves)
  PROVE  SlotsHold' /\ wrote' \in [Image!Lsn -> [Image!Half -> Nat]] /\ n' \in Nat
  <1>1. PICK p : p = Image!Refreshed(o, lsn)
    OBVIOUS
  <1>2. /\ n' = n + 1 /\ t0' = t0
        /\ halves = Image!Half \/ Image!ReadSector(o, p, lsn).ec # "EOS_READ"
        /\ wrote' = [wrote EXCEPT ![lsn] = [h \in Image!Half |-> IF h \in halves THEN n + 1 ELSE @[h]]]
        /\ blind' = IF Image!WritesBlind(o, p, lsn, halves) THEN blind \cup {lsn}
                    ELSE IF halves = Image!Half THEN blind \ {lsn} ELSE blind
    BY <1>1 DEF Image!Write
  <1>3. /\ n \in Nat /\ wrote \in [Image!Lsn -> [Image!Half -> Nat]] /\ t0 \in 1 .. Spt
        /\ Len(file) \in Nat
    BY DEF ImageType
  <1>4. PICK slot \in Nat : slot = Image!Slot(lsn)
    BY <1>3, SlotIs
  <1>5. /\ file' \in Seq(SectorData) /\ Len(file') >= Len(file) /\ slot < Len(file')
        /\ \A i \in 1 .. Len(file) : i # slot + 1 => file'[i] = file[i]
        /\ file'[slot + 1] = Image!Merged(o, p, lsn, halves)
    BY <1>1, <1>4, WriteChanges
  <1>6. /\ \A h \in halves : Image!Merged(o, p, lsn, halves)[h] = n + 1
        /\ Image!ReadSector(o, p, lsn).ec = "ok" /\ ~ Image!Stale(o, lsn) =>
             \A h \in Image!Half \ halves : Image!Merged(o, p, lsn, halves)[h] = file[slot + 1][h]
    <2>1. Merges(o, p, lsn, halves)
      BY MergedIs
    <2> QED
      BY <1>4, <2>1 DEF Merges
  <1>7. /\ wrote' \in [Image!Lsn -> [Image!Half -> Nat]]
        /\ \A h \in Image!Half : wrote'[lsn][h] = IF h \in halves THEN n + 1 ELSE wrote[lsn][h]
        /\ \A a \in Image!Lsn : a # lsn => wrote'[a] = wrote[a]
    BY <1>2, <1>3
  <1>8. ASSUME NEW a \in Image!Lsn, NEW h \in Image!Half, wrote'[a][h] # 0
        PROVE  /\ Image!Slot(a) < Len(file')
               /\ a \notin blind' => file'[Image!Slot(a) + 1][h] = wrote'[a][h]
    <2>1. CASE a # lsn
      <3>1. wrote'[a][h] = wrote[a][h]
        BY <1>7, <2>1
      <3>2. /\ Image!Slot(a) < Len(file)
            /\ a \notin blind => file[Image!Slot(a) + 1][h] = wrote[a][h]
        BY <1>8, <3>1 DEF SlotsHold
      <3>3. Image!Slot(a) \in Nat /\ Image!Slot(a) # slot
        BY <1>3, <1>4, <2>1, SlotIs
      <3>4. file'[Image!Slot(a) + 1] = file[Image!Slot(a) + 1] /\ Image!Slot(a) < Len(file')
        <4>1. PICK slotOfA \in Nat : slotOfA = Image!Slot(a)
          BY <3>3
        <4>2. slotOfA < Len(file) /\ slotOfA # slot /\ slotOfA + 1 \in 1 .. Len(file) /\ Len(file') \in Nat
          BY <1>3, <1>5, <3>2, <3>3, <4>1
        <4>3. file'[slotOfA + 1] = file[slotOfA + 1]
          BY <1>4, <1>5, <4>1, <4>2
        <4> QED
          BY <1>3, <1>5, <4>1, <4>2, <4>3
      <3>5. a \notin blind' => a \notin blind
        BY <1>2, <2>1
      <3> QED
        BY <3>1, <3>2, <3>4, <3>5
    <2>2. CASE a = lsn /\ h \in halves
      BY <1>4, <1>5, <1>6, <1>7, <2>2
    <2>3. CASE a = lsn /\ h \notin halves
      <3>1. wrote[lsn][h] # 0 /\ wrote'[lsn][h] = wrote[lsn][h]
        BY <1>7, <1>8, <2>3
      <3>2. /\ slot < Len(file)
            /\ lsn \notin blind => file[slot + 1][h] = wrote[lsn][h]
        BY <1>4, <3>1 DEF SlotsHold
      <3>3. ASSUME lsn \notin blind' PROVE file'[slot + 1][h] = wrote'[lsn][h]
        <4>1. halves # Image!Half /\ ~ Image!WritesBlind(o, p, lsn, halves) /\ lsn \notin blind
          BY <1>2, <2>3, <3>3
        <4>2. ~ lsn >= p.total /\ ~ Image!Stale(o, lsn)
          BY <1>4, <3>2, <4>1 DEF Image!WritesBlind
        <4>3. Image!ReadSector(o, p, lsn).ec = "ok"
          BY <1>2, <4>1, <4>2 DEF Image!ReadSector
        <4>4. Image!Merged(o, p, lsn, halves)[h] = file[slot + 1][h]
          BY <1>6, <2>3, <4>2, <4>3
        <4> QED
          BY <1>5, <3>1, <3>2, <4>1, <4>4
      <3> QED
        BY <1>4, <1>5, <2>3, <3>3
    <2> QED
      BY <2>1, <2>2, <2>3
  <1>9. \A a \in Image!Lsn : Image!Slot(a)' = Image!Slot(a)
    BY <1>2 DEF Image!Slot, Image!Missing
  <1>10. SlotsHold'
    BY <1>8, <1>9 DEF SlotsHold, Image!Lsn, Image!Half
  <1> QED
    BY <1>2, <1>3, <1>7, <1>10

(* A write empties the buffer of its open, and others miss it if they have  *)
(* the sector.                                                              *)
LEMMA WriteOvertakes ==
  ASSUME ImageType, SlotsThere, BuffersHold, NEW o \in Opens, NEW lsn \in Image!Lsn,
         NEW halves \in SUBSET Image!Half, Image!Write(o, lsn, halves)
  PROVE  BuffersHold'
  <1>1. t0' = t0 /\ t0 \in 1 .. Spt /\ Len(file) \in Nat
    BY DEF Image!Write, ImageType
  <1>2. /\ held' = [held EXCEPT ![o] = << >>]
        /\ missed' = [q \in Opens |->
             IF q = o THEN {}
             ELSE IF Image!Slot(lsn) \in DOMAIN held[q] THEN missed[q] \cup {lsn} ELSE missed[q]]
    BY DEF Image!Write, Image!Overtakes
  <1>3. held = [q \in Opens |-> held[q]] /\ missed = [q \in Opens |-> missed[q]]
    BY DEF BuffersHold
  <1>4. /\ held' = [q \in Opens |-> held'[q]] /\ missed' = [q \in Opens |-> missed'[q]]
        /\ held'[o] = << >>
        /\ \A q \in Opens \ {o} : held'[q] = held[q]
    BY <1>2, <1>3
  <1>5. /\ file' \in Seq(SectorData) /\ Len(file') >= Len(file)
        /\ \A i \in 1 .. Len(file) : i # Image!Slot(lsn) + 1 => file'[i] = file[i]
    BY WriteChanges
  <1>6. ASSUME NEW q \in Opens, NEW a \in Image!Lsn, Image!Slot(a) \in DOMAIN held'[q]
        PROVE  /\ Image!Slot(a) < Len(file') /\ held'[q][Image!Slot(a)] \in SectorData
               /\ a \notin missed'[q] => held'[q][Image!Slot(a)] = file'[Image!Slot(a) + 1]
    <2>1. q # o
      BY <1>4, <1>6
    <2>2. held'[q] = held[q] /\ Image!Slot(a) \in DOMAIN held[q]
      BY <1>4, <1>6, <2>1
    <2>3. /\ Image!Slot(a) < Len(file) /\ held[q][Image!Slot(a)] \in SectorData
          /\ a \notin missed[q] => held[q][Image!Slot(a)] = file[Image!Slot(a) + 1]
      BY <2>2 DEF BuffersHold
    <2>4. Image!Slot(a) \in Nat /\ Image!Slot(lsn) \in Nat /\ Len(file') \in Nat
      BY <1>1, <1>5, SlotIs
    <2>5. ASSUME a \notin missed'[q] PROVE held[q][Image!Slot(a)] = file'[Image!Slot(a) + 1]
      <3>1. a \notin missed[q] /\ (Image!Slot(lsn) \in DOMAIN held[q] => a # lsn)
        BY <1>2, <2>1, <2>5
      <3>2. a # lsn
        BY <2>2, <3>1
      <3>3. Image!Slot(a) # Image!Slot(lsn)
        BY <1>1, <3>2, SlotIs
      <3>4. file'[Image!Slot(a) + 1] = file[Image!Slot(a) + 1]
        BY <1>1, <1>5, <2>3, <2>4, <3>3
      <3> QED
        BY <2>3, <3>1, <3>4
    <2> QED
      BY <1>1, <1>5, <2>2, <2>3, <2>4, <2>5
  <1>7. \A a \in Image!Lsn : Image!Slot(a)' = Image!Slot(a)
    BY <1>1 DEF Image!Slot, Image!Missing
  <1>8. Image!Lsn' = Image!Lsn /\ SectorData' = SectorData
    BY DEF Image!Lsn, SectorData, Image!Half
  <1> QED
    BY <1>4, <1>6, <1>7, <1>8 DEF BuffersHold

LEMMA WriteKeeps ==
  ASSUME ImageType, SlotsThere, GapEmpty, SlotsHold, BuffersHold, NEW o \in Opens,
         NEW lsn \in Image!Lsn, NEW halves \in SUBSET Image!Half, Image!Write(o, lsn, halves)
  PROVE  ImageType' /\ SlotsThere' /\ GapEmpty' /\ SlotsHold' /\ BuffersHold'
  <1>1. t0' = t0 /\ t0 \in 1 .. Spt /\ Len(file) \in Nat
    BY DEF Image!Write, ImageType
  <1>2. /\ file' \in Seq(SectorData) /\ Len(file') >= Len(file)
        /\ \A i \in 1 .. Len(file) : i # Image!Slot(lsn) + 1 => file'[i] = file[i]
        /\ \A i \in 1 .. Len(file') :
             i > Len(file) => i = Image!Slot(lsn) + 1 \/ file'[i] = Image!Zero
    BY WriteChanges
  <1>3. ImageType' /\ SlotsThere' /\ SlotsHold'
    BY <1>1, <1>2, WriteKeepsSlots, WriteHolds DEF ImageType
  <1>4. ASSUME NEW i \in 1 .. Len(file'), i \in (t0 + 1) .. Spt PROVE file'[i] = Image!Zero
    <2>1. i # Image!Slot(lsn) + 1
      BY <1>1, <1>4, SlotIs
    <2>2. CASE i <= Len(file)
      <3>1. i \in 1 .. Len(file)
        BY <1>1, <1>2, <2>2
      <3> QED
        BY <1>2, <1>4, <2>1, <3>1 DEF GapEmpty
    <2>3. CASE i > Len(file)
      BY <1>2, <2>1, <2>3
    <2> QED
      BY <1>1, <1>2, <2>2, <2>3
  <1>5. GapEmpty'
    BY <1>1, <1>4 DEF GapEmpty, Image!Zero, Image!Half
  <1>6. BuffersHold'
    BY WriteOvertakes
  <1> QED
    BY <1>3, <1>5, <1>6

LEMMA FailedWriteKeeps ==
  ASSUME ImageType, SlotsThere, GapEmpty, SlotsHold, BuffersHold, NEW o \in Opens,
         NEW lsn \in Image!Lsn, Image!FailedWrite(o, lsn)
  PROVE  ImageType' /\ SlotsThere' /\ GapEmpty' /\ SlotsHold' /\ BuffersHold'
  <1>1. /\ t0' = t0 /\ wrote' = wrote /\ blind' = blind /\ n' = n + 1
        /\ t0 \in 1 .. Spt /\ Len(file) \in Nat /\ n \in Nat
    BY DEF Image!FailedWrite, ImageType
  <1>2. Grows(file, file')
    BY FailedWriteGrows
  <1>3. /\ file' \in Seq(SectorData) /\ Len(file') >= Len(file) /\ Len(file') \in Nat
        /\ \A i \in 1 .. Len(file) : file'[i] = file[i]
        /\ \A i \in 1 .. Len(file') : i > Len(file) => file'[i] = Image!Zero
    BY <1>2 DEF Grows
  <1>4. PICK p \in [slots : Int, total : Int] :
          /\ opens' = [opens EXCEPT ![o] = p]
          /\ p.slots <= Len(file') /\ p.total <= Image!TotalOf(Len(file))
    BY FailedWriteGrows
  <1>5. p.total <= Image!TotalOf(Len(file'))
    <2>1. /\ Image!TotalOf(Len(file)) \in Nat /\ Image!TotalOf(Len(file')) \in Nat
          /\ Image!TotalOf(Len(file)) <= Image!TotalOf(Len(file'))
      BY <1>1, <1>3, TotalGrows
    <2> QED
      BY <1>4, <2>1
  <1>6. SlotsThere' /\ opens' \in [Opens -> [slots : Int, total : Int]]
    BY <1>1, <1>3, <1>4, <1>5, SlotsStayThere
  <1>7. ImageType'
    BY <1>1, <1>3, <1>6 DEF ImageType
  <1>8. GapEmpty'
    <2>1. ASSUME NEW i \in 1 .. Len(file'), i \in (t0 + 1) .. Spt PROVE file'[i] = Image!Zero
      <3>1. CASE i <= Len(file)
        <4>1. i \in 1 .. Len(file)
          BY <1>1, <1>3, <3>1
        <4> QED
          BY <1>3, <2>1, <4>1 DEF GapEmpty
      <3> QED
        BY <1>1, <1>3, <3>1
    <2> QED
      BY <1>1, <2>1 DEF GapEmpty, Image!Zero, Image!Half
  <1>9. SlotsHold'
    <2>1. ASSUME NEW a \in Image!Lsn, NEW h \in Image!Half, wrote[a][h] # 0
          PROVE  /\ Image!Slot(a) < Len(file')
                 /\ a \notin blind => file'[Image!Slot(a) + 1][h] = wrote[a][h]
      <3>1. /\ Image!Slot(a) < Len(file)
            /\ a \notin blind => file[Image!Slot(a) + 1][h] = wrote[a][h]
        BY <2>1 DEF SlotsHold
      <3>2. Image!Slot(a) \in Nat
        BY <1>1, SlotIs
      <3>3. file'[Image!Slot(a) + 1] = file[Image!Slot(a) + 1] /\ Image!Slot(a) < Len(file')
        BY <1>1, <1>3, <3>1, <3>2
      <3> QED
        BY <3>1, <3>3
    <2>2. \A a \in Image!Lsn : Image!Slot(a)' = Image!Slot(a)
      BY <1>1 DEF Image!Slot, Image!Missing
    <2> QED
      BY <1>1, <2>1, <2>2 DEF SlotsHold, Image!Lsn, Image!Half
  <1>10. BuffersHold'
    <2>1. held = [q \in Opens |-> held[q]] /\ missed = [q \in Opens |-> missed[q]]
      BY DEF BuffersHold
    <2>2. held' = [held EXCEPT ![o] = << >>] /\ missed' = [missed EXCEPT ![o] = {}]
      BY DEF Image!FailedWrite
    <2>3. /\ held' = [q \in Opens |-> held'[q]] /\ missed' = [q \in Opens |-> missed'[q]]
          /\ held'[o] = << >>
          /\ \A q \in Opens \ {o} : held'[q] = held[q] /\ missed'[q] = missed[q]
      BY <2>1, <2>2
    <2>4. ASSUME NEW q \in Opens, NEW a \in Image!Lsn, Image!Slot(a) \in DOMAIN held'[q]
          PROVE  /\ Image!Slot(a) < Len(file') /\ held'[q][Image!Slot(a)] \in SectorData
                 /\ a \notin missed'[q] => held'[q][Image!Slot(a)] = file'[Image!Slot(a) + 1]
      <3>1. q # o
        BY <2>3, <2>4
      <3>2. held'[q] = held[q] /\ missed'[q] = missed[q] /\ Image!Slot(a) \in DOMAIN held[q]
        BY <2>3, <2>4, <3>1
      <3>3. /\ Image!Slot(a) < Len(file) /\ held[q][Image!Slot(a)] \in SectorData
            /\ a \notin missed[q] => held[q][Image!Slot(a)] = file[Image!Slot(a) + 1]
        BY <3>2 DEF BuffersHold
      <3>4. Image!Slot(a) \in Nat
        BY <1>1, SlotIs
      <3>5. file'[Image!Slot(a) + 1] = file[Image!Slot(a) + 1] /\ Image!Slot(a) < Len(file')
        BY <1>1, <1>3, <3>3, <3>4
      <3> QED
        BY <3>2, <3>3, <3>5
    <2>5. \A a \in Image!Lsn : Image!Slot(a)' = Image!Slot(a)
      BY <1>1 DEF Image!Slot, Image!Missing
    <2>6. Image!Lsn' = Image!Lsn /\ SectorData' = SectorData
      BY DEF Image!Lsn, SectorData, Image!Half
    <2> QED
      BY <2>3, <2>4, <2>5, <2>6 DEF BuffersHold
  <1> QED
    BY <1>6, <1>7, <1>8, <1>9, <1>10

LEMMA ImageStays ==
  ImageType /\ SlotsThere /\ GapEmpty /\ SlotsHold /\ BuffersHold /\ Image!Next
    => ImageType' /\ SlotsThere' /\ GapEmpty' /\ SlotsHold' /\ BuffersHold'
  <1> SUFFICES ASSUME ImageType, SlotsThere, GapEmpty, SlotsHold, BuffersHold, Image!Next
               PROVE  ImageType' /\ SlotsThere' /\ GapEmpty' /\ SlotsHold' /\ BuffersHold'
    OBVIOUS
  <1>1. PICK o \in Opens :
          \/ Image!Open(o) \/ Image!Close(o)
          \/ \E lsn \in Image!Lsn : Image!Read(o, lsn)
          \/ \E lsn \in Image!Lsn \ {0} :
               \/ \E halves \in { {"low"}, {"high"}, Image!Half } : Image!Write(o, lsn, halves)
               \/ Image!FailedWrite(o, lsn)
    BY DEF Image!Next
  <1>2. CASE Image!Open(o) \/ Image!Close(o) \/ \E lsn \in Image!Lsn : Image!Read(o, lsn)
    BY <1>2, LooksKeep
  <1>3. ASSUME NEW lsn \in Image!Lsn, NEW halves \in { {"low"}, {"high"}, Image!Half },
               Image!Write(o, lsn, halves)
        PROVE  ImageType' /\ SlotsThere' /\ GapEmpty' /\ SlotsHold' /\ BuffersHold'
    <2>1. halves \in SUBSET Image!Half
      BY DEF Image!Half
    <2> QED
      BY <1>3, <2>1, WriteKeeps
  <1>4. ASSUME NEW lsn \in Image!Lsn, Image!FailedWrite(o, lsn)
        PROVE  ImageType' /\ SlotsThere' /\ GapEmpty' /\ SlotsHold' /\ BuffersHold'
    BY <1>4, FailedWriteKeeps
  <1> QED
    BY <1>1, <1>2, <1>3, <1>4

LEMMA HeldIsRead ==
  ImageType /\ SlotsThere /\ SlotsHold /\ BuffersHold => Image!WrittenIsRead
  <1> SUFFICES ASSUME ImageType, SlotsThere, SlotsHold, BuffersHold,
                      NEW o \in Opens, NEW lsn \in Image!Lsn,
                      opens[o] # Image!Closed, ~ Image!Behind(o), ~ Image!Stale(o, lsn),
                      lsn \notin blind
               PROVE  LET r == Image!ReadSector(o, Image!Refreshed(o, lsn), lsn) IN
                      /\ wrote[lsn] # Image!Zero => r.ec = "ok"
                      /\ \A h \in Image!Half : wrote[lsn][h] # 0 => r.data[h] = wrote[lsn][h]
    BY DEF Image!WrittenIsRead
  <1> DEFINE p == Image!Refreshed(o, lsn)
             r == Image!ReadSector(o, p, lsn)
  <1>1. /\ t0 \in 1 .. Spt /\ Len(file) \in Nat /\ lsn \in Int
        /\ opens[o] \in [slots : Int, total : Int]
        /\ wrote[lsn] \in [Image!Half -> Nat]
    BY DisksAre DEF ImageType, Image!Lsn
  <1>2. opens[o].slots <= Len(file)
    BY DEF SlotsThere
  <1>3. opens[o].total >= Image!TotalOf(opens[o].slots)
    <2>1. Image!TotalOf(opens[o].slots) \in Int
      BY <1>1, DisksAre DEF Image!TotalOf, Image!Missing
    <2> QED
      BY <1>1, <2>1 DEF Image!Behind
  <1>4. ASSUME NEW h \in Image!Half, wrote[lsn][h] # 0
        PROVE  r.ec = "ok" /\ r.data[h] = wrote[lsn][h]
    <2>1. Image!Slot(lsn) < Len(file) /\ file[Image!Slot(lsn) + 1][h] = wrote[lsn][h]
      BY <1>4 DEF SlotsHold
    <2>2. Image!Slot(lsn) \in Nat /\ lsn < Image!TotalOf(Len(file))
          /\ Image!TotalOf(Len(file)) \in Nat
      BY <1>1, <2>1, SlotIs, TotalGrows
    <2>3. ~ lsn >= p.total
      <3>1. CASE lsn >= opens[o].total /\ Len(file) > opens[o].slots
        <4>1. p = [slots |-> Len(file), total |-> Image!TotalOf(Len(file))]
          BY <3>1 DEF Image!Refreshed, Image!SetSlots
        <4> QED
          BY <1>1, <2>2, <4>1
      <3>2. CASE ~ (lsn >= opens[o].total /\ Len(file) > opens[o].slots)
        <4>1. p = opens[o]
          BY <3>2 DEF Image!Refreshed
        <4>2. CASE ~ lsn >= opens[o].total
          BY <4>1, <4>2
        <4>3. CASE ~ Len(file) > opens[o].slots
          <5>1. opens[o].slots = Len(file)
            BY <1>1, <1>2, <4>3
          <5> QED
            BY <1>1, <1>3, <2>2, <4>1, <5>1
        <4> QED
          BY <3>2, <4>2, <4>3
      <3> QED
        BY <3>1, <3>2
    <2>4. ~ Image!Slot(lsn) >= Len(file)
      BY <1>1, <2>1, <2>2
    <2>5. r = [ec |-> "ok", data |-> file[Image!Slot(lsn) + 1]]
      <3>1. Image!Buffered(o, lsn) => held[o][Image!Slot(lsn)] = file[Image!Slot(lsn) + 1]
        BY DEF BuffersHold, Image!Buffered, Image!Stale
      <3> QED
        BY <2>3, <2>4, <3>1 DEF Image!ReadSector
    <2> QED
      BY <2>1, <2>5
  <1>5. wrote[lsn] # Image!Zero => \E h \in Image!Half : wrote[lsn][h] # 0
    BY <1>1 DEF Image!Zero
  <1> QED
    BY <1>4, <1>5

LEMMA StepChangesOne ==
  ImageType /\ SlotsThere /\ GapEmpty /\ SlotsHold /\ BuffersHold /\ Image!Next
    => Image!ChangesOneSector
  <1> SUFFICES ASSUME ImageType, SlotsThere, GapEmpty, SlotsHold, BuffersHold, Image!Next
               PROVE  Image!ChangesOneSector
    OBVIOUS
  <1>1. t0' = t0 /\ Len(file) \in Nat /\ DOMAIN file = 1 .. Len(file)
    BY DEF ImageType, Image!Next, Image!Open, Image!Close, Image!Read, Image!Write,
           Image!FailedWrite
  <1>2. ImageType' /\ GapEmpty'
    BY ImageStays
  <1>3. DOMAIN file' = 1 .. Len(file')
    BY <1>2 DEF ImageType
  <1>4. \A i \in DOMAIN file' : i \in (t0 + 1) .. Spt => file'[i] = Image!Zero
    <2>1. Image!Zero' = Image!Zero
      BY DEF Image!Zero, Image!Half
    <2> QED
      BY <1>1, <1>2, <1>3, <2>1 DEF GapEmpty
  <1>5. /\ Len(file') >= Len(file)
        /\ \A i, j \in DOMAIN file : file'[i] # file[i] /\ file'[j] # file[j] => i = j
    <2>1. PICK o \in Opens :
            \/ Image!Open(o) \/ Image!Close(o)
            \/ \E lsn \in Image!Lsn : Image!Read(o, lsn)
            \/ \E lsn \in Image!Lsn \ {0} :
                 \/ \E halves \in { {"low"}, {"high"}, Image!Half } : Image!Write(o, lsn, halves)
                 \/ Image!FailedWrite(o, lsn)
      BY DEF Image!Next
    <2>2. CASE file' = file
      BY <1>1, <2>2
    <2>3. ASSUME NEW lsn \in Image!Lsn, NEW halves \in { {"low"}, {"high"}, Image!Half },
                 Image!Write(o, lsn, halves)
          PROVE  /\ Len(file') >= Len(file)
                 /\ \A i, j \in DOMAIN file : file'[i] # file[i] /\ file'[j] # file[j] => i = j
      <3>1. halves \in SUBSET Image!Half
        BY DEF Image!Half
      <3>2. /\ Len(file') >= Len(file)
            /\ \A i \in 1 .. Len(file) : i # Image!Slot(lsn) + 1 => file'[i] = file[i]
        BY <2>3, <3>1, WriteChanges
      <3> QED
        BY <1>1, <3>2
    <2>4. ASSUME NEW lsn \in Image!Lsn, Image!FailedWrite(o, lsn)
          PROVE  /\ Len(file') >= Len(file)
                 /\ \A i, j \in DOMAIN file : file'[i] # file[i] /\ file'[j] # file[j] => i = j
      <3>1. Grows(file, file')
        BY <2>4, FailedWriteGrows
      <3> QED
        BY <1>1, <3>1 DEF Grows
    <2>5. Image!Open(o) \/ Image!Close(o) \/ (\E lsn \in Image!Lsn : Image!Read(o, lsn))
            => file' = file
      BY DEF Image!Open, Image!Close, Image!Read
    <2> QED
      BY <2>1, <2>2, <2>3, <2>4, <2>5
  <1> QED
    BY <1>4, <1>5 DEF Image!ChangesOneSector

LEMMA ImageInvHolds == Spec => [](HasLoop /\ ImageInv)
  <1>1. Init => HasLoop /\ ImageInv
    <2> SUFFICES ASSUME Init PROVE ImageInv
      BY LoopBegins DEF Init
    <2>1. CASE Image!Init
      BY <2>1, ImageBegins DEF ImageInv
    <2>2. CASE l.loop # "image"
      BY <2>2 DEF ImageInv
    <2> QED
      BY <2>1, <2>2, LoopBegins DEF Init
  <1>2. HasLoop /\ ImageInv /\ [Next]_vars => (HasLoop /\ ImageInv)'
    <2> SUFFICES ASSUME HasLoop, ImageInv, [Next]_vars PROVE ImageInv'
      BY LoopStays
    <2>1. CASE l.loop = "image" /\ Image!Next
      BY <2>1, ImageStays DEF ImageInv
    <2>2. CASE l.loop = "image" /\ UNCHANGED image
      BY <2>2, LoopStays
         DEF ImageInv, ImageType, SlotsThere, GapEmpty, SlotsHold, BuffersHold, image, Image!TotalOf,
             Image!Missing, Image!Slot
    <2>3. CASE l.loop # "image"
      BY <2>3, LoopStays DEF ImageInv
    <2> QED
      BY <2>1, <2>2, <2>3, LoopStays
  <1> QED
    BY <1>1, <1>2, PTL DEF Spec

(* What any open of a raw image last wrote to a sector is what every open   *)
(* reads there, whichever grew the file, but for an open whose buffer took  *)
(* the sector in before it was written or whose own growth of the file      *)
(* failed, and for a sector half of which such an open wrote: for every     *)
(* number of opens, size of disk, of a buffer, of a track and of track 0.   *)
THEOREM ImageWrittenIsRead == Spec => []WrittenIsRead
  <1>1. ImageInv => WrittenIsRead
    BY HeldIsRead DEF ImageInv, WrittenIsRead
  <1> QED
    BY <1>1, ImageInvHolds, PTL

(* A write changes one sector of those the file had and never shrinks it,   *)
(* and nothing is put where a short track 0 has no sectors.                 *)
THEOREM ImageChangesOneSector == Spec => OneSectorChanges
  <1>1. HasLoop /\ ImageInv /\ [Next]_vars => [l.loop = "image" => Image!ChangesOneSector]_vars
    <2> SUFFICES ASSUME HasLoop, ImageInv, Next, l.loop = "image"
                 PROVE  Image!ChangesOneSector \/ UNCHANGED vars
      BY DEF vars
    <2>1. Image!Next
      BY DEF Next
    <2> QED
      BY <2>1, StepChangesOne DEF ImageInv
  <1> QED
    BY <1>1, ImageInvHolds, PTL DEF Spec, OneSectorChanges

-----------------------------------------------------------------------------
(* TSCopyFile *)

(* A copy that is not over, or over with an error, has not begun to write,  *)
(* or gives up what it has written yet.                                     *)
CopyInv ==
  l.loop = "copy" =>
    /\ {"pc", "ec", "left"} \subseteq DOMAIN s
    /\ s.pc \in {"open", "create"} => dst = job.old
    /\ s.pc = "meta" => s.ec = "ok" \/ s.left
    /\ Copying!FailureLeavesNoHalf

LEMMA CopyStays == CopyInv /\ l.loop = "copy" /\ UNCHANGED l /\ Copying!Next => CopyInv'
  <1> SUFFICES ASSUME CopyInv, l.loop = "copy", UNCHANGED l, Copying!Next PROVE CopyInv'
    OBVIOUS
  <1> DEFINE Holds == /\ {"pc", "ec", "left"} \subseteq DOMAIN s'
                      /\ s'.pc \in {"open", "create"} => dst' = job'.old
                      /\ s'.pc = "meta" => s'.ec = "ok" \/ s'.left
                      /\ s'.pc = "done" /\ s'.ec # "ok" /\ ~ s'.left
                           => dst' \in {job'.old, Gone, << >>}
  <1> SUFFICES Holds
    BY DEF CopyInv, Copying!FailureLeavesNoHalf
  <1>1. /\ {"pc", "ec", "left"} \subseteq DOMAIN s
        /\ s.pc \in {"open", "create"} => dst = job.old
        /\ s.pc = "meta" => s.ec = "ok" \/ s.left
    BY DEF CopyInv
  <1>2. CASE Copying!OpenSource
    BY <1>1, <1>2 DEF Copying!OpenSource, Copying!Goto, Copying!Fail
  <1>3. CASE Copying!CreateDestination
    BY <1>1, <1>3 DEF Copying!CreateDestination, Copying!Goto, Copying!Fail
  <1>4. CASE Copying!CreateFails
    BY <1>1, <1>4 DEF Copying!CreateFails, Copying!Fail
  <1>5. CASE Copying!GetBuffer
    BY <1>1, <1>5 DEF Copying!GetBuffer, Copying!Goto, Copying!GivesUp
  <1>6. CASE Copying!CopyBuffer
    BY <1>1, <1>6 DEF Copying!CopyBuffer
  <1>7. CASE Copying!ReadFails
    BY <1>1, <1>7 DEF Copying!ReadFails, Copying!Fail
  <1>8. CASE Copying!WriteFails
    BY <1>1, <1>8 DEF Copying!WriteFails, Copying!Fail
  <1>9. CASE Copying!HostReadsLess
    BY <1>1, <1>9 DEF Copying!HostReadsLess
  <1>10. CASE Copying!HostReadFails
    BY <1>1, <1>10 DEF Copying!HostReadFails
  <1>11. CASE Copying!HostWriteFails
    BY <1>1, <1>11 DEF Copying!HostWriteFails
  <1>12. CASE Copying!SourceEnds
    BY <1>1, <1>12 DEF Copying!SourceEnds, Copying!Goto
  <1>13. CASE Copying!DeleteHalf
    BY <1>1, <1>13 DEF Copying!DeleteHalf, Copying!GivesUp
  <1>14. CASE Copying!CloseDestination
    BY <1>1, <1>14 DEF Copying!CloseDestination, Copying!Fail
  <1>15. CASE Copying!CloseFails
    BY <1>1, <1>15 DEF Copying!CloseFails
  <1>16. CASE Copying!HostCloseFails
    BY <1>1, <1>16 DEF Copying!HostCloseFails
  <1>17. CASE Copying!SetMetadata
    BY <1>1, <1>17 DEF Copying!SetMetadata, Copying!Goto
  <1> QED
    BY <1>2, <1>3, <1>4, <1>5, <1>6, <1>7, <1>8, <1>9, <1>10, <1>11, <1>12, <1>13, <1>14,
       <1>15, <1>16, <1>17 DEF Copying!Next

(* A copy that fails, in whatever call, leaves no part of the file, unless  *)
(* what it wrote could not be closed or deleted: for every source and size  *)
(* of the buffer.                                                           *)
THEOREM CopyLeavesNoHalf == Spec => []FailureLeavesNoHalf
  <1>1. Init => HasLoop /\ CopyInv
    <2> SUFFICES ASSUME Init PROVE CopyInv
      BY LoopBegins DEF Init
    <2>1. CASE Copying!Init
      BY <2>1 DEF CopyInv, Copying!Init, Copying!FailureLeavesNoHalf
    <2>2. CASE l.loop # "copy"
      BY <2>2 DEF CopyInv
    <2> QED
      BY <2>1, <2>2, LoopBegins DEF Init
  <1>2. HasLoop /\ CopyInv /\ [Next]_vars => (HasLoop /\ CopyInv)'
    <2> SUFFICES ASSUME HasLoop, CopyInv, [Next]_vars PROVE CopyInv'
      BY LoopStays
    <2>1. CASE l.loop = "copy" /\ Copying!Next /\ UNCHANGED l
      BY <2>1, CopyStays
    <2>2. CASE l.loop = "copy" /\ UNCHANGED copy
      BY <2>2, LoopStays DEF CopyInv, Copying!FailureLeavesNoHalf, copy
    <2>3. CASE l.loop # "copy"
      BY <2>3, LoopStays DEF CopyInv
    <2>4. l.loop = "copy" => (Copying!Next /\ UNCHANGED l) \/ UNCHANGED copy
      BY DEF Next, vars
    <2> QED
      BY <2>1, <2>2, <2>3, <2>4
  <1>3. CopyInv => FailureLeavesNoHalf
    BY DEF CopyInv, FailureLeavesNoHalf
  <1> QED
    BY <1>1, <1>2, <1>3, PTL DEF Spec

(* Every byte of the source is one of the destination's, or with its line   *)
(* end translated for the host.                                             *)
Plain == ~ job.eolTranslate \/ job.from = job.to \/ job.from = "coco"

Sent(b) == IF ~ job.eolTranslate \/ job.from = job.to THEN b ELSE Copying!Replaced(b, CR, LF)

WholeInv ==
  l.loop = "copy" =>
    /\ {"pc", "position", "ec", "missed"} \subseteq DOMAIN s
    /\ job.source \in Seq(Copying!Bytes) /\ job.size \in Nat \ {0}
    /\ s.position \in 0 .. Len(job.source)
    /\ s.pc \in {"open", "create", "buffer"} => s.position = 0
    /\ s.pc = "buffer" => dst = << >>
    /\ s.pc \in {"open", "create", "buffer", "copy", "fail", "close"} => s.ec # "ok"
    /\ Plain /\ ~ s.missed =>
         /\ s.pc = "copy" => dst = Sent(SubSeq(job.source, 1, s.position))
         /\ s.pc = "close" \/ (s.pc \in {"meta", "done"} /\ s.ec = "ok") => dst = Sent(job.source)

LEMMA SentInParts ==
  ASSUME NEW S, NEW b \in Seq(S), NEW m \in 0 .. Len(b), NEW k \in m .. Len(b)
  PROVE  Sent(SubSeq(b, 1, m)) \o Sent(SubSeq(b, m + 1, k)) = Sent(SubSeq(b, 1, k))
  <1>1. SubSeq(b, 1, m) \o SubSeq(b, m + 1, k) = SubSeq(b, 1, k)
    BY ConcatAdjacentSubSeq
  <1>2. CASE ~ job.eolTranslate \/ job.from = job.to
    BY <1>1, <1>2 DEF Sent
  <1>3. CASE ~ (~ job.eolTranslate \/ job.from = job.to)
    BY <1>3 DEF Sent, Copying!Replaced
  <1> QED
    BY <1>2, <1>3

LEMMA SentIsWhole ==
  Plain => /\ Sent(job.source) = Copying!Whole
           /\ Sent(<< >>) = << >>
           /\ \A b : Copying!Translate(b) = Sent(b)
  <1>1. Sent(<< >>) = << >>
    BY DEF Sent, Copying!Replaced
  <1>2. Plain => Sent(job.source) = Copying!Whole
    BY DEF Plain, Sent, Copying!Whole
  <1>3. Plain => \A b : Copying!Translate(b) = Sent(b)
    BY DEF Plain, Sent, Copying!Translate, Copying!TranslateCoCoToNative
  <1> QED
    BY <1>1, <1>2, <1>3

LEMMA WholeBegins == Copying!Init /\ l.loop = "copy" => WholeInv
  <1> SUFFICES ASSUME Copying!Init PROVE WholeInv
    OBVIOUS
  <1>1. job.source \in Copying!SeqOf(Copying!Bytes, MaxLen) /\ job.size \in Buffers
    BY DEF Copying!Init
  <1>2. PICK m \in 0 .. MaxLen : job.source \in [1 .. m -> Copying!Bytes]
    BY <1>1 DEF Copying!SeqOf
  <1>3. m \in Nat /\ job.size \in Nat \ {0}
    <2>1. MaxLen \in Nat /\ Buffers \subseteq Nat \ {0}
      BY GroundAssumption
    <2>2. m \in Nat
      BY <2>1
    <2> QED
      BY <1>1, <2>1, <2>2
  <1>4. job.source \in Seq(Copying!Bytes) /\ Len(job.source) = m
    BY <1>2, <1>3
  <1>5. s = [pc |-> "open", position |-> 0, ec |-> "running", left |-> FALSE, missed |-> FALSE]
    BY DEF Copying!Init
  <1> QED
    BY <1>3, <1>4, <1>5 DEF WholeInv

(* What a buffer holds, and where the next begins. *)
LEMMA BufferIs ==
  ASSUME job.source \in Seq(Copying!Bytes), job.size \in Nat \ {0},
         s.position \in 0 .. Len(job.source)
  PROVE  LET next == IF s.position + job.size > Len(job.source) THEN Len(job.source)
                     ELSE s.position + job.size
         IN /\ next \in s.position .. Len(job.source)
            /\ Copying!Buffer = SubSeq(job.source, s.position + 1, next)
            /\ Len(Copying!Buffer) = next - s.position
  <1> DEFINE next == IF s.position + job.size > Len(job.source) THEN Len(job.source)
                     ELSE s.position + job.size
  <1>1. Len(job.source) \in Nat
    OBVIOUS
  <1>2. next \in s.position .. Len(job.source)
    BY <1>1
  <1>3. Copying!Buffer = SubSeq(job.source, s.position + 1, next)
    BY DEF Copying!Buffer
  <1> HIDE DEF next
  <1>4. Len(Copying!Buffer) = next - s.position
    BY <1>1, <1>2, <1>3
  <1> QED
    BY <1>2, <1>3, <1>4 DEF next

(* What is copied, where from and where to, is settled when a copy begins. *)
LEMMA JobStays == Copying!Next => job' = job
  <1>1. Copying!OpenSource => job' = job
    BY DEF Copying!OpenSource
  <1>2. Copying!CreateDestination => job' = job
    BY DEF Copying!CreateDestination
  <1>3. Copying!CreateFails => job' = job
    BY DEF Copying!CreateFails
  <1>4. Copying!GetBuffer => job' = job
    BY DEF Copying!GetBuffer
  <1>5. Copying!CopyBuffer => job' = job
    BY DEF Copying!CopyBuffer
  <1>6. Copying!ReadFails => job' = job
    BY DEF Copying!ReadFails
  <1>7. Copying!WriteFails => job' = job
    BY DEF Copying!WriteFails
  <1>8. Copying!HostReadsLess => job' = job
    BY DEF Copying!HostReadsLess
  <1>9. Copying!HostReadFails => job' = job
    BY DEF Copying!HostReadFails
  <1>10. Copying!HostWriteFails => job' = job
    BY DEF Copying!HostWriteFails
  <1>11. Copying!SourceEnds => job' = job
    BY DEF Copying!SourceEnds
  <1>12. Copying!DeleteHalf => job' = job
    BY DEF Copying!DeleteHalf
  <1>13. Copying!CloseDestination => job' = job
    BY DEF Copying!CloseDestination
  <1>14. Copying!CloseFails => job' = job
    BY DEF Copying!CloseFails
  <1>15. Copying!HostCloseFails => job' = job
    BY DEF Copying!HostCloseFails
  <1>16. Copying!SetMetadata => job' = job
    BY DEF Copying!SetMetadata
  <1> QED
    BY <1>1, <1>2, <1>3, <1>4, <1>5, <1>6, <1>7, <1>8, <1>9, <1>10, <1>11, <1>12, <1>13, <1>14, <1>15, <1>16 DEF Copying!Next

LEMMA WholeStays == WholeInv /\ l.loop = "copy" /\ UNCHANGED l /\ Copying!Next => WholeInv'
  <1> SUFFICES ASSUME WholeInv, l.loop = "copy", UNCHANGED l, Copying!Next PROVE WholeInv'
    OBVIOUS
  <1>1. /\ {"pc", "position", "ec", "missed"} \subseteq DOMAIN s
        /\ job.source \in Seq(Copying!Bytes) /\ job.size \in Nat \ {0}
        /\ s.position \in 0 .. Len(job.source)
        /\ s.pc \in {"open", "create", "buffer"} => s.position = 0
        /\ s.pc = "buffer" => dst = << >>
        /\ s.pc \in {"open", "create", "buffer", "copy", "fail", "close"} => s.ec # "ok"
        /\ Plain /\ ~ s.missed =>
             /\ s.pc = "copy" => dst = Sent(SubSeq(job.source, 1, s.position))
             /\ s.pc = "close" \/ (s.pc \in {"meta", "done"} /\ s.ec = "ok")
                  => dst = Sent(job.source)
    BY DEF WholeInv
  <1>2. job' = job /\ Len(job.source) \in Nat
    BY <1>1, JobStays
  <1>3. Plain' = Plain /\ \A b : Sent(b)' = Sent(b)
    BY <1>2 DEF Plain, Sent, Copying!Replaced
  <1> DEFINE Holds ==
        /\ {"pc", "position", "ec", "missed"} \subseteq DOMAIN s'
        /\ s'.position \in 0 .. Len(job.source)
        /\ s'.pc \in {"open", "create", "buffer"} => s'.position = 0
        /\ s'.pc = "buffer" => dst' = << >>
        /\ s'.pc \in {"open", "create", "buffer", "copy", "fail", "close"} => s'.ec # "ok"
        /\ Plain /\ ~ s'.missed =>
             /\ s'.pc = "copy" => dst' = Sent(SubSeq(job.source, 1, s'.position))
             /\ s'.pc = "close" \/ (s'.pc \in {"meta", "done"} /\ s'.ec = "ok")
                  => dst' = Sent(job.source)
  <1> SUFFICES Holds
    BY <1>1, <1>2, <1>3 DEF WholeInv
  <1>4. Plain => Sent(SubSeq(job.source, 1, 0)) = << >>
    <2>1. SubSeq(job.source, 1, 0) = << >>
      BY <1>1
    <2> QED
      BY <2>1, SentIsWhole
  <1>5. Sent(SubSeq(job.source, 1, Len(job.source))) = Sent(job.source)
    BY <1>1, SubSeqFull
  <1>6. PICK next \in s.position .. Len(job.source) :
          /\ next = (IF s.position + job.size > Len(job.source) THEN Len(job.source)
                     ELSE s.position + job.size)
          /\ Copying!Buffer = SubSeq(job.source, s.position + 1, next)
          /\ Len(Copying!Buffer) = next - s.position
    BY <1>1, BufferIs
  <1>7. next \in 0 .. Len(job.source)
    BY <1>1, <1>6
  <1>8. CASE Copying!OpenSource
    BY <1>1, <1>8 DEF Copying!OpenSource, Copying!Goto, Copying!Fail
  <1>9. CASE Copying!CreateDestination \/ Copying!CreateFails
    BY <1>1, <1>4, <1>9
       DEF Copying!CreateDestination, Copying!CreateFails, Copying!Goto, Copying!Fail
  <1>10. CASE Copying!GetBuffer
    BY <1>1, <1>4, <1>10 DEF Copying!GetBuffer, Copying!Goto, Copying!GivesUp
  <1>11. CASE Copying!CopyBuffer
    <2>1. /\ s.pc = "copy" /\ dst' = dst \o Copying!Translate(Copying!Buffer)
          /\ s' = [s EXCEPT !.position = next]
      BY <1>6, <1>11 DEF Copying!CopyBuffer
    <2>2. s'.pc = "copy" /\ s'.position = next /\ s'.ec = s.ec /\ s'.missed = s.missed
          /\ DOMAIN s' = DOMAIN s
      BY <1>1, <2>1
    <2>3. ASSUME Plain, ~ s.missed PROVE dst' = Sent(SubSeq(job.source, 1, next))
      <3>1. dst = Sent(SubSeq(job.source, 1, s.position))
        BY <1>1, <2>1, <2>3
      <3>2. Copying!Translate(Copying!Buffer) = Sent(SubSeq(job.source, s.position + 1, next))
        BY <1>6, <2>3, SentIsWhole
      <3> QED
        BY <1>1, <1>6, <2>1, <3>1, <3>2, SentInParts
    <2> QED
      BY <1>1, <1>7, <2>1, <2>2, <2>3
  <1>12. CASE Copying!ReadFails \/ Copying!WriteFails
    BY <1>1, <1>12 DEF Copying!ReadFails, Copying!WriteFails, Copying!Fail
  <1>13. CASE Copying!HostReadsLess
    <2>1. PICK m \in 1 .. (Len(Copying!Buffer) - 1) :
            s' = [s EXCEPT !.position = @ + m, !.missed = TRUE] /\ s.pc = "copy"
      BY <1>13 DEF Copying!HostReadsLess
    <2>2. s.position + m \in 0 .. Len(job.source)
      <3>1. Len(Copying!Buffer) \in Int
        BY <1>1, <1>6, <1>7
      <3>2. m \in Int /\ m >= 1 /\ m <= Len(Copying!Buffer) - 1
        BY <2>1, <3>1
      <3>3. Len(Copying!Buffer) = next - s.position
        BY <1>6
      <3>4. /\ next \in Int /\ s.position \in Int /\ Len(job.source) \in Int
            /\ s.position >= 0 /\ next <= Len(job.source)
        BY <1>1, <1>2, <1>7
      <3> QED
        BY <3>2, <3>3, <3>4
    <2> QED
      BY <1>1, <2>1, <2>2
  <1>14. CASE Copying!HostReadFails
    BY <1>1, <1>14 DEF Copying!HostReadFails
  <1>15. CASE Copying!HostWriteFails
    <2>1. s' = [s EXCEPT !.position = next, !.missed = TRUE] /\ s.pc = "copy"
      BY <1>6, <1>15 DEF Copying!HostWriteFails
    <2> QED
      BY <1>1, <1>7, <2>1
  <1>16. CASE Copying!SourceEnds
    BY <1>1, <1>5, <1>16 DEF Copying!SourceEnds, Copying!Goto, Copying!AtEnd
  <1>17. CASE Copying!DeleteHalf
    BY <1>1, <1>17 DEF Copying!DeleteHalf, Copying!GivesUp
  <1>18. CASE Copying!CloseDestination \/ Copying!CloseFails \/ Copying!HostCloseFails
    BY <1>1, <1>18
       DEF Copying!CloseDestination, Copying!CloseFails, Copying!HostCloseFails, Copying!Fail
  <1>19. CASE Copying!SetMetadata
    BY <1>1, <1>19 DEF Copying!SetMetadata, Copying!Goto
  <1> QED
    BY <1>8, <1>9, <1>10, <1>11, <1>12, <1>13, <1>14, <1>15, <1>16, <1>17, <1>18, <1>19
       DEF Copying!Next

(* A copy that ends without an error has the whole source when it is as it  *)
(* is, or from an image to the host with its line ends translated: for      *)
(* every source and size of the buffer, if the host misses nothing.         *)
PlainCopyIsWhole ==
  l.loop = "copy" /\ Plain /\ s.pc = "done" /\ s.ec = "ok" /\ ~ s.missed
    => dst = Copying!Whole

(* Of every such copy that is so. *)
THEOREM PlainCopiesAreWhole == Spec => []PlainCopyIsWhole
  <1>1. Init => HasLoop /\ WholeInv
    <2> SUFFICES ASSUME Init PROVE WholeInv
      BY LoopBegins DEF Init
    <2>1. CASE l.loop = "copy"
      BY <2>1, LoopBegins, WholeBegins DEF Init
    <2>2. CASE l.loop # "copy"
      BY <2>2 DEF WholeInv
    <2> QED
      BY <2>1, <2>2
  <1>2. HasLoop /\ WholeInv /\ [Next]_vars => (HasLoop /\ WholeInv)'
    <2> SUFFICES ASSUME HasLoop, WholeInv, [Next]_vars PROVE WholeInv'
      BY LoopStays
    <2>1. CASE l.loop = "copy" /\ Copying!Next /\ UNCHANGED l
      BY <2>1, WholeStays
    <2>2. CASE l.loop = "copy" /\ UNCHANGED copy
      BY <2>2, LoopStays DEF WholeInv, Plain, Sent, Copying!Replaced, copy, Copying!Bytes
    <2>3. CASE l.loop # "copy"
      BY <2>3, LoopStays DEF WholeInv
    <2>4. l.loop = "copy" => (Copying!Next /\ UNCHANGED l) \/ UNCHANGED copy
      BY DEF Next, vars
    <2> QED
      BY <2>1, <2>2, <2>3, <2>4
  <1>3. WholeInv => PlainCopyIsWhole
    BY SentIsWhole DEF WholeInv, PlainCopyIsWhole
  <1> QED
    BY <1>1, <1>2, <1>3, PTL DEF Spec
=============================================================================

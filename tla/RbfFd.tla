-------------------------------- MODULE RbfFd --------------------------------
(***************************************************************************)
(* The file descriptor sector of an RBF file (fd_stats) and its segment    *)
(* list.                                                                   *)
(*                                                                         *)
(* A segment is kept in clusters: [start, n].  On a disk with one sector   *)
(* per cluster that is exactly fd_seg's lsn and num.  With more, librbf    *)
(* lays a file out in whole clusters with one exception: the first segment *)
(* begins in the cluster of the descriptor itself, one sector in, so its   *)
(* num is Spc * n - 1 (_os9_create step 5, and _os9_format for the root).  *)
(* The entries after the first with lsn 0 are the end of the list, so the  *)
(* list is a sequence.                                                     *)
(***************************************************************************)
EXTENDS RbfBitmap, Sequences, FiniteSets

CONSTANTS
  Bps,       \* bytes per sector, counted in directory entries (8)
  NumSegs,   \* entries of the segment list (48)
  NumLimit   \* bound of the 16 bit sector count of a segment (0x10000)

ASSUME FdAssumption ==
  /\ Bps \in Nat \ {0, 1}
  /\ NumSegs \in Nat \ {0, 1}
  /\ NumLimit \in Nat

Segment == [start : Cluster, n : 1 .. TotalClusters]

Fd == [lnk : 0 .. 255, siz : Nat, seg : Seq(Segment), dir : BOOLEAN]

Run(g) == g.start .. (g.start + g.n - 1)

SegClusters(segs) == UNION { Run(segs[i]) : i \in DOMAIN segs }

(* What a file holds: the cluster of its descriptor and its segments. *)
Holds(c, f) == {c} \cup SegClusters(f.seg)

(* fd_seg's num for entry i of a list. *)
Sectors(segs, i) ==
  Spc * segs[i].n - (IF i = 1 /\ Spc > 1 THEN 1 ELSE 0)

(* _os9_maximum_file_size, in sectors: the sum of Sectors over the list.   *)
(* It is stated by the clusters the list names, none of them twice; MCRbf  *)
(* has TLC compare the two.                                                *)
MaxSectors(segs) ==
  Spc * Cardinality(SegClusters(segs)) - (IF segs # << >> /\ Spc > 1 THEN 1 ELSE 0)

(* Sectors a file of siz bytes needs. *)
SectorsNeeded(siz) == (siz + Bps - 1) \div Bps

(* A new file's descriptor: with more than one sector per cluster, the     *)
(* rest of the descriptor's cluster is its first segment.                  *)
NewFd(c) ==
  [lnk |-> 1, siz |-> 0, dir |-> FALSE,
   seg |-> IF Spc > 1 THEN << [start |-> c, n |-> 1] >> ELSE << >>]

(* One cluster more at the end of the last segment: the segment's count    *)
(* still fits, the cluster exists, is in the segment's map sector and free.*)
NextCluster(segs) == segs[Len(segs)].start + segs[Len(segs)].n

(* Mutant: the bitmap sector of the segment is not looked at. *)
CanGrowLastAcross(bm, segs) ==
  /\ Len(segs) \in 1 .. (NumSegs - 1)
  /\ Sectors(segs, Len(segs)) + Spc < NumLimit
  /\ NextCluster(segs) \in Cluster \ bm

CanGrowLast(bm, segs) ==
  /\ Len(segs) \in 1 .. (NumSegs - 1)
  /\ Sectors(segs, Len(segs)) + Spc < NumLimit
  /\ NextCluster(segs) \in Cluster \ bm
  /\ NextCluster(segs) \div MapSector = segs[Len(segs)].start \div MapSector

GrowLast(segs) == [segs EXCEPT ![Len(segs)].n = @ + 1]

(* The clusters of list new that list old does not have, segment by        *)
(* segment as _os9_write's rollback finds them.                            *)
Gained(old, new) ==
  UNION { IF i > Len(old)
            THEN Run(new[i])
            ELSE (old[i].start + old[i].n) .. (new[i].start + new[i].n - 1)
          : i \in DOMAIN new }

(* Mutant: a cluster too many is cut. *)
CanCutTooMuch(f) ==
  f.seg # << >> /\ MaxSectors(f.seg) >= Spc /\ f.seg[1].n > 1 /\ f.siz > 0

(* The last cluster may be cut: the remaining sectors suffice for siz, and *)
(* the first segment keeps the descriptor's own cluster.                   *)
CanCut(f) ==
  /\ f.seg # << >>
  /\ MaxSectors(f.seg) >= Spc
  /\ MaxSectors(f.seg) - Spc >= SectorsNeeded(f.siz)
  /\ ~ (Len(f.seg) = 1 /\ Spc > 1 /\ f.seg[1].n = 1)

LastCluster(segs) == segs[Len(segs)].start + segs[Len(segs)].n - 1

(* Mutant: a segment cut to nothing stays in the list. *)
CutLastKeepsEmpty(segs) == [segs EXCEPT ![Len(segs)].n = @ - 1]

CutLast(segs) ==
  IF segs[Len(segs)].n = 1
    THEN SubSeq(segs, 1, Len(segs) - 1)
    ELSE [segs EXCEPT ![Len(segs)].n = @ - 1]
=============================================================================

------------------------------ MODULE RbfSasScan ------------------------------
(***************************************************************************)
(* The loop of _os9_getSASSegment, one round per step, over every bitmap   *)
(* and every wanted length.                                                *)
(***************************************************************************)
EXTENDS RbfBitmap

VARIABLE
  l  \* bitmap, req: the input; i, count, prev_free: the clusters before i
     \* were looked at; best_start, best_count: the longest run that has
     \* ended so far; result: Running, NoSpace, or the clusters allocated

Running == [start |-> -1, n |-> 0]
NoSpace == [start |-> -1, n |-> -1]

Init ==
  l \in [loop : {"segment"}, bitmap : SUBSET Cluster, req : 1 .. TotalClusters,
         i : {0}, count : {0}, prev_free : {0},
         best_start : {-1}, best_count : {0}, result : {Running}]

(* The run of count clusters before i has ended: the longest run so far. *)
Best ==
  IF l.count > l.best_count THEN [start |-> l.i - l.count, n |-> l.count]
  ELSE [start |-> l.best_start, n |-> l.best_count]

NewMapSector == l.count # 0 /\ l.i \div MapSector # l.prev_free \div MapSector

FreeCluster ==
  LET run  == (IF NewMapSector THEN 0 ELSE l.count) + 1
      best == IF NewMapSector THEN Best ELSE [start |-> l.best_start, n |-> l.best_count]
  IN
  /\ l.result = Running /\ l.i < TotalClusters
  /\ l.i \notin l.bitmap
  /\ l' = [l EXCEPT !.i = @ + 1, !.count = run, !.prev_free = l.i,
             !.best_start = best.start, !.best_count = best.n,
             !.result = IF run = l.req THEN [start |-> l.i - run + 1, n |-> run] ELSE @]

TakenCluster ==
  /\ l.result = Running /\ l.i < TotalClusters
  /\ l.i \in l.bitmap
  /\ l' = [l EXCEPT !.i = @ + 1, !.count = 0,
             !.best_start = Best.start, !.best_count = Best.n]

(* Mutant: the run the bitmap ends with is forgotten. *)
EndForgetful ==
  /\ l.result = Running /\ l.i = TotalClusters
  /\ l' = [l EXCEPT !.result = IF l.best_count > 0
                                 THEN [start |-> l.best_start, n |-> l.best_count]
                                 ELSE NoSpace]

EndOfBitmap ==
  /\ l.result = Running /\ l.i = TotalClusters
  /\ l' = [l EXCEPT !.result = IF Best.n > 0 THEN Best ELSE NoSpace]

Next == FreeCluster \/ TakenCluster \/ EndOfBitmap

-----------------------------------------------------------------------------
(* The search returns the segment IsSasSegment describes: clusters that    *)
(* are free and in one map sector, the first run long enough or else the   *)
(* first of the longest.  The disk is called full only when no cluster of  *)
(* it is free.                                                             *)
FindsSasSegment ==
  CASE l.result = Running -> TRUE
    [] l.result = NoSpace -> Cluster \subseteq l.bitmap
    [] OTHER -> IsSasSegment(l.bitmap, l.req, l.result.start, l.result.n)
=============================================================================

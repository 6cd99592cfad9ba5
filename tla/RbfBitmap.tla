------------------------------ MODULE RbfBitmap ------------------------------
(***************************************************************************)
(* The allocation bitmap of an OS-9 RBF disk (librbf/librbfbitmap.c).      *)
(* A bitmap is the set of the clusters whose bit is set; _os9_allbit and   *)
(* _os9_delbit are union and difference, _os9_ckbit is membership.         *)
(*                                                                         *)
(* The two searches are stated by what they return.  RbfSasScan has the    *)
(* loop of _os9_getSASSegment itself and is checked against IsSasSegment.  *)
(***************************************************************************)
EXTENDS Integers

CONSTANTS
  TotalClusters,  \* dd_tot / spc
  MapSector,      \* clusters described by one sector of the bitmap (2048)
  Spc,            \* sectors per cluster (dd_bit)
  PdSas           \* minimum allocation in sectors, as stored in LSN0 (pd_sas)

ASSUME BitmapAssumption ==
  /\ TotalClusters \in Nat \ {0}
  /\ MapSector \in Nat \ {0}
  /\ Spc \in Nat \ {0}
  /\ PdSas \in Nat

Cluster == 0 .. (TotalClusters - 1)

(* pd_sas after its sanity check, rounded up to whole clusters. *)
ReqClusters ==
  LET total == TotalClusters * Spc
      sas   == IF PdSas < 1 \/ PdSas > total \div 2 THEN 1 ELSE PdSas
  IN  (sas + Spc - 1) \div Spc

(* The clusters first .. first+n-1 are free and in one map sector. *)
FreeRun(bm, first, n) ==
  /\ n >= 1
  /\ first .. (first + n - 1) \subseteq Cluster \ bm
  /\ first \div MapSector = (first + n - 1) \div MapSector

(* What _os9_getSASSegment allocates: the first run of req clusters, or    *)
(* else the first of the longest runs.                                     *)
IsSasSegment(bm, req, first, n) ==
  /\ FreeRun(bm, first, n)
  /\ \A f \in Cluster : f < first => ~ FreeRun(bm, f, n)
  /\ n # req => \A f \in Cluster : ~ FreeRun(bm, f, req) /\ ~ FreeRun(bm, f, n + 1)

(* What _os9_getfreebit allocates: the first free cluster from 2 up. *)
IsFreeBit(bm, c) ==
  /\ c \in Cluster \ bm
  /\ c >= 2
  /\ \A d \in Cluster : d >= 2 /\ d < c => d \in bm
=============================================================================

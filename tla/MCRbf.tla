-------------------------------- MODULE MCRbf --------------------------------
(* Small instances of Rbf for TLC. *)
EXTENDS RbfInv, Functions, TLC

(* MaxSectors is the sum the code computes, on every list of at most three *)
(* segments that names no cluster twice.                                   *)
Disjoint(segs) ==
  \A i, j \in DOMAIN segs : i < j => Run(segs[i]) \cap Run(segs[j]) = {}

ASSUME CapacityIsSum ==
  LET Short == { g \in Segment : g.start + g.n <= 6 /\ g.start >= 2 } IN
  \A l \in 0 .. 3 : \A segs \in [1 .. l -> Short] :
    Disjoint(segs) =>
      MaxSectors(segs) = FoldFunction(+, 0, [i \in 1 .. l |-> Sectors(segs, i)])

(* A descriptor no entry and no path refers to is never read. *)
Read == Live \cup { s[p].at : p \in Paths } \cup { s[p].new : p \in Paths }

(* Nor is the descriptor a deleted entry once named. *)
LiveEntries ==
  [i \in DOMAIN ent |-> IF ent[i].name = NoName THEN NoName ELSE ent[i]]

LiveState == << dbm, [c \in Read |-> fd[c]], LiveEntries, s, lost >>

(* Once anything may be lost nothing more is promised.  Bound: of one      *)
(* file's deletion at most two attempts are interrupted.                   *)
FewFailures == lost # "files" /\ \A c \in Files : fd[c].lnk \in {1, 0, 255}
=============================================================================

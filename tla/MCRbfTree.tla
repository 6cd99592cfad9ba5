------------------------------ MODULE MCRbfTree ------------------------------
EXTENDS RbfTree, TLC

(* The descriptor of a cluster that is free, and a deleted entry's cluster, *)
(* are never read.                                                          *)
LiveNode ==
  [c \in used |-> [node[c] EXCEPT !.ent =
     [i \in DOMAIN @ |-> IF @[i].name = NoName THEN NoName ELSE @[i]]]]

LiveState == << used, LiveNode, del, IF del = << >> THEN "idle" ELSE ec >>

Symmetry == Permutations(Names)
=============================================================================

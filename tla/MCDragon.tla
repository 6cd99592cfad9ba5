------------------------------ MODULE MCDragon ------------------------------
EXTENDS DragonDos

(* Bound: what a failure that may have cost any file leaves is not explored *)
NoFilesLost == lost # "files"

(* The result of the last call decides nothing. *)
State == << free, ent, [s EXCEPT !.ec = "ok"], lost >>

Symmetry == Permutations(Names)
=============================================================================

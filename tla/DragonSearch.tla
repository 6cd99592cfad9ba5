---------------------------- MODULE DragonSearch ----------------------------
(***************************************************************************)
(* The loops of _dd_allocate and scan_bitmap, one sector or byte looked at *)
(* per step, over every bitmap, from a file's end that is taken or from    *)
(* none.  DragonMap states what they return.                               *)
(***************************************************************************)
EXTENDS DragonMap

CONSTANT Hints  \* the sectors that would continue the file; or NoHint

Full == -1

VARIABLE
  l  \* free, hint: the input; pc; position, found, candidate: of the search
     \* by tracks; base, offset, start, length, best, best_offset: of
     \* scan_bitmap, whose run goes on while length > 0; second: what it
     \* returned for the second bitmap sector; result: the sector, or Full

Init ==
  \E free \in SUBSET (Lsn \ System), hint \in Hints :
    l = [loop |-> "dragon", free |-> free, hint |-> hint, pc |-> "hint",
         position |-> Dir, found |-> FALSE, candidate |-> 0,
         base |-> 0, offset |-> 0, start |-> 0, length |-> 0,
         best |-> 0, best_offset |-> 0,
         second |-> [run |-> 0, lsn |-> 0], result |-> Full]

Take(lsn) == l' = [l EXCEPT !.pc = "done", !.result = lsn]

TryHint ==
  /\ l.pc = "hint"
  /\ IF l.hint \in l.free THEN Take(l.hint)
     ELSE IF l.hint # NoHint /\ l.hint >= MapSector
            THEN l' = [l EXCEPT !.pc = "up", !.position = MapSector]
     ELSE l' = [l EXCEPT !.pc = "down"]

LookBelow ==
  LET p == l.position - T IN
  /\ l.pc = "down" /\ p >= 0
  /\ IF p \notin l.free THEN l' = [l EXCEPT !.position = p, !.found = FALSE]
     ELSE IF l.found THEN Take(p)
     ELSE l' = [l EXCEPT !.position = p, !.found = TRUE, !.candidate = p]

(* Mutant: a lone track is not taken. *)
NoneBelowTaken ==
  /\ l.pc = "down" /\ l.position < T
  /\ l' = [l EXCEPT !.pc = "up", !.position = Dir + T]

EndBelow ==
  /\ l.pc = "down" /\ l.position < T
  /\ IF l.found THEN Take(l.candidate)
     ELSE l' = [l EXCEPT !.pc = "up", !.position = Dir + T]

LookAbove ==
  /\ l.pc = "up"
  /\ IF l.position >= 2 * MapSector
       THEN l' = [l EXCEPT !.pc = "scan", !.base = MapSector]
     ELSE IF l.position \in l.free THEN Take(l.position)
     ELSE l' = [l EXCEPT !.position = @ + T]

(* scan_bitmap looks at its next byte. *)
ScanByte ==
  /\ l.pc = "scan" /\ l.length = 0 /\ l.offset \in Bytes
  /\ l' = IF Nonzero(l.free, l.base, l.offset)
            THEN [l EXCEPT !.offset = @ + 1, !.start = l.offset, !.length = 1]
            ELSE [l EXCEPT !.offset = @ + 1]

ScanRun ==
  /\ l.pc = "scan" /\ l.length > 0
  /\ l' = IF IsFF(l.free, l.base, l.offset)
            THEN [l EXCEPT !.offset = @ + 1, !.length = @ + 1]
          ELSE IF l.length > l.best
            THEN [l EXCEPT !.length = 0, !.best = l.length, !.best_offset = l.start]
          ELSE [l EXCEPT !.length = 0]

(* All bytes were looked at: from the end of the best run's first byte on,  *)
(* towards its first bit.                                                   *)
ScanEnds ==
  /\ l.pc = "scan" /\ l.length = 0 /\ l.offset \notin Bytes
  /\ l' = IF l.best = 0 THEN [l EXCEPT !.pc = "scanned", !.position = l.base + MapSector]
          ELSE [l EXCEPT !.pc = IF l.best = 1 THEN "skip" ELSE "bits",
                         !.position = l.base + (l.best_offset + 1) * MapByte]

SkipBit ==
  /\ l.pc = "skip"
  /\ l' = IF l.position - 1 \in l.free THEN [l EXCEPT !.pc = "bits"]
          ELSE [l EXCEPT !.position = @ - 1]

TakeBit ==
  /\ l.pc = "bits"
  /\ l' = IF /\ l.position - 1 \in l.free
             /\ l.position - 1 >= l.base + l.best_offset * MapByte
            THEN [l EXCEPT !.position = @ - 1]
            ELSE [l EXCEPT !.pc = "scanned"]

(* The second sector was scanned. *)
ScannedSecond ==
  /\ l.pc = "scanned" /\ l.base = MapSector
  /\ IF l.best >= 2 THEN Take(l.position)
     ELSE l' = [l EXCEPT !.pc = "scan", !.base = 0, !.offset = 0, !.best = 0,
                         !.second = [run |-> l.best, lsn |-> l.position]]

ScannedFirst ==
  /\ l.pc = "scanned" /\ l.base = 0
  /\ IF ~ (l.best < 2 /\ l.best <= l.second.run) THEN Take(l.position)
     ELSE Take(IF l.second.lsn \in l.free THEN l.second.lsn ELSE Full)

Next ==
  \/ TryHint \/ LookBelow \/ EndBelow \/ LookAbove
  \/ ScanByte \/ ScanRun \/ ScanEnds \/ SkipBit \/ TakeBit
  \/ ScannedSecond \/ ScannedFirst

-----------------------------------------------------------------------------
(* What _dd_allocate takes is where DragonDos's actions look, and it calls  *)
(* the disk full when they find nothing, which is when no sector is free.   *)
FindsPlace ==
  l.pc = "done" =>
    IF l.result = Full THEN Place(l.free, l.hint) = {} /\ l.free = {}
    ELSE Place(l.free, l.hint) = {l.result}
=============================================================================

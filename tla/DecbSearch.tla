----------------------------- MODULE DecbSearch -----------------------------
(***************************************************************************)
(* The loop of find_free_granule, one granule looked at per step, over     *)
(* every set of free granules and every granule to be near to.             *)
(***************************************************************************)
EXTENDS DecbFat

VARIABLE
  l  \* fat, near: the input; counter: granules looked at; down: direction;
     \* granule: the one to look at; result: "none yet", "found" or "full"

TrackOf(g) == g - (g % 2)

Init ==
  \E fat \in [Granule -> {Free, Last(1)}], near \in Granule :
    l = [loop |-> "granule", fat |-> fat, near |-> near, counter |-> 0,
         down |-> FALSE, granule |-> TrackOf(near), result |-> "none yet"]

(* Of the granules before next, those of a track have been looked at last,  *)
(* and n in all: the other side's next track is n granules away.            *)
Below(next, n) == next - 2 - n

Above(next, n) == next - 2 + n

(* Mutant: no test for the first track. *)
TurnOffTheDisk(next, n) ==
  IF ~ l.down THEN [granule |-> Below(next, n), down |-> TRUE]
  ELSE IF Above(next, n) < Granules THEN [granule |-> Above(next, n), down |-> FALSE]
  ELSE [granule |-> next - 4, down |-> TRUE]

(* The next granule: on the other side, or if there is none on this one.    *)
Turn(next, n) ==
  IF ~ l.down
    THEN IF Below(next, n) >= 0 THEN [granule |-> Below(next, n), down |-> TRUE]
         ELSE [granule |-> next, down |-> FALSE]
  ELSE IF Above(next, n) < Granules THEN [granule |-> Above(next, n), down |-> FALSE]
  ELSE [granule |-> next - 4, down |-> TRUE]

Looking == l.result = "none yet" /\ l.counter < Granules

Find ==
  /\ Looking /\ l.fat[l.granule] = Free
  /\ l' = [l EXCEPT !.result = "found"]

Advance ==
  /\ Looking /\ l.fat[l.granule] # Free
  /\ LET t == IF l.granule % 2 = 0 THEN [granule |-> l.granule + 1, down |-> l.down]
              ELSE Turn(l.granule + 1, l.counter + 1)
     IN l' = [l EXCEPT !.counter = @ + 1, !.granule = t.granule, !.down = t.down]

GiveUp ==
  /\ l.result = "none yet" /\ l.counter = Granules
  /\ l' = [l EXCEPT !.result = "full"]

Next == Find \/ Advance \/ GiveUp

-----------------------------------------------------------------------------
(* Every byte of the FAT the loop reads is that of a granule of the disk:   *)
(* turning at the first and last track never runs off them.  What it finds  *)
(* is the granule Decb's actions take, the nearest free one, lower tracks   *)
(* first; and it says that the disk is full only if no granule is free.     *)
FindsNearest ==
  /\ Looking => l.granule \in Granule
  /\ l.result = "found" => IsNearestFree(l.fat, l.near, l.granule)
  /\ l.result = "full" => IsFull(l.fat)
=============================================================================

------------------------------ MODULE DiskTable ------------------------------
(***************************************************************************)
(* The sector table of a DMK or SDF disk image: di_table_add_track, one    *)
(* recorded sector ID per step, for one track after the other, and the     *)
(* binary search di_table_find does in the table (libdiskimagetable.c).    *)
(***************************************************************************)
EXTENDS SequencesExt

CONSTANTS
  Numbers,  \* the sector numbers an ID can have
  MaxIds    \* Bound: IDs recorded on the first track

(* A track is added after those of a lower cylinder, and of a lower side.  *)
Track == << <<0, 0>>, <<0, 1>>, <<1, 0>> >>

SectorId == [id : Numbers, valid : BOOLEAN]

VARIABLE
  l  \* recorded: per track the IDs, in the order they are recorded, the
     \* input; track, at: the ID to add; ordered: of the track so far; table;
     \* want, low, high, result: of the search, result is -1 or in the table

(* Bound: one ID at most is recorded on the other tracks. *)
Init ==
  \E first \in SeqOf(SectorId, MaxIds), others \in [2 .. 3 -> SeqOf(SectorId, 1)] :
    l = [loop |-> "table", pc |-> "add", recorded |-> <<first, others[2], others[3]>>,
         track |-> 1, at |-> 1, ordered |-> << >>, table |-> << >>,
         want |-> << 0, 0, 0 >>, low |-> 1, high |-> 0, result |-> 0]

Adding == l.pc = "add" /\ l.track \in DOMAIN l.recorded /\ l.at <= Len(l.recorded[l.track])

(* After which of the ordered IDs this one belongs: those up to its number. *)
Before(id) == SelectLastInSeq(l.ordered, LAMBDA e : e.key[3] <= id)

Entry == [key |-> Append(Track[l.track], l.recorded[l.track][l.at].id), at |-> l.at]

(* Mutant: the last of a duplicate number wins. *)
LastWins ==
  /\ Adding
  /\ LET e == Entry  j == Before(e.key[3]) IN
     l' = [l EXCEPT !.at = @ + 1,
            !.ordered = IF ~ l.recorded[l.track][l.at].valid THEN @
                        ELSE IF j > 0 /\ @[j].key = e.key THEN [@ EXCEPT ![j] = e]
                        ELSE InsertAt(@, j + 1, e)]

AddId ==
  /\ Adding
  /\ LET e == Entry  j == Before(e.key[3]) IN
     l' = [l EXCEPT !.at = @ + 1,
            !.ordered = IF \/ ~ l.recorded[l.track][l.at].valid
                           \/ j > 0 /\ @[j].key = e.key
                          THEN @
                          ELSE InsertAt(@, j + 1, e)]

EndTrack ==
  /\ l.pc = "add" /\ l.track \in DOMAIN l.recorded /\ ~ Adding
  /\ l' = [l EXCEPT !.track = @ + 1, !.at = 1, !.ordered = << >>, !.table = @ \o l.ordered]

BeginFind ==
  /\ l.pc = "add" /\ l.track \notin DOMAIN l.recorded
  /\ \E i \in DOMAIN Track, n \in Numbers :
       l' = [l EXCEPT !.pc = "find", !.want = Append(Track[i], n), !.high = Len(l.table)]

Lower(k, want) ==
  \E i \in 1 .. 3 : k[i] < want[i] /\ \A j \in 1 .. (i - 1) : k[j] = want[j]

Look ==
  /\ l.pc = "find" /\ l.low <= l.high
  /\ LET middle == l.low + (l.high - l.low) \div 2  key == l.table[middle].key IN
     l' = IF key = l.want THEN [l EXCEPT !.pc = "done", !.result = middle]
          ELSE IF Lower(key, l.want) THEN [l EXCEPT !.low = middle + 1]
          ELSE [l EXCEPT !.high = middle - 1]

NotThere ==
  /\ l.pc = "find" /\ l.low > l.high
  /\ l' = [l EXCEPT !.pc = "done", !.result = -1]

Next == AddId \/ EndTrack \/ BeginFind \/ Look \/ NotThere

-----------------------------------------------------------------------------
(* A sector is found if a valid ID with its number is recorded on its       *)
(* track, whatever order the numbers of the track are in, and it is the     *)
(* first such ID of the track that is found.                                *)
FindsFirst ==
  l.pc = "done" =>
    LET t == CHOOSE i \in DOMAIN Track : Track[i] = SubSeq(l.want, 1, 2)
        ids == l.recorded[t]
        first == SelectInSeq(ids, LAMBDA e : e.valid /\ e.id = l.want[3])
    IN IF first = 0 THEN l.result = -1
       ELSE /\ l.result \in DOMAIN l.table
            /\ l.table[l.result] = [key |-> l.want, at |-> first]
=============================================================================

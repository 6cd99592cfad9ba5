------------------------------- MODULE DecbInv -------------------------------
(***************************************************************************)
(* The inductive invariant of Decb: what holds between any two steps,      *)
(* unless a failure may have cost a file, and is strong enough to hold     *)
(* again after the next one.                                               *)
(***************************************************************************)
EXTENDS Decb

Codes == {"ok", "PNNF", "BPNAM", "EOF", "DF", "EIO", "FAE"}

PathState ==
  [pc : {"idle", "create", "kill", "erase", "open", "entry", "grow", "data", "newentry", "putfat"},
   job : {"none", "create", "kill", "rename", "file"}, arg : Args \cup {"none"},
   rewrite : BOOLEAN, fat : [Granule -> Byte], saved : [Granule -> Byte],
   undo : [Granule -> Byte], entry : Entry, slot : Slot, pos : 0 .. MaxSize,
   goal : 0 .. MaxSize, cur : Granule, ec : Codes]

Types == TypeOK /\ s \in PathState

(* What each step of a call is for. *)
Jobs ==
  /\ s.pc = "idle" => s.job = "none"
  /\ s.pc = "create" => s.job = "create" /\ s.arg \in Args
  /\ s.pc \in {"kill", "erase"} => s.job \in {"kill", "create"} /\ s.arg \in Args
  /\ s.pc \in {"open", "grow", "data", "newentry"} => s.job = "file"
  /\ s.pc = "entry" => s.job \in {"file", "rename"}
  /\ s.pc = "putfat" => s.job = "file" \/ (s.job \in {"kill", "create"} /\ s.arg \in Args)

IsOpen(i) == s.job = "file" /\ i = s.slot

(* The entry a path has, beside the one in the directory. *)
PathEntry ==
  /\ s.job = "file" =>
       /\ s.entry.name # NoName
       /\ s.pc # "newentry" =>
            dir[s.slot].name = s.entry.name /\ dir[s.slot].first = s.entry.first
       /\ s.pc \in {"open", "grow", "putfat"} /\ s.slot \notin torn => dir[s.slot] = s.entry
  /\ s.pc = "newentry" =>
       /\ held < Handles
       /\ dir[s.slot].name = NoName /\ \A i \in Slot : dir[i].name # s.entry.name
  /\ s.pc = "erase" => s.entry = dir[s.slot] /\ s.entry.name # NoName
  /\ s.job = "rename" =>
       /\ dir[s.slot].name # NoName /\ s.entry.name # NoName
       /\ s.entry = [dir[s.slot] EXCEPT !.name = s.entry.name]
       /\ \A i \in Slot : dir[i].name # s.entry.name

(* No name is in the directory twice. *)
NamedOnce == \A i, j \in Slot : dir[i].name # NoName /\ dir[i].name = dir[j].name => i = j

(* The FAT a path has differs from the disk's at granules of the open file  *)
(* only, which gains granules and sectors of them, or at those it has freed *)
SameBut(f, S) == \A g \in Granule \ S : f[g] = fat[g]

Taken(f) == { g \in Granule : f[g] # Free }

(* The FAT in which every file is complete: the one a growing file goes     *)
(* back to if it cannot grow.                                               *)
Base == IF s.pc = "grow" THEN s.undo ELSE FatNow

PathFat ==
  /\ s.pc \notin {"idle", "create", "kill"} => s.saved = fat
  /\ s.pc = "erase" \/ s.job = "rename" => s.fat = fat
  /\ s.job = "file" =>
       /\ SameBut(s.fat, Chain(s.fat, s.entry.first))
       /\ \A g \in Taken(fat) : g \in Taken(Base) /\ (Base[g] >= 192 => fat[g] <= Base[g])
  /\ s.pc = "grow" =>
       /\ SameBut(s.undo, Chain(s.undo, s.entry.first))
       /\ Taken(s.undo) \subseteq Taken(s.fat)
       /\ s.undo = s.fat \/ s.cur \notin Taken(s.undo)
  /\ s.pc = "putfat" /\ s.job # "file" => \A g \in Granule : s.fat[g] \in {fat[g], Free}
  /\ s.pc = "newentry" =>
       /\ fat[s.entry.first] = Free
       /\ s.fat = [fat EXCEPT ![s.entry.first] = Last(1)]

-----------------------------------------------------------------------------
(* In FAT f, with the file in slot i beginning at granule a[i]: every file  *)
(* is a chain of its own, which ends; the last granule of those in S has    *)
(* some sector in use; every granule that is taken is some file's.          *)
Chained(f, a) ==
  \A i \in DOMAIN a :
    /\ ~ Endless(f, a[i])
    /\ \A g \in Chain(f, a[i]) : f[g] # Free
    /\ \A j \in DOMAIN a \ {i} : Chain(f, a[i]) \cap Chain(f, a[j]) = {}

Ended(f, a, S) == \A i \in S : f[LastOf(f, a[i])] >= Last(1)

Used(f, a) == \A g \in Granule : f[g] # Free => \E i \in DOMAIN a : g \in Chain(f, a[i])

Starts == [i \in FilesNow |-> EntryNow(i).first]

Chains ==
  /\ Chained(Base, Starts) /\ Ended(Base, Starts, FilesNow)
  /\ lost = "nothing" => Used(Base, Starts)

Growing ==
  s.pc = "grow" =>
    /\ Chained(s.fat, Starts) /\ Ended(s.fat, Starts, FilesNow \ {s.slot})
    /\ lost = "nothing" => Used(s.fat, Starts)

(* A write that is under way. *)
Writing ==
  LET g == s.entry.first IN
  /\ s.pc = "grow" =>
       /\ s.pos <= FileSize(s.undo, s.entry) /\ FileSize(s.undo, s.entry) < s.goal
       /\ s.cur = LastOf(s.fat, g) /\ SizeBefore(s.fat, g) < s.goal
       /\ EndOf(s.undo, g) <= EndOf(s.fat, g)
       /\ \A k \in 0 .. EndOf(s.undo, g) : Walk(s.fat, g)[k] = Walk(s.undo, g)[k]
  /\ s.pc = "data" =>
       /\ s.pos < s.goal /\ s.goal <= FileSize(s.fat, s.entry)
       /\ s.cur = Walk(s.fat, g)[s.pos \div GranuleSize]

-----------------------------------------------------------------------------
(* With data d, the byte at position p of the file that begins at granule g *)
(* is the one written there; all the bytes of the file with entry e are;    *)
(* all but those from position p up to q.                                   *)
IsRight(d, f, g, p) == d[Walk(f, g)[p \div GranuleSize]][p % GranuleSize] = p

IsWhole(d, f, e) == \A p \in 0 .. (FileSize(f, e) - 1) : IsRight(d, f, e.first, p)

IsWholeBut(d, f, e, p, q) ==
  \A r \in 0 .. (FileSize(f, e) - 1) : r < p \/ r >= q => IsRight(d, f, e.first, r)

(* What is on the disk of the files that are not open, of the open one as   *)
(* its path has it, and of the open one as the disk has it for as long as   *)
(* its chain is the same there.                                             *)
Others ==
  \A i \in Slot \ torn : dir[i].name # NoName /\ ~ IsOpen(i) => IsWhole(data, fat, dir[i])

Own ==
  s.job = "file" /\ s.slot \notin torn =>
    IF s.pc = "data" THEN IsWholeBut(data, s.fat, s.entry, s.pos, s.goal)
    ELSE IsWhole(data, Base, s.entry)

OwnOnDisk ==
  s.job = "file" /\ s.pc # "newentry" /\ s.slot \notin torn /\ Base = fat
    => IsWhole(data, fat, dir[s.slot])

Control == Jobs /\ PathEntry /\ NamedOnce

Sound ==
  Types /\ Control /\ PathFat /\ Chains /\ Growing /\ Writing /\ Others /\ Own /\ OwnOnDisk

Inv == lost # "files" => Sound
=============================================================================

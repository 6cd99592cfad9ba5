-------------------------------- MODULE Decb --------------------------------
(***************************************************************************)
(* libdecb: the files of a Disk BASIC disk image.                          *)
(*                                                                         *)
(* Directory entries and data go straight to the image.  The FAT does not: *)
(* _decb_open and _decb_create read it into the path, all allocation is    *)
(* done in that copy, and _decb_close writes it back if it changed.  A     *)
(* call is a sequence of steps, one per image write, round of the loop     *)
(* that extends a chain, or function that opens the image; pc says which   *)
(* comes next.  One path is open at a time, as in the command line tools.  *)
(*                                                                         *)
(* The byte at position i of every file is i, so that a byte at the wrong  *)
(* place is seen.                                                          *)
(***************************************************************************)
EXTENDS DecbFat

CONSTANTS
  Slots,       \* entries of the directory (72)
  Start,       \* granule near which a file begins (34)
  Args,        \* the names callers give
  EntryNames,  \* names in directory entries: eight characters and three
  EntryOf,     \* EntryOf[a]: the name of the entry _decb_create makes for a
  Opens,       \* Opens[a]: the names of the entries _decb_open takes for a
  NoName,      \* name of an erased or never used entry (first byte 0 or FF)
  WriteSizes,  \* bound: sizes of one write
  Positions,   \* bound: positions a seek goes to
  MaxSize,     \* bound: no write ends past this size
  Handles,     \* bound: image files the process can have open
  Faults,      \* image writes may fail
  Crashes      \* the process may end between two steps

ASSUME DecbAssumption ==
  /\ Slots \in Nat \ {0}
  /\ Start \in Granule
  /\ EntryOf \in [Args -> EntryNames]
  /\ Opens \in [Args -> SUBSET EntryNames]
  /\ NoName \notin EntryNames
  /\ WriteSizes \subseteq Nat \ {0}
  /\ Positions \subseteq 0 .. MaxSize
  /\ MaxSize \in Nat
  /\ Handles \in Nat \ {0}
  /\ {Faults, Crashes} \subseteq BOOLEAN

VARIABLES
  fat,    \* the FAT on the disk
  dir,    \* dir[i]: the directory entry in slot i
  data,   \* data[g][o]: the byte at offset o of granule g
  s,      \* the state of the path
  held,   \* image files that paths nobody can close any more hold open
  torn,   \* slots of the files of which a write failed
  lost    \* the worst that failures may have cost: "nothing", "granules"
          \* (marked but unused), "files" (anything)

vars == << fat, dir, data, s, held, torn, lost >>

Slot == 1 .. Slots

Offset == 0 .. (GranuleSize - 1)

Forgotten == -1

NoEntry == [name |-> NoName, first |-> 0, last |-> 0]

NoFat == [g \in Granule |-> Free]

Idle ==
  [pc |-> "idle", job |-> "none", arg |-> "none", rewrite |-> FALSE,
   fat |-> NoFat, saved |-> NoFat, undo |-> NoFat, entry |-> NoEntry, slot |-> 1,
   pos |-> 0, goal |-> 0, cur |-> 0, ec |-> "ok"]

(* The disk as _decb_dskini makes it. *)
Init ==
  /\ fat = NoFat
  /\ dir = [i \in Slot |-> NoEntry]
  /\ data = [g \in Granule |-> [o \in Offset |-> Forgotten]]
  /\ s = Idle
  /\ held = 0
  /\ torn = {}
  /\ lost = "nothing"

-----------------------------------------------------------------------------
(* Helpers *)

IsFirst(i, S) == i \in S /\ \A j \in S : i <= j

Entries(S) == { i \in Slot : dir[i].name \in S }

(* The entry _decb_open stops at, given name a. *)
Found(a, i) == IsFirst(i, Entries(Opens[a]))

(* Whether an entry has exactly the name that creating a makes. *)
Exists(a) == Entries({EntryOf[a]}) # {}

Harm(h) == lost' = IF lost = "nothing" \/ h = "files" THEN h ELSE lost

Done(e) == [Idle EXCEPT !.ec = e]

(* _decb_kill returns: to its caller, or to _decb_create, which does not   *)
(* look at the result and starts over.                                     *)
AfterKill(r, e) ==
  IF r.job = "create"
    THEN [Idle EXCEPT !.pc = "create", !.job = "create", !.arg = r.arg,
                      !.rewrite = TRUE, !.ec = e]
    ELSE Done(e)

(* _decb_open and _decb_create allocate a path, open the image file and    *)
(* read the FAT.                                                           *)
CanOpen == held < Handles

(* Mutant: the FAT is not read. *)
WithoutFat(r) == r

WithFat(r) == [r EXCEPT !.fat = fat, !.saved = fat]

-----------------------------------------------------------------------------
(* _decb_open *)

Open(a) ==
  /\ s.pc = "idle" /\ CanOpen
  /\ \E i \in Slot :
       /\ Found(a, i)
       /\ s' = WithFat([Idle EXCEPT !.pc = "open", !.job = "file",
                                    !.entry = dir[i], !.slot = i])
  /\ UNCHANGED << fat, dir, data, held, torn, lost >>

(* The error is returned and the path stays open, with nobody to close it;  *)
(* the same when _decb_rename_ex opens.                                    *)
OpenFindsNothing(a) ==
  /\ s.pc = "idle" /\ CanOpen
  /\ Entries(Opens[a]) = {}
  /\ s' = Done("PNNF")
  /\ held' = held + 1
  /\ UNCHANGED << fat, dir, data, torn, lost >>

OpenFails ==
  /\ s.pc = "idle" /\ ~ CanOpen
  /\ s' = Done("BPNAM")
  /\ UNCHANGED << fat, dir, data, held, torn, lost >>

Seek(pos) ==
  /\ s.pc = "open"
  /\ s' = [s EXCEPT !.pos = pos]
  /\ UNCHANGED << fat, dir, data, held, torn, lost >>

(* _decb_ss_fd: the entry is written, with other types. *)
SetAttributes ==
  /\ s.pc = "open"
  /\ s' = [s EXCEPT !.pc = "entry"]
  /\ UNCHANGED << fat, dir, data, held, torn, lost >>

Close ==
  /\ s.pc = "open"
  /\ s' = [s EXCEPT !.pc = "putfat", !.pos = 0]
  /\ UNCHANGED << fat, dir, data, held, torn, lost >>

-----------------------------------------------------------------------------
(* _decb_write.  Its loop over the granules writes whole ones: what the     *)
(* file does not use of a granule is written back as it was read.           *)

Size == FileSize(s.fat, s.entry)

(* Mutant: a position at the start of a granule is taken to be past the     *)
(* end of the one before.                                                   *)
GranuleAtInclusive(r, f) ==
  Walk(f, r.entry.first)[IF r.pos = 0 THEN 0 ELSE (r.pos - 1) \div GranuleSize]

GranuleAt(r, f) == Walk(f, r.entry.first)[r.pos \div GranuleSize]

WriteBeyondEnd ==
  /\ s.pc = "open" /\ s.pos > Size
  /\ s' = [s EXCEPT !.ec = "EOF"]
  /\ UNCHANGED << fat, dir, data, held, torn, lost >>

Write(k) ==
  /\ s.pc = "open" /\ s.pos <= Size /\ s.pos + k <= MaxSize
  /\ s' = IF Size < s.pos + k
            THEN [s EXCEPT !.pc = "grow", !.goal = s.pos + k, !.undo = s.fat,
                           !.cur = LastOf(s.fat, s.entry.first)]
            ELSE [s EXCEPT !.pc = "data", !.goal = s.pos + k, !.cur = GranuleAt(s, s.fat)]
  /\ UNCHANGED << fat, dir, data, held, torn, lost >>

(* extend_fat_chain *)

Room == SizeBefore(s.fat, s.entry.first) + GranuleSize

(* Mutant: the new granule is linked but not yet taken. *)
GrowUnmarked ==
  /\ s.pc = "grow" /\ s.goal > Room
  /\ \E g \in Granule :
       /\ IsNearestFree(s.fat, s.cur, g)
       /\ s' = [s EXCEPT !.fat[s.cur] = g, !.cur = g]
  /\ UNCHANGED << fat, dir, data, held, torn, lost >>

Grow ==
  /\ s.pc = "grow" /\ s.goal > Room
  /\ \E g \in Granule :
       /\ IsNearestFree(s.fat, s.cur, g)
       /\ s' = [s EXCEPT !.fat = [s.fat EXCEPT ![s.cur] = g, ![g] = Last(0)], !.cur = g]
  /\ UNCHANGED << fat, dir, data, held, torn, lost >>

(* Mutant: the FAT is restored and the search goes on. *)
GrowRetries ==
  /\ s.pc = "grow" /\ s.goal > Room /\ IsFull(s.fat)
  /\ s' = [s EXCEPT !.fat = s.undo, !.cur = LastOf(s.undo, s.entry.first)]
  /\ UNCHANGED << fat, dir, data, held, torn, lost >>

GrowFails ==
  /\ s.pc = "grow" /\ s.goal > Room /\ IsFull(s.fat)
  /\ s' = [s EXCEPT !.pc = "open", !.fat = s.undo, !.undo = NoFat,
                    !.cur = 0, !.goal = 0, !.ec = "DF"]
  /\ UNCHANGED << fat, dir, data, held, torn, lost >>

Grown ==
  /\ s.pc = "grow" /\ s.goal <= Room
  /\ LET used == s.goal - SizeBefore(s.fat, s.entry.first)
         f == [s.fat EXCEPT ![s.cur] = LastFor(used)]
     IN  s' = [s EXCEPT !.pc = "data", !.fat = f, !.undo = NoFat,
                        !.entry.last = BytesInLastSector(used), !.cur = GranuleAt(s, f)]
  /\ UNCHANGED << fat, dir, data, held, torn, lost >>

(* Bytes of granule cur that one round of the loop writes. *)
RoundSize ==
  LET v == s.fat[s.cur]
      room == (IF EndsAt(s.fat, s.cur) THEN UsedInLast(v, s.entry.last) ELSE GranuleSize)
                - (s.pos % GranuleSize)
  IN  IF room < s.goal - s.pos THEN room ELSE s.goal - s.pos

(* Mutant: the granule is not read before it is written. *)
FilledUnread(g, pos, k) ==
  [o \in Offset |->
     IF o - (pos % GranuleSize) \in 0 .. (k - 1)
       THEN pos - (pos % GranuleSize) + o ELSE Forgotten]

(* Granule g with k bytes from position pos of the file on. *)
Filled(g, pos, k) ==
  [o \in Offset |->
     IF o - (pos % GranuleSize) \in 0 .. (k - 1)
       THEN pos - (pos % GranuleSize) + o ELSE data[g][o]]

PutGranule ==
  /\ s.pc = "data"
  /\ data' = [data EXCEPT ![s.cur] = Filled(s.cur, s.pos, RoundSize)]
  /\ s' = LET pos == s.pos + RoundSize
           IN  IF pos = s.goal
                 THEN [s EXCEPT !.pc = "entry", !.pos = pos, !.cur = 0, !.goal = 0]
                 ELSE [s EXCEPT !.pos = pos, !.cur = s.fat[s.cur]]
  /\ UNCHANGED << fat, dir, held, torn, lost >>

(* The sectors before the one that fails have been written. *)
PutGranuleFails ==
  /\ Faults /\ s.pc = "data"
  /\ \E n \in 0 .. (SpG - 1) :
       data' = [data EXCEPT ![s.cur] =
                  [o \in Offset |->
                     IF o < n * Bps THEN Filled(s.cur, s.pos, RoundSize)[o] ELSE data[s.cur][o]]]
  /\ s' = [s EXCEPT !.pc = "open", !.cur = 0, !.goal = 0, !.ec = "EIO"]
  /\ torn' = torn \cup {s.slot}
  /\ UNCHANGED << fat, dir, held, lost >>

(* _decb_writedir, for _decb_write, _decb_ss_fd and _decb_rename_ex: the    *)
(* last one then closes a path that has not changed its FAT.                *)
PutEntry ==
  /\ s.pc = "entry"
  /\ dir' = [dir EXCEPT ![s.slot] = s.entry]
  /\ s' = IF s.job = "rename" THEN Done("ok") ELSE [s EXCEPT !.pc = "open", !.ec = "ok"]
  /\ UNCHANGED << fat, data, held, torn, lost >>

PutEntryFails ==
  /\ Faults /\ s.pc = "entry"
  /\ s' = IF s.job = "rename" THEN Done("EIO") ELSE [s EXCEPT !.pc = "open", !.ec = "EIO"]
  /\ torn' = IF s.job = "rename" THEN torn ELSE torn \cup {s.slot}
  /\ UNCHANGED << fat, dir, data, held, lost >>

(* _decb_close_image *)
PutFat ==
  /\ s.pc = "putfat"
  /\ fat' = s.fat
  /\ s' = AfterKill(s, "ok")
  /\ UNCHANGED << dir, data, held, torn, lost >>

PutFatFails ==
  /\ Faults /\ s.pc = "putfat" /\ s.fat # s.saved
  /\ s' = AfterKill(s, "EIO")
  /\ Harm(IF s.job = "file" THEN "files" ELSE "granules")
  /\ UNCHANGED << fat, dir, data, held, torn >>

-----------------------------------------------------------------------------
(* _decb_create *)

Create(a, rewrite) ==
  /\ s.pc = "idle"
  /\ s' = [Idle EXCEPT !.pc = "create", !.job = "create", !.arg = a, !.rewrite = rewrite]
  /\ UNCHANGED << fat, dir, data, held, torn, lost >>

Refused ==
  IF ~ CanOpen THEN "BPNAM"
  ELSE IF IsFull(fat) THEN "DF"
  ELSE IF Exists(s.arg) THEN IF s.rewrite THEN "ok" ELSE "FAE"
  ELSE IF Entries({NoName}) = {} THEN "DF" ELSE "ok"

CreateFails ==
  /\ s.pc = "create" /\ Refused # "ok"
  /\ s' = Done(Refused)
  /\ UNCHANGED << fat, dir, data, held, torn, lost >>

(* The image is closed, the file is killed and _decb_create called again.   *)
Replace ==
  /\ s.pc = "create" /\ Refused = "ok" /\ Exists(s.arg)
  /\ s' = [s EXCEPT !.pc = "kill"]
  /\ UNCHANGED << fat, dir, data, held, torn, lost >>

NewEntry ==
  /\ s.pc = "create" /\ Refused = "ok" /\ ~ Exists(s.arg)
  /\ \E g \in Granule, i \in Slot :
       /\ IsNearestFree(fat, Start, g) /\ IsFirst(i, Entries({NoName}))
       /\ s' = [WithFat(Idle) EXCEPT
                  !.pc = "newentry", !.job = "file", !.fat[g] = Last(1),
                  !.entry = [name |-> EntryOf[s.arg], first |-> g, last |-> 0], !.slot = i]
  /\ UNCHANGED << fat, dir, data, held, torn, lost >>

PutNewEntry ==
  /\ s.pc = "newentry"
  /\ dir' = [dir EXCEPT ![s.slot] = s.entry]
  /\ s' = [s EXCEPT !.pc = "open"]
  /\ UNCHANGED << fat, data, held, torn, lost >>

(* The image file stays open: _coco_create frees only its own path.         *)
PutNewEntryFails ==
  /\ Faults /\ s.pc = "newentry"
  /\ s' = Done("EIO")
  /\ held' = held + 1
  /\ UNCHANGED << fat, dir, data, torn, lost >>

-----------------------------------------------------------------------------
(* _decb_kill and _decb_rename_ex *)

Kill(a) ==
  /\ s.pc = "idle"
  /\ s' = [Idle EXCEPT !.pc = "kill", !.job = "kill", !.arg = a]
  /\ UNCHANGED << fat, dir, data, held, torn, lost >>

KillOpens ==
  /\ s.pc = "kill" /\ CanOpen
  /\ \E i \in Slot :
       /\ Found(s.arg, i)
       /\ s' = WithFat([s EXCEPT !.pc = "erase", !.entry = dir[i], !.slot = i])
  /\ UNCHANGED << fat, dir, data, held, torn, lost >>

KillFindsNothing ==
  /\ s.pc = "kill" /\ CanOpen /\ Entries(Opens[s.arg]) = {}
  /\ s' = AfterKill(s, "PNNF")
  /\ held' = held + 1
  /\ UNCHANGED << fat, dir, data, torn, lost >>

KillFails ==
  /\ s.pc = "kill" /\ ~ CanOpen
  /\ s' = AfterKill(s, "BPNAM")
  /\ UNCHANGED << fat, dir, data, held, torn, lost >>

Freed(f, S) == [g \in Granule |-> IF g \in S THEN Free ELSE f[g]]

(* Mutant: the loop's last granule is not freed. *)
EraseButLast ==
  /\ s.pc = "erase"
  /\ dir' = [dir EXCEPT ![s.slot] = NoEntry]
  /\ s' = [s EXCEPT !.pc = "putfat",
                    !.fat = Freed(s.fat, Chain(s.fat, s.entry.first)
                                           \ {LastOf(s.fat, s.entry.first)})]
  /\ torn' = torn \ {s.slot}
  /\ UNCHANGED << fat, data, held, lost >>

(* Of an erased entry only the first byte of the name changes; the rest of  *)
(* it, and the data, are not looked at again.                               *)
Erase ==
  /\ s.pc = "erase"
  /\ dir' = [dir EXCEPT ![s.slot] = NoEntry]
  /\ LET S == Chain(s.fat, s.entry.first) IN
       /\ s' = [s EXCEPT !.pc = "putfat", !.fat = Freed(s.fat, S)]
       /\ data' = [g \in Granule |-> IF g \in S THEN [o \in Offset |-> Forgotten] ELSE data[g]]
  /\ torn' = torn \ {s.slot}
  /\ UNCHANGED << fat, held, lost >>

EraseFails ==
  /\ Faults /\ s.pc = "erase"
  /\ s' = AfterKill(s, "EIO")
  /\ UNCHANGED << fat, dir, data, held, torn, lost >>

(* Mutant: the new name may be another file's. *)
RenameOver(a, b) ==
  /\ s.pc = "idle" /\ CanOpen /\ Entries(Opens[a]) # {}
  /\ IF ~ Exists(a)
       THEN s' = Done("BPNAM")
       ELSE \E i \in Slot :
              /\ IsFirst(i, Entries({EntryOf[a]}))
              /\ s' = [WithFat(Idle) EXCEPT !.pc = "entry", !.job = "rename", !.slot = i,
                                   !.entry = [dir[i] EXCEPT !.name = EntryOf[b]]]
  /\ UNCHANGED << fat, dir, data, held, torn, lost >>

(* The file is opened as any other, and then looked for by its exact name.  *)
Rename(a, b) ==
  /\ s.pc = "idle" /\ CanOpen /\ Entries(Opens[a]) # {}
  /\ IF Exists(b) \/ ~ Exists(a)
       THEN s' = Done(IF Exists(b) THEN "FAE" ELSE "BPNAM")
       ELSE \E i \in Slot :
              /\ IsFirst(i, Entries({EntryOf[a]}))
              /\ s' = [WithFat(Idle) EXCEPT !.pc = "entry", !.job = "rename", !.slot = i,
                                   !.entry = [dir[i] EXCEPT !.name = EntryOf[b]]]
  /\ UNCHANGED << fat, dir, data, held, torn, lost >>

-----------------------------------------------------------------------------
(* The end of the process, between two steps: the next one starts with no   *)
(* path open.                                                               *)
Crash ==
  /\ Crashes
  /\ s' = Idle
  /\ held' = 0
  /\ IF s.job = "file" /\ s.fat # s.saved /\ s.pc # "newentry" THEN Harm("files")
     ELSE IF s.pc = "putfat" /\ s.fat # s.saved THEN Harm("granules")
     ELSE UNCHANGED lost
  /\ UNCHANGED << fat, dir, data, torn >>

Call ==
  \/ \E a \in Args : Open(a) \/ OpenFindsNothing(a) \/ Kill(a)
  \/ \E a \in Args, rewrite \in BOOLEAN : Create(a, rewrite)
  \/ \E a, b \in Args : Rename(a, b)
  \/ OpenFails \/ SetAttributes \/ Close \/ WriteBeyondEnd
  \/ \E pos \in Positions : Seek(pos)
  \/ \E k \in WriteSizes : Write(k)

Step ==
  \/ Grow \/ GrowFails \/ Grown \/ PutGranule \/ PutGranuleFails
  \/ PutEntry \/ PutEntryFails \/ PutFat \/ PutFatFails
  \/ CreateFails \/ Replace \/ NewEntry \/ PutNewEntry \/ PutNewEntryFails
  \/ KillOpens \/ KillFindsNothing \/ KillFails \/ Erase \/ EraseFails

Next == Call \/ Step \/ Crash

Spec == Init /\ [][Next]_vars

(* A call that has begun runs to its end: it waits for nothing.             *)
FairSpec == Spec /\ WF_vars(Step)

-----------------------------------------------------------------------------
(* Properties *)

(* The files as the process sees them: the open one as its path has it, the *)
(* others as the disk does.                                                 *)
FatNow == IF s.pc \in {"idle", "create", "kill"} THEN fat ELSE s.fat

EntryNow(i) == IF s.job = "file" /\ i = s.slot THEN s.entry ELSE dir[i]

FilesNow == { i \in Slot : EntryNow(i).name # NoName }

Entry == [name : EntryNames \cup {NoName}, first : Granule, last : 0 .. Bps]

(* Every byte of the FAT is one Disk BASIC knows, and an entry's count of   *)
(* bytes in the last sector is at most a sector.                            *)
TypeOK ==
  /\ {fat, s.fat, s.saved, s.undo} \subseteq [Granule -> Byte]
  /\ dir \in [Slot -> Entry] /\ s.entry \in Entry
  /\ data \in [Granule -> [Offset -> Forgotten .. (MaxSize - 1)]]
  /\ s.cur \in Granule /\ s.slot \in Slot /\ {s.pos, s.goal} \subseteq 0 .. MaxSize
  /\ held \in 0 .. Handles /\ torn \subseteq Slot
  /\ lost \in {"nothing", "granules", "files"}

(* Every file is a chain that ends, of granules marked as taken, and no two *)
(* files have a granule in common: no loop along a chain runs forever, and  *)
(* no write reaches another file (extend_fat_chain, _decb_kill).            *)
NoSharedGranule ==
  lost # "files" =>
    \A i \in FilesNow :
      LET C == Chain(FatNow, EntryNow(i).first) IN
      /\ ~ Endless(FatNow, EntryNow(i).first)
      /\ \A g \in C : FatNow[g] # Free
      /\ \A j \in FilesNow \ {i} : C \cap Chain(FatNow, EntryNow(j).first) = {}

(* When no call is under way and no path open, a granule is taken only if   *)
(* it is some file's: a file that was killed, cut short or could not grow   *)
(* has given all of them back.                                              *)
NoGranuleLost ==
  s.pc = "idle" /\ lost = "nothing" =>
    \A g \in Granule : fat[g] # Free => \E i \in FilesNow : g \in Chain(fat, dir[i].first)

(* The bytes of a file that fat and entry describe are those written to it. *)
Intact(f, e) ==
  \A pos \in 0 .. (FileSize(f, e) - 1) :
    data[Walk(f, e.first)[pos \div GranuleSize]][pos % GranuleSize] = pos

(* Whatever was written to a file before, and however it has grown, every   *)
(* byte of it is the one last written at that position, unless a write to   *)
(* it has failed or is under way (_decb_write).                             *)
ContentsIntact ==
  lost # "files" =>
    \A i \in FilesNow \ torn :
      ~ (i = s.slot /\ s.pc \in {"grow", "data"}) => Intact(FatNow, EntryNow(i))

(* A process that ends now, or whose image writes fail from here on, costs  *)
(* nobody but the file it has open: the FAT, directory and data on the disk *)
(* describe every other file in full (the FAT is written last).             *)
OthersSurvive ==
  lost # "files" =>
    \A i \in Slot \ torn :
      dir[i].name # NoName /\ ~ (s.job = "file" /\ i = s.slot) => Intact(fat, dir[i])

(* The result of _decb_kill that _decb_create does not look at: the file to *)
(* be rewritten is gone (decb copy -r).                                     *)
RewriteIsDone == s.pc = "create" => s.ec = "ok"

(* Every call returns: extending, following and freeing chains end, and so  *)
(* does _decb_create calling itself.                                        *)
CallsReturn == (s.pc \notin {"idle", "open"}) ~> (s.pc \in {"idle", "open"})

(* With no failures the calls are those of a plain store of files, each     *)
(* taking effect at one instant on one name.                                *)
SizeNow(i) == FileSize(IF s.pc = "grow" THEN s.undo ELSE FatNow, EntryNow(i))

Store == INSTANCE FileStore WITH
  Names <- EntryNames,
  Sizes <- 0 .. MaxSize,
  files <- [n \in EntryNames |->
              IF Entries({n}) = {} THEN -1 ELSE SizeNow(CHOOSE i \in Entries({n}) : TRUE)]

IsStore == Store!Spec
=============================================================================

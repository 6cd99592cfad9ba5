------------------------------ MODULE DragonDir ------------------------------
(***************************************************************************)
(* The directory of a Dragon DOS disk.  A file is a header entry and the   *)
(* continuation entries chained to it, each with some extents; the last    *)
(* entry has the bytes used of the last sector (libdragondosdir.c).        *)
(***************************************************************************)
EXTENDS DragonMap, SequencesExt

CONSTANTS
  Entries,        \* entries of the directory (160)
  PerSector,      \* entries in a sector of it (10)
  HeaderExtents,  \* extents in a header entry (4)
  MoreExtents,    \* extents in a continuation entry (7)
  Bps,            \* bytes per sector (256)
  Names,          \* names of files
  NoName          \* what a continuation entry has for a name

ASSUME DirAssumption ==
  /\ {Entries, PerSector, HeaderExtents, MoreExtents, Bps} \subseteq Nat \ {0}
  /\ Entries % PerSector = 0
  /\ NoName \notin Names

Entry == 0 .. (Entries - 1)

Kind == {"deleted", "header", "more"}

(* No entry is chained to entry 0, which therefore says that there is none. *)
NoNext == 0

Deleted == [kind |-> "deleted", name |-> NoName, ext |-> << >>, next |-> NoNext, last |-> 0]

Header(n) == [Deleted EXCEPT !.kind = "header", !.name = n]

Continuation == [Deleted EXCEPT !.kind = "more"]

(* Extents that fit entry e. *)
Capacity(e) == IF e.kind = "more" THEN MoreExtents ELSE HeaderExtents

Files(ent) == { i \in Entry : ent[i].kind = "header" }

Named(ent, n) == { i \in Files(ent) : ent[i].name = n }

IsFreeFrom(ent, first, i) ==
  /\ i >= first /\ ent[i].kind = "deleted"
  /\ \A j \in first .. (i - 1) : ent[j].kind # "deleted"

HasFreeFrom(ent, first) == \E i \in first .. (Entries - 1) : ent[i].kind = "deleted"

(* The entries of the file with header i: number k, and the last for every  *)
(* k past it.                                                               *)
Walk(ent, i) ==
  LET w[k \in Nat] ==
        IF k = 0 THEN i
        ELSE LET j == w[k - 1] IN IF ent[j].next = NoNext THEN j ELSE ent[j].next
  IN  w

Chain(ent, i) == { Walk(ent, i)[k] : k \in 0 .. (Entries - 1) }

LastEntry(ent, i) == Walk(ent, i)[Entries - 1]

(* The loops that follow a chain give up after as many entries as there are *)
IsChain(ent, i) ==
  /\ ent[LastEntry(ent, i)].next = NoNext
  /\ \A j \in Chain(ent, i) \ {i} : ent[j].kind = "more"

(* The sectors of extents x, in order. *)
SectorsOf(x) == FlattenSeq([j \in DOMAIN x |-> [k \in 1 .. x[j].count |-> x[j].lsn + k - 1]])

(* The sectors of the file with header i, in order; those from entry i of a *)
(* file on, if i is another of its entries.                                 *)
FileSectors(ent, i) ==
  LET w == Walk(ent, i)
      s[k \in Nat] ==
        IF k = 0 THEN SectorsOf(ent[i].ext)
        ELSE IF w[k] = w[k - 1] THEN s[k - 1]
        ELSE s[k - 1] \o SectorsOf(ent[w[k]].ext)
  IN  s[Entries - 1]

Held(ent, i) == Range(FileSectors(ent, i))

(* _dd_file_size *)
FileSize(ent, i) ==
  LET n == Len(FileSectors(ent, i))
      last == ent[LastEntry(ent, i)].last
  IN  n * Bps - (IF n # 0 /\ last # 0 THEN Bps - last ELSE 0)

SectorsFor(size) == (size + Bps - 1) \div Bps

-----------------------------------------------------------------------------
(* _dd_truncate *)

(* Mutant: the extent that is cut keeps its end. *)
CutExtentsAtFront(x, keep) ==
  LET before(j) == Len(SectorsOf(SubSeq(x, 1, j - 1)))
      whole == { j \in DOMAIN x : before(j) < keep }
  IN  [j \in whole |->
         IF before(j) + x[j].count <= keep THEN x[j]
         ELSE [lsn |-> x[j].lsn + x[j].count - (keep - before(j)), count |-> keep - before(j)]]

(* The first keep sectors of extents x. *)
CutExtents(x, keep) ==
  LET before(j) == Len(SectorsOf(SubSeq(x, 1, j - 1)))
      whole == { j \in DOMAIN x : before(j) < keep }
  IN  [j \in whole |->
         IF before(j) + x[j].count <= keep THEN x[j] ELSE [x[j] EXCEPT !.count = keep - before(j)]]

(* The sectors of the file with header i in the entries before entry j. *)
SectorsBefore(ent, i, j) == Len(FileSectors(ent, i)) - Len(FileSectors(ent, j))

IsCutOff(ent, i, j, keep) == j # i /\ SectorsBefore(ent, i, j) >= keep

(* The entries with that file cut to a size its sectors can hold. *)
Truncated(ent, i, size) ==
  LET keep == SectorsFor(size) IN
  [j \in Entry |->
     IF j \notin Chain(ent, i) THEN ent[j]
     ELSE IF IsCutOff(ent, i, j, keep) THEN Deleted
     ELSE IF SectorsBefore(ent, i, j) + Len(SectorsOf(ent[j].ext)) >= keep
       THEN [ent[j] EXCEPT !.ext = CutExtents(@, keep - SectorsBefore(ent, i, j)),
                           !.next = NoNext, !.last = size % Bps]
     ELSE ent[j]]

(* Mutant: the last sector that stays is given back too. *)
ReleasedOneMore(ent, i, size) ==
  LET sectors == FileSectors(ent, i) IN
  { sectors[k] : k \in (size \div Bps + 1) .. Len(sectors) }

(* The sectors that gives back. *)
Released(ent, i, size) ==
  LET sectors == FileSectors(ent, i) IN
  { sectors[k] : k \in (SectorsFor(size) + 1) .. Len(sectors) }
=============================================================================

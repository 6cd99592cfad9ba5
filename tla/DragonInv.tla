------------------------------ MODULE DragonInv ------------------------------
(***************************************************************************)
(* The inductive invariant of DragonDos: what holds between any two steps, *)
(* unless a failure may have cost a file, and is strong enough to hold     *)
(* again after the next one.  It is stated of a disk with free sectors f   *)
(* and entries e, a path r, and what may be lost, l.                       *)
(***************************************************************************)
EXTENDS DragonDos, DragonDirProofs

IsDirectory(f, e, x, l) ==
  Chained(e) /\ Apart(f, e, x) /\ (l = "nothing" => Exact(f, e, x))

OnDisk(f, e) == f \subseteq Lsn \ System /\ e \in Table /\ \A j \in Entry : Sound(e[j])

-----------------------------------------------------------------------------
(* The path *)

Pcs == {"idle", "create", "open", "swap", "allocate", "use", "grown", "data", "flush"}

PathState ==
  [pc : Pcs, job : {"none", "file", "new", "close", "kill", "rename", "replace"},
   name : Names \cup {NoName}, free : SUBSET Lsn, ent : Table,
   dirty : SUBSET (0 .. (1 + Entries \div PerSector)), cut : BOOLEAN, idx : Entry,
   pos : 0 .. MaxSize, size : Nat, spare : [lsn : Nat, count : 0 .. MaxExtent],
   op : {"none", "write", "size"}, goal : 0 .. MaxSize, old : Nat,
   needed : 0 .. SectorsFor(MaxSize), hint : Nat, fresh : BOOLEAN,
   ec : {"ok", "PNNF", "FAE", "DF", "EIO"}]

HasTrack(r) == r.pc \notin {"idle", "create"}

Control(r) ==
  /\ r.pc \in {"idle", "create"} => r.job = "none"
  /\ r.pc \in {"open", "swap", "allocate", "use", "grown", "data"} => r.job = "file"
  /\ r.pc = "flush" => r.job # "none"
  /\ r.job # "file" => r.spare = NoSpare
  /\ r.job \in {"file", "new"} => r.idx \in Files(r.ent)
  /\ r.pc = "create" \/ r.job = "replace" => r.name \in Names

(* The last entry of the open file, which a growth changes. *)
Grower(r) == LastEntry(r.ent, r.idx)

Extents(r) == r.ent[Grower(r)].ext

Entered(r) ==
  /\ \A j \in Entry : Sound(r.ent[j]) \/ (r.pc = "use" /\ j = Grower(r))
  /\ r.pc = "use" => Growable(r.ent[Grower(r)], r.fresh)

(* An extent was begun in it, which has no sector yet. *)
Pending(r) == r.pc = "use" /\ ~ r.fresh /\ Extents(r)[Len(Extents(r))].count = 0

(* What a path has that the disk has not is in the sectors to write, but    *)
(* for entries P.                                                           *)
AgreeBut(f, e, g, h, d, P) ==
  /\ \A l \in Lsn : l \div MapSector \notin d => (l \in f <=> l \in g)
  /\ \A j \in Entry \ P : 2 + j \div PerSector \notin d => e[j] = h[j]

Excused(r) == IF Pending(r) THEN {Grower(r)} ELSE {}

Agree(f, e, r) == AgreeBut(f, e, r.free, r.ent, r.dirty, Excused(r))

(* The size of the open file. *)
Sized(r) ==
  /\ FileSize(r.ent, r.idx) = r.size
  /\ Len(FileSectors(r.ent, r.idx)) = SectorsFor(r.size)

Growth(r) ==
  /\ r.size < r.goal /\ r.op # "none"
  /\ r.op = "write" => r.pos <= r.goal
  /\ SectorsFor(r.size) <= Len(FileSectors(r.ent, r.idx))
  /\ Len(FileSectors(r.ent, r.idx)) + r.needed = SectorsFor(r.goal)

Sizes(r) ==
  /\ r.pc \in {"open", "data"} => Sized(r)
  /\ r.pc = "flush" /\ r.job \in {"file", "new"} => Sized(r)
  /\ r.pc = "data" => r.old <= r.size /\ r.pos <= r.goal /\ r.goal <= r.size
  /\ r.pc \in {"swap", "allocate", "use", "grown"} => Growth(r) /\ r.old = r.size
  /\ r.pc \in {"swap", "allocate", "use"} => r.needed # 0
  /\ r.pc = "grown" => r.needed = 0

(* The sector behind extents x. *)
End(x) == x[Len(x)].lsn + x[Len(x)].count

(* Where the sectors in reserve are, and what follows the file. *)
Behind(r) ==
  /\ r.pc = "allocate" =>
       /\ r.spare.count = 0
       /\ r.hint \notin r.free \/ (Extents(r) # << >> /\ End(Extents(r)) = r.hint)
  /\ r.pc = "swap" =>
       /\ r.spare.count # 0 /\ r.spare.lsn # r.hint
       /\ Extents(r) # << >> /\ End(Extents(r)) = r.hint
  /\ r.pc = "use" =>
       /\ r.spare.count # 0 /\ r.hint \notin r.free
       /\ ~ r.fresh => End(Extents(r)) = r.spare.lsn

-----------------------------------------------------------------------------

Good(f, e, r, l) ==
  /\ OnDisk(f, e) /\ r \in PathState /\ Control(r) /\ Entered(r)
  /\ ~ HasTrack(r) => IsDirectory(f, e, {}, l)
  /\ HasTrack(r) => IsDirectory(r.free, r.ent, Spare(r), l) /\ Agree(f, e, r)
  /\ Sizes(r) /\ Behind(r)

Inv == lost # "files" => Good(free, ent, s, lost)

-----------------------------------------------------------------------------
(* What a growth leaves on the disk *)

(* The disk has v of an entry of which the path has w: its file may have    *)
(* grown.                                                                   *)
Precedes(v, w) ==
  /\ v.kind = w.kind /\ v.next = w.next
  /\ Begins(SectorsOf(v.ext), SectorsOf(w.ext))
  /\ w.next # NoNext => SectorsOf(v.ext) = SectorsOf(w.ext)

Lags(e, h) ==
  \A i \in Files(e) : i \in Files(h) /\ \A c \in Chain(h, i) : Precedes(e[c], h[c])

(* A call that fails from here on cuts the file to no less than the disk    *)
(* has of it.                                                               *)
Trails(e, r) ==
  /\ Lags(e, r.ent)
  /\ \A i \in Files(r.ent) \ Files(e) : r.ent[i].next = NoNext
  /\ r.job = "file" => r.idx \in Files(e)
  /\ r.pc \in {"swap", "allocate", "use", "grown", "data"} =>
       Len(FileSectors(e, r.idx)) <= SectorsFor(r.old)

Kept(f, e, r) == ~ r.cut => Safe(f, e) /\ (HasTrack(r) => Trails(e, r))

GrowthInv == Inv /\ (lost # "files" => Kept(free, ent, s))
=============================================================================

------------------------------- MODULE RbfInv -------------------------------
(***************************************************************************)
(* The inductive invariant of Rbf, when one path for writing is open at a  *)
(* time: for each place a call can be at, what its path's bitmap marks.    *)
(***************************************************************************)
EXTENDS Rbf

(* What is in use by all but the descriptor c. *)
Others(c) == System \cup UNION { Holds(d, fd[d]) : d \in Live \ {c} }

(* A segment list that names no cluster twice, with the descriptor's own   *)
(* cluster where librbf puts it.                                           *)
Layout(c, f) ==
  /\ Holds(c, f) \cap System = {}
  /\ \A i, j \in DOMAIN f.seg : i # j => Run(f.seg[i]) \cap Run(f.seg[j]) = {}
  /\ Spc = 1 => c \notin SegClusters(f.seg)
  /\ Spc > 1 => f.seg # << >> /\ f.seg[1].start = c

(* Nothing is shared on the disk, and the directory's size is right. *)
Sound ==
  /\ \A c \in Live : Layout(c, fd[c])
  /\ \A c, d \in Live : c # d => Holds(c, fd[c]) \cap Holds(d, fd[d]) = {}
  /\ \A i \in Named : ent[i].at # Root
  /\ \A i, j \in Named : ent[i].at = ent[j].at => i = j
  /\ fd[Root].siz <= Len(ent)
  /\ fd[Root].siz <= MaxSectors(fd[Root].seg) * Bps

(* A bitmap covers X, and is X as long as nothing was leaked. *)
Marks(bm, X) == X \subseteq bm /\ (lost = "nothing" => bm = X)

Linked == lost = "nothing" => \A c \in Files : fd[c].lnk = 1

(* What an interrupted call may leave out of the disk's bitmap. *)
Covered(r) ==
  /\ System \subseteq dbm
  /\ \A c \in Live :
       \/ Holds(c, fd[c]) \subseteq dbm
       \/ r.job = "file" /\ c = r.at
       \/ r.job = "create" /\ c \in {Root, r.new}

(* List new is list old, grown. *)
Grown(old, new) ==
  /\ Len(old) <= Len(new)
  /\ \A i \in DOMAIN old : new[i].start = old[i].start /\ old[i].n <= new[i].n

(* The descriptor a write has in memory. *)
Extending(r) ==
  /\ r.at \in Live
  /\ r.orig = fd[r.at] /\ r.cur.lnk = r.orig.lnk
  /\ Grown(r.orig.seg, r.cur.seg)
  /\ Layout(r.at, r.cur)
  /\ Holds(r.at, r.cur) \cap Others(r.at) = {}

(* A created file's descriptor: it is on the disk, and nothing else is     *)
(* where it is.                                                            *)
FreshFd(r) ==
  /\ fd[r.new] = NewFd(r.new)
  /\ r.new \notin Holds(Root, r.cur)
  /\ r.new \notin Others(r.new)
  /\ r.entry.name \in Names /\ r.entry.at = r.new

(* The entry at slot i, of a file about to be removed or renamed. *)
OldEntry(r, i) == i \in Named /\ ent[i].at = r.new

AtExtend(r) ==
  /\ Extending(r)
  /\ r.cur.siz = r.orig.siz
  /\ r.job = "file" =>
       /\ r.at # Root
       /\ Marks(r.bitmap, InUse \cup Holds(r.at, r.cur))
  /\ r.job # "file" =>
       /\ r.at = Root
       /\ r.goal = r.pos + 1
       /\ r.goal <= fd[Root].siz => r.cur = r.orig
  /\ r.job = "create" =>
       /\ FreshFd(r)
       /\ r.new \notin Live
       /\ Marks(dbm, InUse)
       /\ r.pos <= fd[Root].siz
       /\ r.pos + 1 \in Slots => ent[r.pos + 1].name = NoName
       /\ Marks(r.bitmap, InUse \cup Holds(Root, r.cur) \cup {r.new})
  /\ r.job \in {"delete", "recreate"} =>
       /\ OldEntry(r, r.pos + 1)
       /\ r.entry.name = NoName
       /\ Marks(r.bitmap, InUse \ Holds(r.new, fd[r.new]))
       /\ lost = "nothing" => \A c \in Files \ {r.new} : fd[c].lnk = 1
  /\ r.job = "rename" =>
       /\ OldEntry(r, r.pos + 1)
       /\ r.entry.name \in Names /\ r.entry.at = r.new
       /\ Marks(r.bitmap, InUse)
  /\ r.job \notin {"delete", "recreate"} => Linked

AtPutFd(r) ==
  /\ Extending(r)
  /\ Linked
  /\ r.job = "file" =>
       /\ r.at # Root
       /\ Marks(r.bitmap, InUse \cup Holds(r.at, r.cur))
  /\ r.job # "file" => r.at = Root
  /\ r.job = "create" =>
       /\ FreshFd(r)
       /\ r.goal \in 1 .. Len(ent)
       /\ ent[r.goal] = r.entry
       /\ \/ r.goal <= fd[Root].siz /\ r.cur = r.orig
          \/ r.goal = fd[Root].siz + 1 /\ r.cur.siz = r.goal /\ r.new \notin Live
       /\ r.cur.siz <= MaxSectors(r.cur.seg) * Bps
       /\ Marks(r.bitmap, InUse \cup Holds(Root, r.cur) \cup {r.new})
  /\ r.job \in {"delete", "recreate", "rename"} =>
       /\ r.cur = r.orig
       /\ Marks(r.bitmap, InUse)

AtTruncate(r) ==
  /\ r.job = "file"
  /\ r.at \in Files
  /\ r.orig = fd[r.at] /\ r.cur.lnk = r.orig.lnk
  /\ Layout(r.at, r.cur)
  /\ Holds(r.at, r.cur) \subseteq Holds(r.at, r.orig)
  /\ Marks(r.bitmap, Others(r.at) \cup Holds(r.at, r.cur))
  /\ Linked

(* Where a call can be at, and what holds there. *)
PathInv(r) ==
  /\ r.pc \in {"parent", "reopen"} =>
       Marks(dbm, InUse) /\ Linked /\ r.job = "none" /\ r.name \in Names
  /\ r.pc \notin {"parent", "reopen"} => r.saved = dbm /\ r.job # "none"
  /\ r.pc # "putmap" => r.ec = "ok"
  /\ Covered(r)
  /\ r.pc \in {"open", "check", "unlink", "release"} => Marks(r.bitmap, InUse)
  /\ r.pc \in {"open", "check", "unlink", "newfd"} => Linked
  /\ r.pc \in {"check", "unlink", "newfd"} => Marks(dbm, InUse)
  /\ r.pc = "open" => r.job = "file" /\ r.at \in Files
  /\ r.pc \in {"check", "newfd"} =>
       r.job = "create" /\ r.at = Root /\ r.name \in Names
  /\ r.pc = "newfd" =>
       /\ r.entry.name \in Names /\ r.entry.at = r.new
       /\ r.new \notin InUse
       /\ Marks(r.bitmap, InUse \cup {r.new})
  /\ r.pc \in {"unlink", "release"} =>
       r.job \in {"delete", "recreate"} /\ r.at = Root
  /\ r.pc = "release" =>
       /\ OldEntry(r, r.pos + 1)
       /\ r.entry.name = NoName
       /\ lost = "nothing" =>
            fd[r.new].lnk = 0 /\ \A c \in Files \ {r.new} : fd[c].lnk = 1
  /\ r.pc = "extend" => AtExtend(r)
  /\ r.pc = "putfd" => AtPutFd(r)
  /\ r.pc = "truncate" => AtTruncate(r)
  /\ r.pc = "putmap" /\ r.ec # "EIO" => Marks(r.bitmap, InUse) /\ Linked
  /\ r.pc = "putmap" /\ r.ec \notin {"ok", "EIO"} => Marks(dbm, InUse)
  /\ r.job \in {"create", "recreate", "delete"} => r.name \in Names

Good ==
  /\ Sound
  /\ AtRest => Marks(dbm, InUse) /\ Linked
  /\ \A r \in { s[p] : p \in Paths } : r.pc # "idle" => PathInv(r)

OnePath == \A p, q \in Paths : s[p].pc # "idle" /\ s[q].pc # "idle" => p = q

Inv == OnePath /\ (lost # "files" => Good)
-----------------------------------------------------------------------------
(* Sizes and segments: what holds, beside Inv, of a file's descriptor on   *)
(* the disk and of the copy a write or a close works on.                   *)

OneMapSector(segs) ==
  \A i \in DOMAIN segs :
    segs[i].start \div MapSector = (segs[i].start + segs[i].n - 1) \div MapSector

Fits(f) == SectorsNeeded(f.siz) <= MaxSectors(f.seg)

Proper(f) == ~ f.dir /\ OneMapSector(f.seg) /\ (Growing \/ Fits(f))

OpenOn(c) ==
  \E p \in Paths : s[p].pc # "idle" /\ s[p].job = "file" /\ s[p].at = c

(* A file that no path has open was trimmed when it was closed. *)
FilesFit ==
  \A c \in Files : Proper(fd[c]) /\ (OpenOn(c) \/ ~ CanCut(fd[c]))

PathFits(r) ==
  r.pc # "idle" /\ r.job = "file" =>
    /\ r.pc \in {"extend", "putfd", "truncate"} => Proper(r.cur)
    /\ r.pc = "putmap" => r.ec = "EIO" \/ (r.ec = "ok" /\ ~ CanCut(fd[r.at]))

FitInv == lost # "files" => FilesFit /\ \A p \in Paths : PathFits(s[p])
=============================================================================

--------------------------------- MODULE Rbf ---------------------------------
(***************************************************************************)
(* librbf: files of one directory of an OS-9 RBF disk image, through open  *)
(* paths.                                                                  *)
(*                                                                         *)
(* Every image write goes straight to the image (libdiskimage flushes it), *)
(* except the allocation bitmap: _os9_open reads it into the path, all     *)
(* allocation is done in that copy, and _os9_close writes the copy back if *)
(* it changed.  So an operation is a sequence of steps, one per image      *)
(* write or round of an allocation loop; pc says which comes next.  What   *)
(* may come between two steps: the same of another path (cocofuse serves   *)
(* requests from several threads and keeps paths open), a failing write,   *)
(* the end of the process.                                                 *)
(***************************************************************************)
EXTENDS RbfFd

CONSTANTS
  Paths,       \* path descriptors
  Names,       \* file names
  NoName,      \* name of a deleted directory entry (first byte 0)
  Dot,         \* names "." and ".."
  Root,        \* cluster of the root directory's descriptor (dd_dir / spc)
  RootN,       \* clusters _os9_format gives the root directory's segment
  WriteSizes,  \* sizes of one write, in directory entries
  MaxSize,     \* bound: no write ends past this size
  Exclusive,   \* one path for writing at a time, as in the command line tools
  Serial,      \* one call at a time, as in a single-threaded mount
  Faults,      \* image writes may fail
  Crashes,     \* the process may end between two steps
  Growing      \* _os9_ss_size may be asked to enlarge a file

FirstOfRoot == IF Spc > 1 THEN Root ELSE Root + 1

ASSUME RbfAssumption ==
  /\ Root \in Nat \ {0} /\ RootN \in Nat \ {0}
  /\ FirstOfRoot + RootN <= TotalClusters
  /\ NoName \notin Names /\ Dot \notin Names /\ NoName # Dot
  /\ WriteSizes \subseteq Nat \ {0}
  /\ MaxSize \in Nat
  /\ {Exclusive, Serial, Faults, Crashes, Growing} \subseteq BOOLEAN

VARIABLES
  dbm,   \* the bitmap on the disk
  fd,    \* fd[c]: the descriptor sector of cluster c
  ent,   \* the entries of the root directory's data
  s,     \* s[p]: the state of path p
  lost   \* the worst that failed writes and ended processes may have cost:
         \* "nothing", "clusters" (marked but unused), "files" (anything)

vars == << dbm, fd, ent, s, lost >>

System == 0 .. (Root - 1)

NoFd == [lnk |-> 0, siz |-> 0, seg |-> << >>, dir |-> FALSE]

RootFd ==
  [lnk |-> 1, siz |-> 2, dir |-> TRUE,
   seg |-> << [start |-> FirstOfRoot, n |-> RootN] >>]

Entry == [name : Names \cup {NoName, Dot}, at : Cluster]

DotEntry == [name |-> Dot, at |-> Root]

Idle ==
  [pc |-> "idle", job |-> "none", name |-> NoName, at |-> Root,
   bitmap |-> {}, saved |-> {}, pos |-> 0, goal |-> 0,
   cur |-> NoFd, orig |-> NoFd, new |-> Root, entry |-> DotEntry, ec |-> "ok"]

Init ==
  /\ dbm = 0 .. (FirstOfRoot + RootN - 1)
  /\ fd = [c \in Cluster |-> IF c = Root THEN RootFd ELSE NoFd]
  /\ ent = << DotEntry, DotEntry >>
  /\ s = [p \in Paths |-> Idle]
  /\ lost = "nothing"

-----------------------------------------------------------------------------
(* Helpers *)

(* The entries _os9_readdir returns are those within the directory's size. *)
Slots == { i \in DOMAIN ent : i <= fd[Root].siz }

IsFirst(i, S) == i \in S /\ \A j \in S : i <= j

(* The entry a search for name n stops at. *)
Found(n, i) == IsFirst(i, { j \in Slots : ent[j].name = n })

Exists(n) == \E i \in Slots : ent[i].name = n

(* _os9_open: the path takes its own copy of the bitmap. *)
Opened(pc, job, c, n) ==
  [Idle EXCEPT !.pc = pc, !.job = job, !.at = c, !.name = n,
               !.bitmap = dbm, !.saved = dbm]

(* The start of _os9_write of k bytes at pos, once it has read descriptor f.*)
Writing(r, f, pos, k) ==
  [r EXCEPT !.pc = "extend", !.pos = pos, !.goal = pos + k,
            !.cur = f, !.orig = f]

(* Mutant: a failed write takes the path's bitmap back to the one it read. *)
WriteFailedToSaved(r, bm, e) ==
  IF r.job = "file"
    THEN [r EXCEPT !.pc = "open", !.bitmap = r.saved, !.goal = 0,
                   !.cur = NoFd, !.orig = NoFd]
    ELSE [r EXCEPT !.pc = "putmap", !.ec = e, !.bitmap = r.saved]

(* What a failed _os9_write leads to: the caller's path stays open; the    *)
(* directory path of create, delete and rename is closed, and _os9_create  *)
(* first gives back the cluster of the new descriptor.                     *)
WriteFailed(r, bm, e) ==
  IF r.job = "file"
    THEN [r EXCEPT !.pc = "open", !.bitmap = bm, !.goal = 0,
                   !.cur = NoFd, !.orig = NoFd]
    ELSE [r EXCEPT !.pc = "putmap", !.ec = e, !.bitmap =
                     IF r.job = "create" THEN bm \ {r.new} ELSE bm]

Put(p, r) == s' = [s EXCEPT ![p] = r]

Harm(h) == lost' = IF lost = "nothing" \/ h = "files" THEN h ELSE lost

Called(p, pc) ==
  /\ s[p].pc = pc
  /\ Serial => \A q \in Paths : s[q].pc \in {"idle", "open"}

Begin(p) ==
  /\ Called(p, "idle")
  /\ Exclusive => \A q \in Paths : s[q].pc = "idle"

-----------------------------------------------------------------------------
(* _os9_open of a file for writing, _os9_seek, _os9_ss_size *)

Open(p, n) ==
  /\ Begin(p)
  /\ \E i \in Slots : Found(n, i) /\ Put(p, Opened("open", "file", ent[i].at, n))
  /\ UNCHANGED << dbm, fd, ent, lost >>

Seek(p, pos) ==
  /\ Called(p, "open")
  /\ Put(p, [s[p] EXCEPT !.pos = pos])
  /\ UNCHANGED << dbm, fd, ent, lost >>

(* Only the size in the descriptor changes, no cluster does; so a put that *)
(* fails changes nothing.                                                  *)
SetSize(p, siz) ==
  LET c == s[p].at IN
  /\ Called(p, "open")
  /\ siz <= fd[c].siz \/ Growing
  /\ fd' = [fd EXCEPT ![c].siz = siz]
  /\ UNCHANGED << dbm, ent, s, lost >>

-----------------------------------------------------------------------------
(* _os9_write and _os9_extendSegList *)

(* A write past the end of the file is refused with EOS_EOF. *)
Write(p, k) ==
  LET r == s[p] IN
  /\ Called(p, "open")
  /\ r.pos <= fd[r.at].siz
  /\ r.pos + k <= MaxSize
  /\ Put(p, Writing(r, fd[r.at], r.pos, k))
  /\ UNCHANGED << dbm, fd, ent, lost >>

NeedsRoom(r) == MaxSectors(r.cur.seg) * Bps < r.goal

ExtendLast(p) ==
  LET r == s[p] IN
  /\ r.pc = "extend" /\ NeedsRoom(r)
  /\ CanGrowLast(r.bitmap, r.cur.seg)
  /\ Put(p, [r EXCEPT !.cur.seg = GrowLast(r.cur.seg),
                      !.bitmap = @ \cup {NextCluster(r.cur.seg)}])
  /\ UNCHANGED << dbm, fd, ent, lost >>

(* RBF keeps the last entry of the list empty. *)
NewSegment(p) ==
  LET r == s[p] IN
  /\ r.pc = "extend" /\ NeedsRoom(r)
  /\ ~ CanGrowLast(r.bitmap, r.cur.seg)
  /\ Len(r.cur.seg) < NumSegs - 1
  /\ \E first \in Cluster, n \in 1 .. TotalClusters :
       /\ IsSasSegment(r.bitmap, ReqClusters, first, n)
       /\ Put(p, [r EXCEPT
            !.cur.seg = Append(r.cur.seg, [start |-> first, n |-> n]),
            !.bitmap = @ \cup (first .. (first + n - 1))])
  /\ UNCHANGED << dbm, fd, ent, lost >>

(* Mutant: what the write has allocated stays allocated. *)
RollBackNothing(p, e) ==
  LET r == s[p] IN
  /\ r.pc = "extend" /\ NeedsRoom(r)
  /\ ~ CanGrowLast(r.bitmap, r.cur.seg)
  /\ IF Len(r.cur.seg) < NumSegs - 1
       THEN e = "EOS_DF" /\ Cluster \subseteq r.bitmap
       ELSE e = "EOS_SF"
  /\ Put(p, WriteFailed(r, r.bitmap, e))
  /\ UNCHANGED << dbm, fd, ent, lost >>

(* Mutant: a full segment list is not noticed. *)
RollBackIfFull(p, e) ==
  LET r == s[p] IN
  /\ r.pc = "extend" /\ NeedsRoom(r)
  /\ ~ CanGrowLast(r.bitmap, r.cur.seg)
  /\ e = "EOS_DF" /\ Cluster \subseteq r.bitmap
  /\ Put(p, WriteFailed(r, r.bitmap \ Gained(r.orig.seg, r.cur.seg), e))
  /\ UNCHANGED << dbm, fd, ent, lost >>

RollBack(p, e) ==
  LET r == s[p] IN
  /\ r.pc = "extend" /\ NeedsRoom(r)
  /\ ~ CanGrowLast(r.bitmap, r.cur.seg)
  /\ IF Len(r.cur.seg) < NumSegs - 1
       THEN e = "EOS_DF" /\ Cluster \subseteq r.bitmap
       ELSE e = "EOS_SF"
  /\ Put(p, WriteFailed(r, r.bitmap \ Gained(r.orig.seg, r.cur.seg), e))
  /\ UNCHANGED << dbm, fd, ent, lost >>

(* The data of a directory is its entries, one per write; that of other    *)
(* files is left out.                                                      *)
Stored(r) ==
  IF r.job = "file" THEN ent
  ELSE IF r.pos < Len(ent) THEN [ent EXCEPT ![r.pos + 1] = r.entry]
  ELSE Append(ent, r.entry)

PutData(p) ==
  LET r == s[p] IN
  /\ r.pc = "extend" /\ ~ NeedsRoom(r)
  /\ ent' = Stored(r)
  /\ Put(p, [r EXCEPT !.pc = "putfd", !.pos = r.goal,
               !.cur.siz = IF r.goal > @ THEN r.goal ELSE @])
  /\ UNCHANGED << dbm, fd, lost >>

(* Nothing is rolled back: what was allocated for the data stays so. *)
PutDataFails(p) ==
  LET r == s[p] IN
  /\ Faults
  /\ r.pc = "extend" /\ ~ NeedsRoom(r)
  /\ \E pos \in r.pos .. (r.goal - 1) :
       /\ pos = r.pos \/ \E i \in DOMAIN r.cur.seg :
                           pos = Bps * MaxSectors(SubSeq(r.cur.seg, 1, i))
       /\ Put(p, WriteFailed([r EXCEPT !.pos = pos], r.bitmap, "EIO"))
  /\ IF r.job = "file" THEN Harm("clusters") ELSE lost' = lost
  /\ UNCHANGED << dbm, fd, ent >>

PutFd(p) ==
  LET r == s[p] IN
  /\ r.pc = "putfd"
  /\ \/ /\ fd' = [fd EXCEPT ![r.at] = r.cur]
        /\ Put(p, [r EXCEPT !.pc = IF r.job = "file" THEN "open" ELSE "putmap",
                            !.goal = 0, !.cur = NoFd, !.orig = NoFd])
        /\ lost' = lost
     \/ /\ Faults
        /\ fd' = fd
        /\ Put(p, WriteFailed(r, r.bitmap, "EIO"))
        /\ IF r.job = "file" THEN Harm("clusters") ELSE lost' = lost
  /\ UNCHANGED << dbm, ent >>

-----------------------------------------------------------------------------
(* _os9_close: _os9_truncate_seg_list, then term_bitmap *)

Close(p) ==
  LET r == s[p] IN
  /\ Called(p, "open")
  /\ Put(p, [r EXCEPT !.pc = IF fd[r.at].dir THEN "putmap" ELSE "truncate",
                      !.pos = 0, !.cur = fd[r.at], !.orig = fd[r.at]])
  /\ UNCHANGED << dbm, fd, ent, lost >>

Cut(p) ==
  LET r == s[p] IN
  /\ r.pc = "truncate"
  /\ CanCut(r.cur)
  /\ Put(p, [r EXCEPT !.cur.seg = CutLast(r.cur.seg),
                      !.bitmap = @ \ {LastCluster(r.cur.seg)}])
  /\ UNCHANGED << dbm, fd, ent, lost >>

(* Mutant: the error of the descriptor's write is dropped. *)
PutCutSilent(p) ==
  LET r == s[p] IN
  /\ r.pc = "truncate"
  /\ ~ CanCut(r.cur)
  /\ fd' \in {fd, [fd EXCEPT ![r.at] = r.cur]}
  /\ Put(p, [r EXCEPT !.pc = "putmap", !.cur = NoFd, !.orig = NoFd])
  /\ UNCHANGED << dbm, ent, lost >>

PutCut(p) ==
  LET r == s[p] IN
  /\ r.pc = "truncate"
  /\ ~ CanCut(r.cur)
  /\ \/ /\ fd' = IF r.cur = r.orig THEN fd ELSE [fd EXCEPT ![r.at] = r.cur]
        /\ Put(p, [r EXCEPT !.pc = "putmap", !.cur = NoFd, !.orig = NoFd])
     \/ /\ Faults /\ r.cur # r.orig
        /\ fd' = fd
        /\ Put(p, [r EXCEPT !.pc = "putmap", !.cur = NoFd, !.orig = NoFd,
                            !.ec = "EIO"])
  /\ UNCHANGED << dbm, ent, lost >>

(* What the closed path's operation goes on with. *)
After(r, e) ==
  CASE r.job = "create" /\ e = "ok" ->
         [Idle EXCEPT !.pc = "reopen", !.name = r.name]
    [] r.job = "recreate" /\ e = "ok" ->
         [Idle EXCEPT !.pc = "parent", !.name = r.name]
    [] OTHER -> Idle

Return(p, r, e) ==
  /\ Put(p, After(r, e))
  /\ IF e = "EIO" THEN Harm("files") ELSE lost' = lost

(* The whole bitmap is written, and only if it changed.  The first error   *)
(* is what the close returns.                                              *)
PutBitmap(p) ==
  LET r == s[p] IN
  /\ r.pc = "putmap"
  /\ \/ /\ dbm' = IF r.bitmap = r.saved THEN dbm ELSE r.bitmap
        /\ Return(p, r, r.ec)
     \/ /\ Faults /\ r.bitmap # r.saved
        /\ dbm' = dbm
        /\ Return(p, r, IF r.ec = "ok" THEN "EIO" ELSE r.ec)
  /\ UNCHANGED << fd, ent >>

-----------------------------------------------------------------------------
(* _os9_create *)

Create(p, n) ==
  /\ Begin(p)
  /\ Put(p, [Idle EXCEPT !.pc = "parent", !.name = n])
  /\ UNCHANGED << dbm, fd, ent, lost >>

OpenParent(p) ==
  /\ s[p].pc = "parent"
  /\ Put(p, Opened("check", "create", Root, s[p].name))
  /\ UNCHANGED << dbm, fd, ent, lost >>

(* The name is taken: the parent is closed unchanged and _os9_delete opens *)
(* it again.                                                               *)
Replace(p) ==
  /\ s[p].pc = "check"
  /\ Exists(s[p].name)
  /\ Put(p, Opened("unlink", "recreate", Root, s[p].name))
  /\ UNCHANGED << dbm, fd, ent, lost >>

(* Mutant: the cluster found is not marked. *)
AllocateFdUnmarked(p) ==
  LET r == s[p] IN
  /\ r.pc = "check"
  /\ ~ Exists(r.name)
  /\ \E c \in Cluster :
       /\ IsFreeBit(r.bitmap, c)
       /\ Put(p, [r EXCEPT !.pc = "newfd", !.new = c,
                           !.entry = [name |-> r.name, at |-> c]])
  /\ UNCHANGED << dbm, fd, ent, lost >>

AllocateFd(p) ==
  LET r == s[p] IN
  /\ r.pc = "check"
  /\ ~ Exists(r.name)
  /\ \/ \E c \in Cluster :
          /\ IsFreeBit(r.bitmap, c)
          /\ Put(p, [r EXCEPT !.pc = "newfd", !.new = c, !.bitmap = @ \cup {c},
                              !.entry = [name |-> r.name, at |-> c]])
     \/ /\ \A c \in Cluster : c >= 2 => c \in r.bitmap
        /\ Put(p, [r EXCEPT !.pc = "putmap", !.ec = "EOS_DF"])
  /\ UNCHANGED << dbm, fd, ent, lost >>

(* The first deleted entry, or the end of the directory. *)
IsFreeSlot(i) ==
  LET deleted == { j \in Slots : ent[j].name = NoName } IN
  IF deleted = {} THEN i = fd[Root].siz + 1 ELSE IsFirst(i, deleted)

PutNewFd(p) ==
  LET r == s[p] IN
  /\ r.pc = "newfd"
  /\ \/ /\ fd' = [fd EXCEPT ![r.new] = NewFd(r.new)]
        /\ \E i \in 1 .. (fd[Root].siz + 1) :
             IsFreeSlot(i) /\ Put(p, Writing(r, fd[r.at], i - 1, 1))
     \/ /\ Faults
        /\ fd' = fd
        /\ Put(p, [r EXCEPT !.pc = "putmap", !.ec = "EIO",
                            !.bitmap = @ \ {r.new}])
  /\ UNCHANGED << dbm, ent, lost >>

(* The last step of _os9_create opens the file it made. *)
Reopen(p) ==
  LET n == s[p].name IN
  /\ s[p].pc = "reopen"
  /\ \/ \E i \in Slots : Found(n, i) /\ Put(p, Opened("open", "file", ent[i].at, n))
     \/ ~ Exists(n) /\ Put(p, Idle)
  /\ UNCHANGED << dbm, fd, ent, lost >>

-----------------------------------------------------------------------------
(* _os9_delete *)

Delete(p, n) ==
  /\ Begin(p)
  /\ Put(p, Opened("unlink", "delete", Root, n))
  /\ UNCHANGED << dbm, fd, ent, lost >>

NotFound(p) ==
  /\ s[p].pc = "unlink"
  /\ ~ Exists(s[p].name)
  /\ Put(p, [s[p] EXCEPT !.pc = "putmap", !.ec = "EOS_PNNF"])
  /\ UNCHANGED << dbm, fd, ent, lost >>

(* DecrementLinkCount; fd_lnk is a byte. *)
Unlink(p) ==
  LET r == s[p] IN
  /\ r.pc = "unlink"
  /\ \E i \in Slots :
       /\ Found(r.name, i)
       /\ LET c == ent[i].at IN
          \/ /\ fd' = [fd EXCEPT ![c].lnk = (@ + 255) % 256]
             /\ Put(p, [r EXCEPT !.pc = "release", !.new = c, !.pos = i - 1,
                                 !.entry = [name |-> NoName, at |-> c]])
          \/ /\ Faults
             /\ fd' = fd
             /\ Put(p, [r EXCEPT !.pc = "putmap", !.ec = "EIO"])
  /\ UNCHANGED << dbm, ent, lost >>

(* Mutant: the descriptor's own cluster is kept. *)
ReleaseSegments(p) ==
  LET r == s[p] IN
  /\ r.pc = "release"
  /\ Put(p, Writing([r EXCEPT !.bitmap = @ \ SegClusters(fd[r.new].seg)],
                    fd[r.at], r.pos, 1))
  /\ UNCHANGED << dbm, fd, ent, lost >>

(* Mutant: the bitmap is written before the entry. *)
ReleaseAtOnce(p) ==
  LET r == s[p] IN
  /\ r.pc = "release"
  /\ dbm' = r.bitmap \ Holds(r.new, fd[r.new])
  /\ Put(p, Writing([r EXCEPT !.bitmap = dbm'], fd[r.at], r.pos, 1))
  /\ UNCHANGED << fd, ent, lost >>

(* _os9_freefile and the descriptor's own cluster, if that was the last    *)
(* link; then the entry is written with an empty name.                     *)
Release(p) ==
  LET r == s[p] IN
  /\ r.pc = "release"
  /\ Put(p, Writing(IF fd[r.new].lnk < 1
                      THEN [r EXCEPT !.bitmap = @ \ Holds(r.new, fd[r.new])]
                      ELSE r,
                    fd[r.at], r.pos, 1))
  /\ UNCHANGED << dbm, fd, ent, lost >>

-----------------------------------------------------------------------------
(* _os9_rename *)

Rename(p, n, m) ==
  /\ Begin(p)
  /\ ~ (Exists(m) /\ m # n)
  /\ \E i \in Slots :
       /\ Found(n, i)
       /\ Put(p, Writing([Opened("extend", "rename", Root, m) EXCEPT
                            !.new = ent[i].at,
                            !.entry = [name |-> m, at |-> ent[i].at]],
                         fd[Root], i - 1, 1))
  /\ UNCHANGED << dbm, fd, ent, lost >>

-----------------------------------------------------------------------------
(* The end of the process: what the paths held in memory is gone.  While a *)
(* file is removed or renamed this costs no more than its clusters.        *)
Removing(r) == r.job \in {"none", "delete", "recreate", "rename"}

Crash ==
  /\ Crashes
  /\ \E p \in Paths : s[p].pc # "idle"
  /\ s' = [p \in Paths |-> Idle]
  /\ Harm(IF \A p \in Paths : Removing(s[p]) THEN "clusters" ELSE "files")
  /\ UNCHANGED << dbm, fd, ent >>

(* A caller's request. *)
Request(p) ==
  \/ \E n \in Names : Open(p, n) \/ Create(p, n) \/ Delete(p, n)
  \/ \E n, m \in Names : Rename(p, n, m)
  \/ \E pos \in 0 .. MaxSize : Seek(p, pos)
  \/ \E siz \in 0 .. MaxSize : SetSize(p, siz)
  \/ \E k \in WriteSizes : Write(p, k)
  \/ Close(p)

(* The next step of a library function that is running. *)
Step(p) ==
  \/ OpenParent(p) \/ Replace(p) \/ AllocateFd(p) \/ PutNewFd(p) \/ Reopen(p)
  \/ NotFound(p) \/ Unlink(p) \/ Release(p)
  \/ ExtendLast(p) \/ NewSegment(p) \/ PutData(p) \/ PutDataFails(p) \/ PutFd(p)
  \/ \E e \in {"EOS_DF", "EOS_SF"} : RollBack(p, e)
  \/ Cut(p) \/ PutCut(p) \/ PutBitmap(p)

Next ==
  \/ \E p \in Paths : Request(p) \/ Step(p)
  \/ Crash

Spec == Init /\ [][Next]_vars

(* A library function that was called runs on until it returns. *)
FairSpec == Spec /\ \A p \in Paths : WF_vars(Step(p))

-----------------------------------------------------------------------------
(* Properties *)

Session ==
  [pc : {"idle", "open", "extend", "putfd", "truncate", "putmap", "parent",
         "check", "newfd", "reopen", "unlink", "release"},
   job : {"none", "file", "create", "recreate", "delete", "rename"},
   name : Names \cup {NoName},
   at : Cluster, bitmap : SUBSET Cluster, saved : SUBSET Cluster,
   pos : Nat, goal : Nat, cur : Fd, orig : Fd, new : Cluster, entry : Entry,
   ec : {"ok", "EIO", "EOS_DF", "EOS_SF", "EOS_PNNF"}]

(* Every variable has its type. *)
TypeOK ==
  /\ dbm \subseteq Cluster
  /\ fd \in [Cluster -> Fd]
  /\ ent \in Seq(Entry)
  /\ s \in [Paths -> Session]
  /\ lost \in {"nothing", "clusters", "files"}

(* The descriptors the directory reaches, and all the clusters in use. *)
Named == { i \in Slots : ent[i].name \in Names }

Files == { ent[i].at : i \in Named }

Live == Files \cup {Root}

InUse == System \cup UNION { Holds(c, fd[c]) : c \in Live }

AtRest == \A p \in Paths : s[p].pc = "idle"

(* Two files never hold the same cluster, no file holds one of the system  *)
(* area or of the root directory, no segment list names one twice, and no  *)
(* two entries name the same descriptor (librbf makes no hard links).      *)
NoSharedCluster ==
  lost # "files" =>
    /\ \A c \in Live :
         /\ Holds(c, fd[c]) \cap System = {}
         /\ \A d \in Live :
              c # d => Holds(c, fd[c]) \cap Holds(d, fd[d]) = {}
         /\ \A i, j \in DOMAIN fd[c].seg :
              i # j => Run(fd[c].seg[i]) \cap Run(fd[c].seg[j]) = {}
    /\ \A i, j \in Named : ent[i].at = ent[j].at => i = j

(* When no path is open, the bitmap on the disk marks exactly the clusters *)
(* in use: what a failed create or write took is free again, a deleted     *)
(* file's clusters all are, and a failed image write that could have left  *)
(* it otherwise was reported to a caller.                                  *)
AtRestExact == AtRest /\ lost = "nothing" => dbm = InUse

(* While a file is open, its path's bitmap is exact between two calls,     *)
(* also after a write that ran out of clusters or of segments.             *)
OpenExact ==
  lost = "nothing" => \A p \in Paths : s[p].pc = "open" => s[p].bitmap = InUse

(* A write to a file that fails half way, and the end of the process while *)
(* a file is removed or renamed, leave clusters marked that no file holds, *)
(* and never a file's cluster unmarked.                                    *)
FailureOnlyLeaks ==
  lost # "files" =>
    /\ AtRest => InUse \subseteq dbm
    /\ \A p \in Paths : s[p].pc = "open" => InUse \subseteq s[p].bitmap

(* At every instant the bitmap on the disk covers the system area and every*)
(* file, but for the file open for writing, or the file being created and  *)
(* its directory.  So the end of the process can expose no other file, and *)
(* a delete or rename exposes none.                                        *)
OnlyGrowthIsExposed ==
  lost # "files" =>
    /\ System \subseteq dbm
    /\ \A c \in Live :
         \/ Holds(c, fd[c]) \subseteq dbm
         \/ \E p \in Paths :
              \/ s[p].job = "file" /\ c = s[p].at
              \/ s[p].job = "create" /\ c \in {Root, s[p].new}

(* The segments of a file always hold all of its size, and once it is       *)
(* closed no cluster that the size does not need.                           *)
SizeMatchesSegments ==
  lost # "files" =>
    /\ \A c \in Live : SectorsNeeded(fd[c].siz) <= MaxSectors(fd[c].seg)
    /\ AtRest => \A c \in Files : ~ CanCut(fd[c])

(* A segment never crosses into another sector of the bitmap (the root     *)
(* directory's may be laid so by a format).                                *)
SegmentsInOneMapSector ==
  lost # "files" => \A c \in Files : \A i \in DOMAIN fd[c].seg :
    LET g == fd[c].seg[i] IN
    g.start \div MapSector = (g.start + g.n - 1) \div MapSector

(* Every call returns. *)
CallsReturn ==
  \A p \in Paths : s[p].pc \notin {"idle", "open"} ~> s[p].pc \in {"idle", "open"}
=============================================================================

------------------------------ MODULE DragonDos ------------------------------
(***************************************************************************)
(* libdragondos: the files of a Dragon DOS disk image.                     *)
(*                                                                         *)
(* A path works on the directory track in memory: every call changes the   *)
(* bitmap and the entries there and, at its end, writes the sectors of the *)
(* track it changed, in order.  The bitmap's sectors come first.  Data     *)
(* goes straight to the image.  A call is a sequence of steps: one for     *)
(* each write to the image, one for each round of the loop that grows a    *)
(* file; pc says which comes next.  One path is open at a time             *)
(* ("Writers are expected to be alone on an image", dragondospath.h).      *)
(***************************************************************************)
EXTENDS DragonDir

CONSTANTS
  WriteSizes,  \* bound: sizes of one write
  Positions,   \* bound: positions a seek goes to
  SetSizes,    \* bound: sizes a file is set to
  MaxSize,     \* bound: no write ends past this size
  Faults,      \* image writes may fail
  Crashes      \* the process may end between two steps

ASSUME DosAssumption ==
  /\ WriteSizes \subseteq Nat \ {0}
  /\ {Positions, SetSizes} \subseteq SUBSET (0 .. MaxSize)
  /\ MaxSize \in Nat
  /\ {Faults, Crashes} \subseteq BOOLEAN

VARIABLES
  free,  \* the bitmap on the disk: the sectors that are free
  ent,   \* ent[i]: the directory entry i on the disk
  s,     \* the path
  lost   \* the worst that failures may have cost: "nothing", "sectors"
         \* (marked but unused), "files" (anything)

vars == << free, ent, s, lost >>

NoSpare == [lsn |-> 0, count |-> 0]

NoEntries == [i \in Entry |-> Deleted]

Idle ==
  [pc |-> "idle", job |-> "none", name |-> NoName, free |-> {}, ent |-> NoEntries,
   dirty |-> {}, cut |-> FALSE, idx |-> 0, pos |-> 0, size |-> 0, spare |-> NoSpare,
   op |-> "none", goal |-> 0, old |-> 0, needed |-> 0, hint |-> NoHint, fresh |-> FALSE,
   ec |-> "ok"]

(* The disk as _dragondos_dskinit makes it. *)
Init ==
  /\ free = Lsn \ System
  /\ ent = NoEntries
  /\ s = Idle
  /\ lost = "nothing"

-----------------------------------------------------------------------------
(* Helpers *)

Done(e) == [Idle EXCEPT !.ec = e]

(* The sectors of the directory track that hold the bits of sectors S of    *)
(* the disk and the entries E.                                              *)
TrackSectors(S, E) == { l \div MapSector : l \in S } \cup { 2 + j \div PerSector : j \in E }

OfTrackSector(i) ==
  [lsns |-> { l \in Lsn : l \div MapSector = i },
   entries |-> { j \in Entry : 2 + j \div PerSector = i }]

Found(n, i) == i \in Named(ent, n) /\ \A j \in Named(ent, n) : i <= j

Loaded(r) == [r EXCEPT !.free = free, !.ent = ent]

(* _dd_truncate *)
Cut(r, size) ==
  LET gone == Released(r.ent, r.idx, size) IN
  [r EXCEPT !.free = r.free \cup gone,
            !.ent = Truncated(r.ent, r.idx, size),
            !.dirty = r.dirty \cup TrackSectors(gone, Chain(r.ent, r.idx)),
            !.size = size]

Spare(r) == Sectors(r.spare.lsn, r.spare.count)

(* A disk on which each file is a chain of entries, no sector is two files' *)
(* and none of a file's is free.                                            *)
Safe(f, e) ==
  \A i \in Files(e) :
    /\ IsChain(e, i)
    /\ Cardinality(Held(e, i)) = Len(FileSectors(e, i))
    /\ Held(e, i) \cap (f \cup System) = {}
    /\ \A j \in Files(e) \ {i} : Held(e, i) \cap Held(e, j) = {}

(* What the call was about is forgotten when it returns. *)
Return(r) ==
  [r EXCEPT !.pc = "open", !.job = "file", !.op = "none", !.goal = 0, !.old = 0, !.needed = 0,
            !.hint = NoHint, !.fresh = FALSE]

Memory(r) == s' = r /\ UNCHANGED << free, ent, lost >>

(* The end of the path, with what it has not written. *)
Abandon(e) ==
  /\ s' = Done(e)
  /\ lost' = IF lost = "files" \/ ~ Safe(free', ent') THEN "files" ELSE "sectors"

-----------------------------------------------------------------------------
(* Calls on a path a caller holds *)

Open(n) ==
  /\ s.pc = "idle"
  /\ \E i \in Entry :
       /\ Found(n, i)
       /\ Memory([Loaded(Idle) EXCEPT !.pc = "open", !.job = "file",
                                      !.idx = i, !.size = FileSize(ent, i)])

(* _dragondos_open, for itself, _dragondos_kill and _dragondos_rename_ex *)
NotFound(n) ==
  /\ s.pc = "idle" /\ Named(ent, n) = {}
  /\ Memory(Done("PNNF"))

Seek(pos) ==
  /\ s.pc = "open"
  /\ Memory([s EXCEPT !.pos = pos])

(* grow, up to its loop *)
Growing(goal) ==
  LET over == IF s.size % Bps = 0 THEN Bps ELSE s.size % Bps
      needed == (over + goal - s.size - 1) \div Bps
      x == s.ent[LastEntry(s.ent, s.idx)].ext
      hint == IF x = << >> THEN NoHint ELSE x[Len(x)].lsn + x[Len(x)].count
  IN  [s EXCEPT
         !.pc = IF needed = 0 THEN "grown"
                ELSE IF s.spare.count = 0 THEN "allocate"
                ELSE IF x # << >> /\ s.spare.lsn # hint THEN "swap" ELSE "use",
         !.goal = goal, !.old = s.size, !.needed = needed, !.hint = hint,
         !.fresh = x = << >>]

Write(k) ==
  /\ s.pc = "open" /\ s.pos + k <= MaxSize
  /\ Memory(IF s.pos + k > s.size
              THEN [Growing(s.pos + k) EXCEPT !.op = "write"]
              ELSE [s EXCEPT !.pc = "data", !.op = "write", !.goal = s.pos + k, !.old = s.size])

SetSize(size) ==
  /\ s.pc = "open"
  /\ Memory(IF size > s.size THEN [Growing(size) EXCEPT !.op = "size"]
            ELSE IF size < s.size THEN [Cut(s, size) EXCEPT !.pc = "flush", !.cut = TRUE]
            ELSE [s EXCEPT !.pc = "flush"])

(* Mutant: the spare sectors stay taken. *)
CloseKeepsSpare ==
  /\ s.pc = "open"
  /\ Memory([s EXCEPT !.pc = "flush", !.job = "close", !.spare = NoSpare])

Close ==
  /\ s.pc = "open"
  /\ Memory([s EXCEPT !.pc = "flush", !.job = "close", !.spare = NoSpare,
                      !.free = s.free \cup Spare(s),
                      !.dirty = s.dirty \cup TrackSectors(Spare(s), {})])

-----------------------------------------------------------------------------
(* grow.  The sectors of a run it has allocated are spare until they are an *)
(* extent's; those that do not follow the file are given back when others   *)
(* can be allocated.                                                        *)

LastExtents == s.ent[LastEntry(s.ent, s.idx)].ext

(* Mutant: a run is taken to follow the file. *)
WithRunAtHint(r, l) ==
  LET n == RunFrom(s.free, l) IN
  [r EXCEPT !.pc = "use",
            !.spare = [lsn |-> l, count |-> n],
            !.free = r.free \ Sectors(l, n),
            !.dirty = r.dirty \cup TrackSectors(Sectors(l, n), {}),
            !.fresh = LastExtents = << >>]

WithRun(r, l) ==
  LET n == RunFrom(s.free, l) IN
  [r EXCEPT !.pc = "use",
            !.spare = [lsn |-> l, count |-> n],
            !.free = r.free \ Sectors(l, n),
            !.dirty = r.dirty \cup TrackSectors(Sectors(l, n), {}),
            !.fresh = LastExtents = << >> \/ l # s.hint]

Swap ==
  /\ s.pc = "swap" /\ Place(s.free, s.hint) # {}
  /\ \E l \in Place(s.free, s.hint) :
       Memory(WithRun([s EXCEPT !.free = s.free \cup Spare(s),
                                !.dirty = s.dirty \cup TrackSectors(Spare(s), {})], l))

KeepSpare ==
  /\ s.pc = "swap" /\ Place(s.free, s.hint) = {}
  /\ Memory([s EXCEPT !.pc = "use", !.fresh = TRUE])

Allocate ==
  /\ s.pc = "allocate"
  /\ \E l \in Place(s.free, s.hint) : Memory(WithRun(s, l))

(* Mutant: what has been added stays. *)
NotUndone(e) == [s EXCEPT !.pc = "flush", !.ec = e]

(* _dd_extend: the file is cut to the size it had. *)
Undone(e) == [Cut(s, s.size) EXCEPT !.pc = "flush", !.ec = e]

(* Mutant: after that it is tried again. *)
DiskFullRetries ==
  /\ s.pc = "allocate" /\ Place(s.free, s.hint) = {}
  /\ Memory([Growing(s.goal) EXCEPT !.free = Undone("DF").free, !.ent = Undone("DF").ent])

DiskFull ==
  /\ s.pc = "allocate" /\ Place(s.free, s.hint) = {}
  /\ Memory(Undone("DF"))

NewExtent ==
  /\ s.pc = "use" /\ s.fresh
  /\ LET j == LastEntry(s.ent, s.idx) IN
       /\ Len(LastExtents) < Capacity(s.ent[j])
       /\ Memory([s EXCEPT !.fresh = FALSE,
                    !.ent[j].ext = Append(@, [lsn |-> s.spare.lsn, count |-> 0])])

IsFilled(j) == Len(s.ent[j].ext) = Capacity(s.ent[j])

(* add_continuation.  Entry 0 is not looked at: its number would mean that  *)
(* none follows.                                                            *)
AddContinuation ==
  /\ s.pc = "use" /\ s.fresh /\ IsFilled(LastEntry(s.ent, s.idx))
  /\ \E i \in Entry :
       /\ IsFreeFrom(s.ent, 1, i)
       /\ LET j == LastEntry(s.ent, s.idx) IN
            Memory([s EXCEPT !.ent = [s.ent EXCEPT ![j].next = i, ![i] = Continuation],
                             !.dirty = s.dirty \cup TrackSectors({}, {i, j}),
                             !.cut = TRUE])

DirectoryFull ==
  /\ s.pc = "use" /\ s.fresh /\ IsFilled(LastEntry(s.ent, s.idx)) /\ ~ HasFreeFrom(s.ent, 1)
  /\ Memory(Undone("DF"))

Used == IF s.needed < s.spare.count THEN s.needed ELSE s.spare.count

LastCount == LastExtents[Len(LastExtents)].count

(* A run that would overflow the extent goes in a new one. *)
Overflow ==
  /\ s.pc = "use" /\ ~ s.fresh /\ LastCount + Used > MaxExtent
  /\ Memory([s EXCEPT !.fresh = TRUE])

(* Mutant: as many as are needed go in the extent. *)
UseAll ==
  /\ s.pc = "use" /\ ~ s.fresh
  /\ LET j == LastEntry(s.ent, s.idx) IN
       Memory([s EXCEPT !.pc = IF s.needed = Used THEN "grown" ELSE "allocate",
                        !.ent[j].ext[Len(LastExtents)].count = LastCount + Used,
                        !.dirty = s.dirty \cup TrackSectors({}, {j}),
                        !.spare = [lsn |-> s.spare.lsn + Used, count |-> s.spare.count - Used],
                        !.needed = s.needed - Used])

Use ==
  /\ s.pc = "use" /\ ~ s.fresh /\ LastCount + Used <= MaxExtent
  /\ LET j == LastEntry(s.ent, s.idx) IN
       Memory([s EXCEPT !.pc = IF s.needed = Used THEN "grown" ELSE "allocate",
                        !.ent[j].ext[Len(LastExtents)].count = LastCount + Used,
                        !.dirty = s.dirty \cup TrackSectors({}, {j}),
                        !.spare = [lsn |-> s.spare.lsn + Used, count |-> s.spare.count - Used],
                        !.needed = s.needed - Used])

Grown ==
  /\ s.pc = "grown"
  /\ LET j == LastEntry(s.ent, s.idx) IN
       Memory([s EXCEPT !.pc = IF s.op = "write" THEN "data" ELSE "flush",
                        !.ent[j].last = s.goal % Bps,
                        !.dirty = s.dirty \cup TrackSectors({}, {j}),
                        !.size = s.goal])

-----------------------------------------------------------------------------
(* _dragondos_write, its loop over the sectors *)

EndOfSector == (s.pos \div Bps + 1) * Bps

PutSector ==
  /\ s.pc = "data" /\ s.pos \div Bps < Len(FileSectors(s.ent, s.idx))
  /\ Memory(IF EndOfSector < s.goal
              THEN [s EXCEPT !.pos = EndOfSector]
              ELSE [s EXCEPT !.pos = s.goal, !.pc = "flush"])

(* The sector cannot be written, or read, or the file has none there.  The  *)
(* file keeps what was written of it.                                       *)
PutSectorFails ==
  /\ s.pc = "data"
  /\ Faults \/ s.pos \div Bps >= Len(FileSectors(s.ent, s.idx))
  /\ Memory(IF s.size > s.old
              THEN [Cut(s, IF s.pos > s.old THEN s.pos ELSE s.old)
                      EXCEPT !.pc = "flush", !.ec = "EIO"]
              ELSE [s EXCEPT !.pc = "flush", !.ec = "EIO"])

-----------------------------------------------------------------------------
(* _dd_flush *)

(* The disk with sector i of the directory track written. *)
WithTrackSector(i) ==
  LET part == OfTrackSector(i) IN
  /\ free' = (free \ part.lsns) \cup (s.free \cap part.lsns)
  /\ ent' = [j \in Entry |-> IF j \in part.entries THEN s.ent[j] ELSE ent[j]]

(* Mutant: the last sector that changed is written first. *)
PutTrackSectorDown ==
  /\ s.pc = "flush" /\ s.dirty # {}
  /\ WithTrackSector(Max(s.dirty))
  /\ s' = [s EXCEPT !.dirty = s.dirty \ {Max(s.dirty)}]
  /\ UNCHANGED lost

PutTrackSector ==
  /\ s.pc = "flush" /\ s.dirty # {}
  /\ WithTrackSector(Min(s.dirty))
  /\ s' = [s EXCEPT !.dirty = s.dirty \ {Min(s.dirty)}]
  /\ UNCHANGED lost

(* The write of the sector fails, or that of its copy.  A path that is      *)
(* closed, or was not opened for its caller, is gone then; an open one      *)
(* still has what it did not write.                                         *)
PutTrackSectorFails ==
  /\ Faults /\ s.pc = "flush" /\ s.dirty # {}
  /\ WithTrackSector(Min(s.dirty)) \/ UNCHANGED << free, ent >>
  /\ IF s.job = "file"
       THEN s' = [Return(s) EXCEPT !.ec = "EIO"] /\ UNCHANGED lost
       ELSE Abandon("EIO")

(* _dragondos_create starts over when the file it replaces is killed. *)
Flushed ==
  /\ s.pc = "flush" /\ s.dirty = {}
  /\ Memory(CASE s.job \in {"file", "new"} -> [Return(s) EXCEPT !.cut = FALSE]
              [] s.job = "replace" -> [Idle EXCEPT !.pc = "create", !.name = s.name]
              [] OTHER -> Done("ok"))

-----------------------------------------------------------------------------
(* _dragondos_create, _dragondos_kill and _dragondos_rename_ex *)

Create(n) ==
  /\ s.pc = "idle"
  /\ Memory([Idle EXCEPT !.pc = "create", !.name = n])

(* With FAM_NOCREATE. *)
CreateFails(n) ==
  /\ s.pc = "idle" /\ Named(ent, n) # {}
  /\ Memory(Done("FAE"))

(* The disk with file i killed, in memory. *)
Killed(r, i) ==
  LET gone == Held(ent, i) IN
  [Loaded(r) EXCEPT !.pc = "flush", !.cut = TRUE,
     !.free = free \cup gone,
     !.ent = [j \in Entry |-> IF j \in Chain(ent, i) THEN Deleted ELSE ent[j]],
     !.dirty = TrackSectors(gone, Chain(ent, i))]

Kill(n) ==
  /\ s.pc = "idle"
  /\ \E i \in Entry : Found(n, i) /\ Memory(Killed([Idle EXCEPT !.job = "kill"], i))

Replace ==
  /\ s.pc = "create"
  /\ \E i \in Entry :
       Found(s.name, i) /\ Memory(Killed([Idle EXCEPT !.job = "replace", !.name = s.name], i))

NoEntryFree ==
  /\ s.pc = "create" /\ Named(ent, s.name) = {} /\ ~ HasFreeFrom(ent, 0)
  /\ Memory(Done("DF"))

NewFile ==
  /\ s.pc = "create" /\ Named(ent, s.name) = {}
  /\ \E i \in Entry :
       /\ IsFreeFrom(ent, 0, i)
       /\ Memory([Loaded(Idle) EXCEPT !.pc = "flush", !.job = "new", !.idx = i,
                    !.ent[i] = Header(s.name), !.dirty = TrackSectors({}, {i})])

Rename(n, m) ==
  /\ s.pc = "idle"
  /\ \E i \in Entry :
       /\ Found(n, i)
       /\ Memory(IF Named(ent, m) # {} THEN Done("FAE")
                 ELSE [Loaded(Idle) EXCEPT !.pc = "flush", !.job = "rename",
                         !.ent[i].name = m, !.dirty = TrackSectors({}, {i})])

Crash ==
  /\ Crashes /\ s.pc # "idle"
  /\ UNCHANGED << free, ent >>
  /\ Abandon("ok")

Call ==
  \/ \E n \in Names : Open(n) \/ NotFound(n) \/ Create(n) \/ CreateFails(n) \/ Kill(n)
  \/ \E n, m \in Names : Rename(n, m)
  \/ \E pos \in Positions : Seek(pos)
  \/ \E k \in WriteSizes : Write(k)
  \/ \E size \in SetSizes : SetSize(size)
  \/ Close

Step ==
  \/ Swap \/ KeepSpare \/ Allocate \/ DiskFull
  \/ NewExtent \/ AddContinuation \/ DirectoryFull \/ Overflow \/ Use \/ Grown
  \/ PutSector \/ PutSectorFails
  \/ PutTrackSector \/ PutTrackSectorFails \/ Flushed
  \/ Replace \/ NoEntryFree \/ NewFile

Next == Call \/ Step \/ Crash

Spec == Init /\ [][Next]_vars

(* A call that has begun runs to its end: it waits for nothing.             *)
FairSpec == Spec /\ WF_vars(Step)

-----------------------------------------------------------------------------
(* Properties *)

(* The disk as the process sees it: the directory track in memory while a   *)
(* path is open.                                                            *)
HasPath == s.pc \notin {"idle", "create"}

FreeNow == IF HasPath THEN s.free ELSE free

EntNow == IF HasPath THEN s.ent ELSE ent

Extent == [lsn : Lsn, count : 0 .. MaxExtent]

IsEntry(e) ==
  /\ e.kind \in Kind /\ e.name \in Names \cup {NoName}
  /\ e.ext \in Seq(Extent) /\ Len(e.ext) <= Capacity(e)
  /\ e.next \in Entry /\ e.last \in 0 .. (Bps - 1)

(* No entry has more extents than fit it, no extent more sectors than its   *)
(* count can hold, and only sectors of the disk are allocated.              *)
TypeOK ==
  /\ {free, s.free} \subseteq SUBSET Lsn
  /\ \A e \in {ent, s.ent} : DOMAIN e = Entry /\ \A i \in Entry : IsEntry(e[i])
  /\ s.dirty \subseteq 0 .. (1 + Entries \div PerSector)
  /\ s.idx \in Entry /\ {s.pos, s.size, s.goal, s.old} \subseteq 0 .. MaxSize
  /\ Spare(s) \subseteq Lsn /\ s.spare.count \in 0 .. MaxExtent
  /\ s.needed \in 0 .. SectorsFor(MaxSize)
  /\ lost \in {"nothing", "sectors", "files"}

(* No sector is in two files, twice in one, or in the directory track; none *)
(* of a file's is free, and those a path has in reserve are nobody's.       *)
(* Otherwise a write would reach another file (grow, _dd_truncate,          *)
(* _dragondos_kill).                                                        *)
NoSharedSector ==
  lost # "files" =>
    /\ Safe(FreeNow, EntNow)
    /\ Spare(s) \cap (FreeNow \cup System) = {}
    /\ \A i \in Files(EntNow) : Spare(s) \cap Held(EntNow, i) = {}

(* Between calls a sector is taken only if it is some file's or in reserve  *)
(* of the open path, and an entry only if it is some file's: a file that    *)
(* was cut, killed or could not grow has given all of them back.            *)
NoSectorLost ==
  s.pc \in {"idle", "open"} /\ lost = "nothing" =>
    /\ Lsn \ FreeNow = System \cup Spare(s) \cup UNION { Held(EntNow, i) : i \in Files(EntNow) }
    /\ { j \in Entry : EntNow[j].kind # "deleted" }
         = UNION { Chain(EntNow, i) : i \in Files(EntNow) }

(* Between calls the open file's size is what its entries say, and it has   *)
(* the sectors for it and no more: also when it could not grow, which       *)
(* leaves it as it was, and when the data of a write failed half way.       *)
SizeAgrees ==
  s.pc = "open" /\ lost # "files" =>
    /\ FileSize(s.ent, s.idx) = s.size
    /\ Len(FileSectors(s.ent, s.idx)) = SectorsFor(s.size)

(* Failing writes and crashes leave no file with another's sectors, and the *)
(* path with a size its entries have: a write whose data failed is undone   *)
(* to what was written (_dragondos_write), whatever came before.            *)
FilesWhole == NoSharedSector /\ SizeAgrees

(* As long as there is a free sector, one can be allocated, and what is     *)
(* allocated was free: the search by tracks and by the longest run of bytes *)
(* misses none (_dd_allocate, scan_bitmap).                                 *)
AllocatesUntilFull ==
  s.pc \in {"idle", "open"} => \A hint \in {NoHint, MapSector} :
    /\ Place(FreeNow, hint) \subseteq FreeNow
    /\ (Place(FreeNow, hint) = {}) = (FreeNow = {})

(* While a file exists, growing and cutting it never moves what stays of    *)
(* it: of its sectors before and after a step, the fewer are the beginning  *)
(* of the more.  A failure costs at most its end, unless it leaves the disk *)
(* with a cut that was not written.                                         *)
KeepsBeginning ==
  lost' # "files" /\ ~ (s.cut /\ s'.pc = "idle") =>
    \A i \in Files(EntNow) \cap Files(EntNow') :
      LET before == FileSectors(EntNow, i)
          after == FileSectors(EntNow', i)
      IN  IsPrefix(before, after) \/ IsPrefix(after, before)

FilesStay == [][KeepsBeginning]_vars

(* A process that ends now, or whose image writes fail from here on, costs  *)
(* no file anything but its last growth, unless the call under way, or one  *)
(* that failed before it, has cut or killed a file or chained an entry to   *)
(* it: _dd_flush writes the bitmap before the entries.                      *)
GrowthNeverExposes == lost # "files" /\ ~ s.cut => Safe(free, ent)

(* Every call returns: the loop of grow, following chains, and              *)
(* _dragondos_create calling itself end.                                    *)
CallsReturn == (s.pc \notin {"idle", "open"}) ~> (s.pc \in {"idle", "open"})
=============================================================================

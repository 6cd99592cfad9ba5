---------------------------- MODULE DragonProofs ----------------------------
(***************************************************************************)
(* DragonDos keeps its invariant, for every disk, every set of names,      *)
(* sizes and positions, and whatever fails: with it the files of a Dragon  *)
(* DOS disk share no sector and lose none, and the open one has the        *)
(* sectors for its size.                                                   *)
(***************************************************************************)
EXTENDS DragonInv

-----------------------------------------------------------------------------
(* The directory a path begins with *)

(* The sectors of extents that are the disk's. *)
LEMMA SoundSectors ==
  ASSUME NEW e, Sound(e)
  PROVE  /\ Range(SectorsOf(e.ext)) \subseteq Lsn
         /\ e.ext # << >> => Range(SectorsOf(e.ext)) # {}
  <1>1. e.ext \in Seq(AnyExtent) /\ Len(e.ext) \in Nat /\ DOMAIN e.ext = 1 .. Len(e.ext)
    BY DEF Sound, Slot
  <1>2. Range(SectorsOf(e.ext)) = UNION { Range(Run(e.ext[k])) : k \in 1 .. Len(e.ext) }
    BY <1>1, SectorsOfIs
  <1>3. ASSUME NEW k \in 1 .. Len(e.ext)
        PROVE  Range(Run(e.ext[k])) \subseteq Lsn /\ Range(Run(e.ext[k])) # {}
    <2>1. PICK x \in AnyExtent : x = e.ext[k]
      BY <1>1
    <2>2. x.lsn \in Nat /\ x.count \in Nat /\ x.count >= 1 /\ x.lsn + x.count <= Total
      BY <1>1, <2>1, ExtentIs DEF Sound, IsExtent
    <2>3. Range(Run(x)) = x.lsn .. (x.lsn + x.count - 1)
      BY RunIs
    <2>4. x.lsn \in Range(Run(x)) /\ Range(Run(x)) \subseteq Lsn
      BY <2>2, <2>3, SectorsAre DEF Lsn
    <2> QED
      BY <2>1, <2>4
  <1>4. ASSUME e.ext # << >> PROVE Range(SectorsOf(e.ext)) # {}
    <2>1. Len(e.ext) # 0
      BY <1>1, <1>4
    <2>2. 1 \in 1 .. Len(e.ext)
      BY <1>1, <2>1
    <2> QED
      BY <1>2, <1>3, <2>2
  <1> QED
    BY <1>2, <1>3, <1>4

(* As many sectors as positions: none is twice in the file. *)
LEMMA CountedOnce ==
  ASSUME NEW q \in Seq(Nat)
  PROVE  IsInjective(q) <=> Cardinality(Range(q)) = Len(q)
  <1>1. PICK n \in Nat : n = Len(q)
    OBVIOUS
  <1>2. DOMAIN q = 1 .. n /\ q \in [1 .. n -> Range(q)]
    BY <1>1 DEF Range
  <1>3. IsFiniteSet(1 .. n) /\ Cardinality(1 .. n) = n
    BY FS_Interval
  <1>4. q \in Surjection(1 .. n, Range(q))
    BY <1>2 DEF Surjection, Range
  <1>5. IsInjective(q) => Cardinality(Range(q)) = n
    <2> SUFFICES ASSUME IsInjective(q) PROVE Cardinality(Range(q)) = n
      OBVIOUS
    <2>1. q \in Bijection(1 .. n, Range(q))
      BY <1>2, <1>4 DEF IsInjective, Bijection, Injection
    <2>2. ExistsBijection(1 .. n, Range(q))
      BY <2>1 DEF ExistsBijection
    <2> QED
      BY <1>3, <2>2, FS_Bijection
  <1>6. Cardinality(Range(q)) = n => IsInjective(q)
    <2> SUFFICES ASSUME Cardinality(Range(q)) = n PROVE IsInjective(q)
      OBVIOUS
    <2>1. Cardinality(1 .. n) = Cardinality(Range(q))
      BY <1>3
    <2>2. q \in Injection(1 .. n, Range(q))
      BY <1>3, <1>4, <2>1, FS_Surjection
    <2> QED
      BY <1>2, <2>2 DEF Injection, IsInjective
  <1> QED
    BY <1>1, <1>5, <1>6

(* A directory whose files have sectors of their own loses none of them to  *)
(* another.                                                                 *)
LEMMA DirectoryIsSafe ==
  ASSUME NEW e \in Table, Chained(e), NEW f, NEW x, Apart(f, e, x)
  PROVE  Safe(f, e)
  <1>1. ASSUME NEW i \in Files(e)
        PROVE  /\ IsChain(e, i) /\ Cardinality(Held(e, i)) = Len(FileSectors(e, i))
               /\ Held(e, i) \cap (f \cup System) = {}
               /\ \A j \in Files(e) \ {i} : Held(e, i) \cap Held(e, j) = {}
    <2>1. IsChain(e, i) /\ FileSectors(e, i) \in Seq(Nat)
      BY FilesAre
    <2>2. /\ IsInjective(FileSectors(e, i)) /\ Held(e, i) \subseteq Lsn \ (f \cup x \cup System)
          /\ \A j \in Files(e) \ {i} : Held(e, i) \cap Held(e, j) = {}
      BY DEF Apart
    <2>3. Cardinality(Held(e, i)) = Len(FileSectors(e, i))
      BY <2>1, <2>2, CountedOnce DEF Held
    <2> QED
      BY <2>1, <2>2, <2>3
  <1> QED
    BY <1>1 DEF Safe

(* The files of a disk that is safe share no entry, either: continuation    *)
(* entries have sectors.                                                    *)
LEMMA SafeIsDirectory ==
  ASSUME NEW e \in Table, \A j \in Entry : Sound(e[j]), NEW f, f \subseteq Lsn \ System, Safe(f, e)
  PROVE  Chained(e) /\ Apart(f, e, {})
  <1>1. ASSUME NEW i \in Files(e)
        PROVE  /\ i \in Entry /\ e[i].kind = "header" /\ IsChain(e, i) /\ Ended(e, i)
               /\ i \in Chain(e, i) /\ Chain(e, i) \subseteq Entry
               /\ FileSectors(e, i) \in Seq(Nat)
               /\ Held(e, i) = UNION { Range(SectorsOf(e[c].ext)) : c \in Chain(e, i) }
               /\ Cardinality(Held(e, i)) = Len(FileSectors(e, i))
               /\ Held(e, i) \cap (f \cup System) = {}
               /\ \A j \in Files(e) \ {i} : Held(e, i) \cap Held(e, j) = {}
    <2>1. i \in Entry /\ e[i].kind = "header"
      BY DEF Files
    <2>2. /\ IsChain(e, i) /\ Cardinality(Held(e, i)) = Len(FileSectors(e, i))
          /\ Held(e, i) \cap (f \cup System) = {}
          /\ \A j \in Files(e) \ {i} : Held(e, i) \cap Held(e, j) = {}
      BY DEF Safe
    <2>3. Ended(e, i)
      BY <2>2 DEF IsChain, Ended
    <2> QED
      BY <2>1, <2>2, <2>3, ChainType, FileType
  <1>2. ASSUME NEW i \in Files(e), NEW j \in Files(e) \ {i}, NEW c \in Chain(e, i), c \in Chain(e, j)
        PROVE  FALSE
    <2>1. \A d \in Chain(e, i) \ {i} : e[d].kind = "more"
      BY <1>1 DEF IsChain
    <2>2. \A d \in Chain(e, j) \ {j} : e[d].kind = "more"
      BY <1>1 DEF IsChain
    <2>3. c \in Entry /\ e[c].kind = "more"
      BY <1>1, <1>2, <2>1, <2>2
    <2>4. Sound(e[c]) /\ e[c].ext # << >>
      BY <2>3 DEF Sound
    <2>5. PICK l : l \in Range(SectorsOf(e[c].ext))
      BY <2>4, SoundSectors
    <2>6. l \in Held(e, i) /\ l \in Held(e, j)
      BY <1>1, <1>2, <2>5
    <2> QED
      BY <1>1, <2>6
  <1>3. Chained(e)
    BY <1>1, <1>2 DEF Chained
  <1>4. ASSUME NEW i \in Files(e)
        PROVE  IsInjective(FileSectors(e, i)) /\ Held(e, i) \subseteq Lsn \ (f \cup {} \cup System)
    <2>1. IsInjective(FileSectors(e, i))
      BY <1>1, CountedOnce DEF Held
    <2>2. \A c \in Chain(e, i) : Range(SectorsOf(e[c].ext)) \subseteq Lsn
      BY <1>1, SoundSectors
    <2> QED
      BY <1>1, <2>1, <2>2
  <1> QED
    BY <1>1, <1>3, <1>4 DEF Apart

-----------------------------------------------------------------------------
(* The sectors of the directory track *)

(* The directory track's sectors for some bits of the map and some entries. *)
LEMMA TrackSectorsAre ==
  ASSUME NEW S \in SUBSET Lsn, NEW E \in SUBSET Entry
  PROVE  /\ TrackSectors(S, E) \subseteq 0 .. (1 + Entries \div PerSector)
         /\ \A l \in S : l \div MapSector \in TrackSectors(S, E)
         /\ \A j \in E : 2 + j \div PerSector \in TrackSectors(S, E)
  <1>1. /\ Entries \in Nat \ {0} /\ PerSector \in Nat \ {0} /\ MapSector \in Nat \ {0}
        /\ Entries % PerSector = 0 /\ Total \in Nat /\ Total <= 2 * MapSector
    BY DirAssumption, SectorsAre, MapAssumption
  <1>2. ASSUME NEW l \in Lsn PROVE l \div MapSector \in 0 .. 1
    <2>1. l \in Nat /\ l < 2 * MapSector
      BY <1>1, <1>2 DEF Lsn
    <2>2. PICK m \in Nat \ {0} : m = MapSector
      BY <1>1
    <2>3. PICK q \in Int : q = l \div m
      BY <2>1, <2>2
    <2>4. m * q <= l /\ l < m * q + m
      BY <2>1, <2>2, <2>3
    <2>5. q >= 0
      <3> SUFFICES ASSUME q <= -1 PROVE FALSE
        BY <2>3
      <3>1. m * q <= - m
        BY <2>2
      <3> QED
        BY <2>1, <2>2, <2>4, <3>1
    <2>6. q <= 1
      <3> SUFFICES ASSUME q >= 2 PROVE FALSE
        BY <2>3
      <3>1. m * q >= m * 2
        BY <2>2
      <3> QED
        BY <2>1, <2>2, <2>4, <3>1
    <2> QED
      BY <2>2, <2>3, <2>5, <2>6
  <1>3. PICK n \in Int : n = Entries \div PerSector
    BY <1>1
  <1>4. ASSUME NEW j \in Entry PROVE 2 + j \div PerSector \in 2 .. (1 + n)
    <2>1. j \in Nat /\ j < Entries
      BY <1>1, <1>4 DEF Entry
    <2>2. PICK p \in Nat \ {0} : p = PerSector
      BY <1>1
    <2>3. PICK q \in Int : q = j \div p
      BY <2>1, <2>2
    <2>4. p * q <= j /\ j < p * q + p
      BY <2>1, <2>2, <2>3
    <2>5. Entries = p * n
      BY <1>1, <1>3, <2>2
    <2>6. q >= 0
      <3> SUFFICES ASSUME q <= -1 PROVE FALSE
        BY <2>3
      <3>1. p * q <= - p
        BY <2>2
      <3> QED
        BY <2>1, <2>2, <2>4, <3>1
    <2>7. q < n
      <3> SUFFICES ASSUME q >= n PROVE FALSE
        BY <2>3, <1>3
      <3>1. p * q >= p * n
        BY <2>2, <1>3
      <3> QED
        BY <2>1, <2>4, <2>5, <3>1, <1>3
    <2> QED
      BY <1>3, <2>2, <2>3, <2>6, <2>7
  <1>5. n >= 0
    <2>1. 0 \in Entry
      BY EntryIs
    <2> QED
      BY <1>3, <1>4, <2>1
  <1>6. \A l \in S : l \div MapSector \in 0 .. (1 + n)
    BY <1>2, <1>3, <1>5
  <1>7. \A j \in E : 2 + j \div PerSector \in 0 .. (1 + n)
    BY <1>3, <1>4
  <1> QED
    BY <1>3, <1>6, <1>7 DEF TrackSectors

(* Sectors S and entries E of the track change, and are marked.             *)
LEMMA AgreeMarked ==
  ASSUME NEW f, NEW e, NEW g, NEW h, NEW d, NEW P, AgreeBut(f, e, g, h, d, P),
         NEW S \in SUBSET Lsn, NEW E \in SUBSET Entry,
         NEW a, NEW b, NEW c, NEW Q,
         \A l \in Lsn \ S : l \in a <=> l \in g,
         \A j \in Entry \ E : b[j] = h[j] \/ j \in Q,
         c = d \cup TrackSectors(S, E), P \subseteq Q \cup E
  PROVE  AgreeBut(f, e, a, b, c, Q)
  <1>1. /\ \A l \in S : l \div MapSector \in c
        /\ \A j \in E : 2 + j \div PerSector \in c
        /\ d \subseteq c
    BY TrackSectorsAre
  <1>2. /\ \A l \in Lsn : l \div MapSector \notin d => (l \in f <=> l \in g)
        /\ \A j \in Entry \ P : 2 + j \div PerSector \notin d => e[j] = h[j]
    BY DEF AgreeBut
  <1>3. ASSUME NEW l \in Lsn, l \div MapSector \notin c PROVE l \in f <=> l \in a
    BY <1>1, <1>2, <1>3
  <1>4. ASSUME NEW j \in Entry \ Q, 2 + j \div PerSector \notin c PROVE e[j] = b[j]
    BY <1>1, <1>2, <1>4
  <1> QED
    BY <1>3, <1>4 DEF AgreeBut

(* One of them is written. *)
LEMMA AgreeWritten ==
  ASSUME NEW f, NEW e, NEW g, NEW h, NEW d, AgreeBut(f, e, g, h, d, {}), NEW i,
         NEW a, a = (f \ OfTrackSector(i).lsns) \cup (g \cap OfTrackSector(i).lsns),
         NEW b, b = [j \in Entry |-> IF j \in OfTrackSector(i).entries THEN h[j] ELSE e[j]]
  PROVE  AgreeBut(a, b, g, h, d \ {i}, {})
  <1>1. /\ OfTrackSector(i).lsns = { l \in Lsn : l \div MapSector = i }
        /\ OfTrackSector(i).entries = { j \in Entry : 2 + j \div PerSector = i }
    BY DEF OfTrackSector
  <1>2. /\ \A l \in Lsn : l \div MapSector \notin d => (l \in f <=> l \in g)
        /\ \A j \in Entry \ {} : 2 + j \div PerSector \notin d => e[j] = h[j]
    BY DEF AgreeBut
  <1>3. ASSUME NEW l \in Lsn, l \div MapSector \notin d \ {i} PROVE l \in a <=> l \in g
    BY <1>1, <1>2, <1>3
  <1>4. ASSUME NEW j \in Entry \ {}, 2 + j \div PerSector \notin d \ {i} PROVE b[j] = h[j]
    BY <1>1, <1>2, <1>4
  <1> QED
    BY <1>3, <1>4 DEF AgreeBut

(* The disk is still one when it is. *)
LEMMA WrittenIsOnDisk ==
  ASSUME NEW f, NEW e, OnDisk(f, e), NEW g, g \subseteq Lsn \ System,
         NEW h \in Table, \A j \in Entry : Sound(h[j]), NEW i,
         NEW a, a = (f \ OfTrackSector(i).lsns) \cup (g \cap OfTrackSector(i).lsns),
         NEW b, b = [j \in Entry |-> IF j \in OfTrackSector(i).entries THEN h[j] ELSE e[j]]
  PROVE  OnDisk(a, b)
  <1>1. f \subseteq Lsn \ System /\ e \in Table /\ \A j \in Entry : Sound(e[j])
    BY DEF OnDisk
  <1>2. a \subseteq Lsn \ System
    BY <1>1
  <1>3. b \in Table
    BY <1>1 DEF Table
  <1>4. \A j \in Entry : Sound(b[j])
    BY <1>1
  <1> QED
    BY <1>2, <1>3, <1>4 DEF OnDisk

(* Nothing is left to write. *)
LEMMA AgreeAll ==
  ASSUME NEW f, NEW e, OnDisk(f, e), NEW g \in SUBSET Lsn, NEW h \in Table,
         AgreeBut(f, e, g, h, {}, {})
  PROVE  f = g /\ e = h
  <1>1. f \subseteq Lsn /\ e \in Table
    BY DEF OnDisk
  <1>2. (\A l \in Lsn : l \in f <=> l \in g) /\ \A j \in Entry : e[j] = h[j]
    BY DEF AgreeBut
  <1> QED
    BY <1>1, <1>2 DEF Table

-----------------------------------------------------------------------------
(* No path is open *)

(* The values a path's state starts from. *)
LEMMA ConstantsAre ==
  /\ MaxSize \in Nat /\ 0 \in 0 .. MaxSize /\ SectorsFor(MaxSize) \in Nat
  /\ 0 \in 0 .. SectorsFor(MaxSize) /\ 0 \in 0 .. MaxExtent /\ NoHint \in Nat
  /\ NoSpare \in [lsn : Nat, count : 0 .. MaxExtent] /\ Sectors(0, 0) = {}
  /\ NoEntries \in Table /\ \A j \in Entry : NoEntries[j] = Deleted /\ Sound(NoEntries[j])
  <1>1. MaxSize \in Nat /\ 0 \in 0 .. MaxSize
    BY DosAssumption
  <1>2. SectorsFor(MaxSize) \in Nat /\ 0 \in 0 .. SectorsFor(MaxSize)
    BY <1>1, SizesAre
  <1>3. 0 \in 0 .. MaxExtent
    BY SectorsAre
  <1>4. NoSpare \in [lsn : Nat, count : 0 .. MaxExtent]
    BY <1>3 DEF NoSpare
  <1>5. NoEntries \in Table /\ \A j \in Entry : NoEntries[j] = Deleted /\ Sound(NoEntries[j])
    BY DeletedIs DEF NoEntries, Table
  <1> QED
    BY <1>1, <1>2, <1>3, <1>4, <1>5 DEF NoHint, Sectors

(* A path that is not open has nothing. *)
LEMMA IdleIs ==
  /\ Idle \in PathState /\ Idle.pc = "idle" /\ Idle.job = "none" /\ Idle.spare = NoSpare
  /\ Idle.ent = NoEntries /\ Idle.free = {} /\ Idle.dirty = {}
  BY ConstantsAre, EntryIs DEF Idle, PathState, Pcs

(* A path that is not open, when the disk is that of no path.               *)
IsRest(r) ==
  /\ r \in PathState /\ r.pc \in {"idle", "create"} /\ r.job = "none" /\ r.spare = NoSpare
  /\ r.ent = NoEntries /\ (r.pc = "create" => r.name \in Names)

(* With no path open the invariant says of the disk alone what it says of a *)
(* path.                                                                    *)
LEMMA RestIsGood ==
  ASSUME NEW f, NEW e, NEW r, NEW l, OnDisk(f, e), IsDirectory(f, e, {}, l), IsRest(r)
  PROVE  Good(f, e, r, l)
  <1>1. Control(r)
    BY DEF Control, IsRest
  <1>2. Entered(r)
    BY ConstantsAre DEF Entered, IsRest
  <1>3. Sizes(r) /\ Behind(r) /\ ~ HasTrack(r)
    BY DEF Sizes, Behind, HasTrack, IsRest
  <1> QED
    BY <1>1, <1>2, <1>3 DEF Good, IsRest

(* What closes or abandons a path leaves none. *)
LEMMA DoneIsRest ==
  ASSUME NEW c \in {"ok", "PNNF", "FAE", "DF", "EIO"}
  PROVE  IsRest(Done(c))
  <1>1. Done(c) = [Idle EXCEPT !.ec = c]
    BY DEF Done
  <1>2. /\ Done(c) \in PathState /\ Done(c).pc = "idle" /\ Done(c).job = "none"
        /\ Done(c).spare = NoSpare /\ Done(c).ent = NoEntries
    BY <1>1, IdleIs DEF PathState
  <1> QED
    BY <1>2 DEF IsRest

(* A path about to be created has nothing yet. *)
LEMMA CreatesIsRest ==
  ASSUME NEW n \in Names
  PROVE  IsRest([Idle EXCEPT !.pc = "create", !.name = n])
  <1> DEFINE r == [Idle EXCEPT !.pc = "create", !.name = n]
  <1>1. /\ r \in PathState /\ r.pc = "create" /\ r.job = "none" /\ r.name = n
        /\ r.spare = NoSpare /\ r.ent = NoEntries
    BY IdleIs DEF PathState, Pcs
  <1> QED
    BY <1>1 DEF IsRest

(* An empty disk satisfies the invariant. *)
LEMMA InitGood ==
  ASSUME Init
  PROVE  Good(free, ent, s, lost)
  <1>1. free = Lsn \ System /\ ent = NoEntries /\ s = Idle /\ lost = "nothing"
    BY DEF Init
  <1>2. OnDisk(free, ent)
    BY <1>1, ConstantsAre DEF OnDisk
  <1>3. Files(ent) = {}
    BY <1>1, ConstantsAre, DeletedIs DEF Files
  <1>4. System \subseteq Lsn
    <2>1. PICK d \in Nat : d = Dir
      BY SectorsAre
    <2>2. PICK b \in Nat : b = Back /\ b <= d
      BY MapAssumption, <2>1
    <2>3. PICK u \in Nat \ {0} : u = T
      BY SectorsAre
    <2>4. Total \in Nat /\ d + u <= Total
      BY SectorsAre, MapAssumption, <2>1, <2>3
    <2> QED
      BY <2>1, <2>2, <2>3, <2>4 DEF System, Lsn
  <1>5. Chained(ent) /\ Apart(free, ent, {})
    BY <1>1, <1>3 DEF Chained, Apart
  <1>6. { j \in Entry : ent[j].kind # "deleted" } = {}
    BY <1>1, ConstantsAre, DeletedIs
  <1>7. Exact(free, ent, {})
    BY <1>1, <1>3, <1>4, <1>6 DEF Exact
  <1>8. IsRest(s)
    BY <1>1, IdleIs DEF IsRest
  <1> QED
    BY <1>2, <1>5, <1>7, <1>8, RestIsGood DEF IsDirectory

(* The calls that find no file, or one where there must be none; and the    *)
(* first step of _dragondos_create.                                         *)
Rests ==
  \/ \E n \in Names : NotFound(n) \/ CreateFails(n) \/ Create(n)
  \/ \E n, m \in Names : Rename(n, m) /\ Named(ent, m) # {}
  \/ NoEntryFree

(* A call that fails, or has only begun, keeps the invariant. *)
LEMMA RestsKeep ==
  ASSUME Good(free, ent, s, lost), Rests
  PROVE  Good(free', ent', s', lost')
  <1>1. /\ s.pc \in {"idle", "create"} /\ IsRest(s')
        /\ free' = free /\ ent' = ent /\ lost' = lost
    <2>1. CASE \E n \in Names : NotFound(n) \/ CreateFails(n)
      BY <2>1, DoneIsRest DEF NotFound, CreateFails, Memory
    <2>2. CASE \E n \in Names : Create(n)
      BY <2>2, CreatesIsRest DEF Create, Memory
    <2>3. CASE \E n, m \in Names : Rename(n, m) /\ Named(ent, m) # {}
      BY <2>3, DoneIsRest DEF Rename, Memory
    <2>4. CASE NoEntryFree
      BY <2>4, DoneIsRest DEF NoEntryFree, Memory
    <2> QED
      BY <2>1, <2>2, <2>3, <2>4 DEF Rests
  <1>2. OnDisk(free, ent) /\ IsDirectory(free, ent, {}, lost)
    BY <1>1 DEF Good, HasTrack
  <1> QED
    BY <1>1, <1>2, RestIsGood

-----------------------------------------------------------------------------
(* A path is opened *)

(* A path that is open, or writes what it changed. *)
IsSteady(r) ==
  /\ r \in PathState /\ r.pc \in {"open", "data", "flush"}
  /\ r.pc \in {"open", "data"} => r.job = "file"
  /\ r.job # "none" /\ (r.job # "file" => r.spare = NoSpare)
  /\ r.job \in {"file", "new"} => r.idx \in Files(r.ent) /\ Sized(r)
  /\ r.job = "replace" => r.name \in Names
  /\ r.pc = "data" => r.old <= r.size /\ r.pos <= r.goal /\ r.goal <= r.size

(* Outside a growth the invariant needs no exception. *)
LEMMA SteadyIsGood ==
  ASSUME NEW f, NEW e, NEW r, NEW l, OnDisk(f, e), IsSteady(r),
         \A j \in Entry : Sound(r.ent[j]), IsDirectory(r.free, r.ent, Spare(r), l),
         AgreeBut(f, e, r.free, r.ent, r.dirty, {})
  PROVE  Good(f, e, r, l)
  <1>1. Control(r)
    BY DEF Control, IsSteady
  <1>2. Entered(r)
    BY DEF Entered, IsSteady
  <1>3. Sizes(r) /\ Behind(r) /\ HasTrack(r)
    BY DEF Sizes, Behind, HasTrack, IsSteady
  <1>4. Agree(f, e, r)
    <2>1. Excused(r) = {}
      BY DEF Excused, Pending, IsSteady
    <2> QED
      BY <2>1 DEF Agree
  <1> QED
    BY <1>1, <1>2, <1>3, <1>4 DEF Good, IsSteady

(* No spare extent, no spare sectors. *)
LEMMA NoSpareIsNone ==
  ASSUME NEW r, r.spare = NoSpare
  PROVE  Spare(r) = {}
  BY ConstantsAre DEF Spare, NoSpare

(* The entry found for a name is a file of that name. *)
LEMMA FoundIs ==
  ASSUME NEW n, NEW i, Found(n, i)
  PROVE  i \in Files(ent) /\ i \in Entry /\ Named(ent, n) # {}
  BY DEF Found, Named, Files

(* _dragondos_open keeps the invariant: the path's copies are the disk's. *)
LEMMA OpenKeeps ==
  ASSUME Good(free, ent, s, lost), NEW n \in Names, Open(n)
  PROVE  Good(free', ent', s', lost')
  <1>1. OnDisk(free, ent) /\ IsDirectory(free, ent, {}, lost)
    BY DEF Good, HasTrack, Open
  <1>2. PICK i \in Entry :
          /\ Found(n, i)
          /\ Memory([Loaded(Idle) EXCEPT !.pc = "open", !.job = "file",
                                         !.idx = i, !.size = FileSize(ent, i)])
    BY DEF Open
  <1>3. i \in Files(ent) /\ ent \in Table /\ free \in SUBSET Lsn
    BY <1>1, <1>2, FoundIs DEF OnDisk
  <1>4. Ended(ent, i)
    BY <1>1, <1>3, FilesAre DEF IsDirectory
  <1>5. PICK size \in Nat : size = FileSize(ent, i) /\ SectorsFor(size) = Len(FileSectors(ent, i))
    BY <1>3, <1>4, SizeHasSectors
  <1>6. s' = [Loaded(Idle) EXCEPT !.pc = "open", !.job = "file", !.idx = i, !.size = size]
    BY <1>2, <1>5 DEF Memory
  <1>7. /\ s' \in PathState /\ s'.pc = "open" /\ s'.job = "file" /\ s'.idx = i /\ s'.size = size
        /\ s'.spare = NoSpare /\ s'.free = free /\ s'.ent = ent /\ s'.dirty = {}
    BY <1>3, <1>6, IdleIs DEF Loaded, PathState, Pcs
  <1>8. IsSteady(s')
    BY <1>3, <1>5, <1>7 DEF IsSteady, Sized
  <1>9. AgreeBut(free, ent, s'.free, s'.ent, s'.dirty, {})
    BY <1>7 DEF AgreeBut
  <1>10. free' = free /\ ent' = ent /\ lost' = lost
    BY <1>2 DEF Memory
  <1>11. IsDirectory(s'.free, s'.ent, Spare(s'), lost) /\ \A j \in Entry : Sound(s'.ent[j])
    BY <1>1, <1>7, NoSpareIsNone DEF OnDisk
  <1> QED
    BY <1>1, <1>8, <1>9, <1>10, <1>11, SteadyIsGood

(* _dragondos_rename_ex keeps the invariant: it changes a name, no sectors. *)
LEMMA RenameKeeps ==
  ASSUME Good(free, ent, s, lost), NEW n \in Names, NEW m \in Names, Rename(n, m), Named(ent, m) = {}
  PROVE  Good(free', ent', s', lost')
  <1>1. OnDisk(free, ent) /\ IsDirectory(free, ent, {}, lost)
    BY DEF Good, HasTrack, Rename
  <1>2. PICK i \in Entry :
          /\ Found(n, i)
          /\ Memory([Loaded(Idle) EXCEPT !.pc = "flush", !.job = "rename",
                                         !.ent[i].name = m, !.dirty = TrackSectors({}, {i})])
    BY DEF Rename
  <1>3. i \in Files(ent) /\ ent \in Table /\ free \in SUBSET Lsn
    BY <1>1, <1>2, FoundIs DEF OnDisk
  <1>4. PICK h : h = [ent EXCEPT ![i].name = m]
    OBVIOUS
  <1>5. PICK d : d = TrackSectors({}, {i})
    OBVIOUS
  <1>6. /\ ent[i] \in Slot /\ h[i] = [ent[i] EXCEPT !.name = m]
        /\ \A j \in Entry \ {i} : h[j] = ent[j]
    BY <1>3, <1>4, TableIs DEF Table
  <1>7. /\ h[i] \in Slot /\ h[i].kind = ent[i].kind /\ h[i].next = ent[i].next
        /\ h[i].ext = ent[i].ext
    BY <1>6 DEF Slot
  <1>8. h \in Table
    BY <1>3, <1>4, <1>6, <1>7 DEF Table
  <1>9. d \in SUBSET (0 .. (1 + Entries \div PerSector))
    <2>1. {} \in SUBSET Lsn /\ {i} \in SUBSET Entry
      OBVIOUS
    <2> QED
      BY <1>5, <2>1, TrackSectorsAre
  <1>10. s' = [Loaded(Idle) EXCEPT !.pc = "flush", !.job = "rename", !.ent = h, !.dirty = d]
    BY <1>2, <1>4, <1>5, IdleIs DEF Memory, Loaded, PathState
  <1>11. /\ s' \in PathState /\ s'.pc = "flush" /\ s'.job = "rename" /\ s'.spare = NoSpare
         /\ s'.free = free /\ s'.ent = h /\ s'.dirty = d
    BY <1>3, <1>8, <1>9, <1>10, IdleIs DEF Loaded, PathState, Pcs
  <1>12. IsSteady(s')
    BY <1>11 DEF IsSteady
  <1>13. AgreeBut(free, ent, s'.free, s'.ent, s'.dirty, {})
    <2>1. AgreeBut(free, ent, free, ent, {}, {})
      BY DEF AgreeBut
    <2>2. {} \in SUBSET Lsn /\ {i} \in SUBSET Entry /\ d = {} \cup TrackSectors({}, {i})
      BY <1>5
    <2>3. AgreeBut(free, ent, free, h, d, {})
      BY <1>6, <2>1, <2>2, AgreeMarked
    <2> QED
      BY <1>11, <2>3
  <1>14. \A j \in Entry : Sound(s'.ent[j])
    <2>1. Sound(ent[i]) /\ \A j \in Entry : Sound(ent[j])
      BY <1>1 DEF OnDisk
    <2>2. Capacity(h[i]) = Capacity(ent[i])
      BY <1>7 DEF Capacity
    <2>3. Sound(h[i])
      BY <1>7, <2>1, <2>2 DEF Sound
    <2> QED
      BY <1>6, <1>11, <2>1, <2>3
  <1>15. IsDirectory(free, h, {}, lost)
    <2>1. \A c \in Entry : /\ h[c].next = ent[c].next /\ h[c].kind = ent[c].kind
                           /\ SectorsOf(h[c].ext) = SectorsOf(ent[c].ext)
      BY <1>6, <1>7
    <2>2. /\ Chained(h)
          /\ \A f, x : Apart(f, ent, x) => Apart(f, h, x)
          /\ \A f, x : Exact(f, ent, x) => Exact(f, h, x)
      BY <1>1, <1>3, <1>8, <2>1, SameDirectory DEF IsDirectory
    <2> QED
      BY <1>1, <2>2 DEF IsDirectory
  <1>16. free' = free /\ ent' = ent /\ lost' = lost
    BY <1>2 DEF Memory
  <1>17. IsDirectory(s'.free, s'.ent, Spare(s'), lost)
    BY <1>11, <1>15, NoSpareIsNone
  <1> QED
    BY <1>1, <1>12, <1>13, <1>14, <1>16, <1>17, SteadyIsGood

(* _dragondos_create's new entry keeps the invariant: it was deleted, and has  *)
(* no sectors.                                                              *)
LEMMA NewFileKeeps ==
  ASSUME Good(free, ent, s, lost), NewFile
  PROVE  Good(free', ent', s', lost')
  <1>1. /\ OnDisk(free, ent) /\ IsDirectory(free, ent, {}, lost) /\ s.name \in Names
        /\ s.pc = "create"
    BY DEF Good, HasTrack, NewFile, Control
  <1>2. PICK i \in Entry :
          /\ IsFreeFrom(ent, 0, i)
          /\ Memory([Loaded(Idle) EXCEPT !.pc = "flush", !.job = "new", !.idx = i,
                       !.ent[i] = Header(s.name), !.dirty = TrackSectors({}, {i})])
    BY DEF NewFile
  <1>3. ent[i].kind = "deleted" /\ ent \in Table /\ free \in SUBSET Lsn
    BY <1>1, <1>2 DEF OnDisk, IsFreeFrom
  <1>4. PICK n \in Names : n = s.name
    BY <1>1
  <1>5. PICK h : h = [ent EXCEPT ![i] = Header(n)]
    OBVIOUS
  <1>6. PICK d : d = TrackSectors({}, {i})
    OBVIOUS
  <1>7. Chained(ent) /\ Apart(free, ent, {})
    BY <1>1 DEF IsDirectory
  <1>8. /\ h \in Table /\ Files(h) = Files(ent) \cup {i} /\ Chained(h) /\ Apart(free, h, {})
        /\ Exact(free, ent, {}) => Exact(free, h, {})
        /\ FileSectors(h, i) = << >> /\ FileSize(h, i) = 0
    BY <1>3, <1>5, <1>7, NewIsWith
  <1>9. d \in SUBSET (0 .. (1 + Entries \div PerSector))
    <2>1. {} \in SUBSET Lsn /\ {i} \in SUBSET Entry
      OBVIOUS
    <2> QED
      BY <1>6, <2>1, TrackSectorsAre
  <1>10. s' = [Loaded(Idle) EXCEPT !.pc = "flush", !.job = "new", !.idx = i,
                                   !.ent = h, !.dirty = d]
    BY <1>2, <1>4, <1>5, <1>6, IdleIs DEF Memory, Loaded, PathState
  <1>11. /\ s' \in PathState /\ s'.pc = "flush" /\ s'.job = "new" /\ s'.spare = NoSpare
         /\ s'.free = free /\ s'.ent = h /\ s'.dirty = d /\ s'.idx = i /\ s'.size = 0
    <2>1. Idle.size = 0
      BY DEF Idle
    <2> QED
      BY <1>3, <1>8, <1>9, <1>10, <2>1, IdleIs DEF Loaded, PathState, Pcs
  <1>12. Sized(s')
    <2>1. Ended(h, i)
      BY <1>8, FilesAre
    <2>2. SectorsFor(0) = Len(FileSectors(h, i))
      BY <1>8, <2>1, SizeHasSectors
    <2> QED
      BY <1>8, <1>11, <2>2 DEF Sized
  <1>13. IsSteady(s')
    BY <1>8, <1>11, <1>12 DEF IsSteady
  <1>14. h[i] = Header(n) /\ \A j \in Entry \ {i} : h[j] = ent[j]
    BY <1>3, <1>5 DEF Table
  <1>15. AgreeBut(free, ent, s'.free, s'.ent, s'.dirty, {})
    <2>1. AgreeBut(free, ent, free, ent, {}, {})
      BY DEF AgreeBut
    <2>2. {} \in SUBSET Lsn /\ {i} \in SUBSET Entry /\ d = {} \cup TrackSectors({}, {i})
      BY <1>6
    <2>3. AgreeBut(free, ent, free, h, d, {})
      BY <1>14, <2>1, <2>2, AgreeMarked
    <2> QED
      BY <1>11, <2>3
  <1>16. \A j \in Entry : Sound(s'.ent[j])
    BY <1>1, <1>11, <1>14, DeletedIs DEF OnDisk
  <1>17. IsDirectory(s'.free, s'.ent, Spare(s'), lost)
    BY <1>1, <1>8, <1>11, NoSpareIsNone DEF IsDirectory
  <1>18. free' = free /\ ent' = ent /\ lost' = lost
    BY <1>2 DEF Memory
  <1> QED
    BY <1>1, <1>13, <1>15, <1>16, <1>17, <1>18, SteadyIsGood

(* A file is killed, for itself or for one of its name. *)
LEMMA KilledIsGood ==
  ASSUME OnDisk(free, ent), IsDirectory(free, ent, {}, lost),
         NEW i \in Files(ent), NEW r \in PathState,
         r.job \in {"kill", "replace"}, r.spare = NoSpare, r.job = "replace" => r.name \in Names
  PROVE  Good(free, ent, Killed(r, i), lost)
  <1>1. ent \in Table /\ free \in SUBSET Lsn /\ i \in Entry /\ Chained(ent) /\ Apart(free, ent, {})
    BY DEF OnDisk, IsDirectory, Files
  <1>2. PICK g : g = free \cup Held(ent, i)
    OBVIOUS
  <1>3. PICK h : h = [j \in Entry |-> IF j \in Chain(ent, i) THEN Deleted ELSE ent[j]]
    OBVIOUS
  <1>4. PICK d : d = TrackSectors(Held(ent, i), Chain(ent, i))
    OBVIOUS
  <1>5. Without(ent, h, free, g, i)
    BY <1>1, <1>2, <1>3, KilledIsWithout
  <1>6. Held(ent, i) \in SUBSET Lsn /\ Chain(ent, i) \in SUBSET Entry
    BY <1>1, FilesAre DEF Apart
  <1>7. d \in SUBSET (0 .. (1 + Entries \div PerSector)) /\ g \in SUBSET Lsn /\ h \in Table
    BY <1>1, <1>2, <1>4, <1>5, <1>6, TrackSectorsAre DEF Without
  <1>8. PICK q : q = Killed(r, i)
    OBVIOUS
  <1>9. q = [Loaded(r) EXCEPT !.pc = "flush", !.cut = TRUE, !.free = g, !.ent = h, !.dirty = d]
    BY <1>2, <1>3, <1>4, <1>8 DEF Killed
  <1>10. /\ q \in PathState /\ q.pc = "flush" /\ q.job = r.job /\ q.spare = NoSpare
         /\ q.free = g /\ q.ent = h /\ q.dirty = d /\ q.name = r.name
    BY <1>1, <1>7, <1>9 DEF Loaded, PathState, Pcs
  <1>11. IsSteady(q)
    BY <1>10 DEF IsSteady
  <1>12. \A j \in Entry : h[j] = IF j \in Chain(ent, i) THEN Deleted ELSE ent[j]
    BY <1>3
  <1>13. AgreeBut(free, ent, g, h, d, {})
    <2>1. AgreeBut(free, ent, free, ent, {}, {})
      BY DEF AgreeBut
    <2>2. d = {} \cup TrackSectors(Held(ent, i), Chain(ent, i))
      BY <1>4
    <2>3. PICK S \in SUBSET Lsn : S = Held(ent, i)
      BY <1>6
    <2>4. PICK E \in SUBSET Entry : E = Chain(ent, i)
      BY <1>6
    <2>5. d = {} \cup TrackSectors(S, E)
      BY <2>2, <2>3, <2>4
    <2>6. \A l \in Lsn \ S : l \in g <=> l \in free
      BY <1>2, <2>3
    <2>7. \A j \in Entry \ E : h[j] = ent[j]
      BY <1>12, <2>4
    <2> QED
      BY <2>1, <2>5, <2>6, <2>7, AgreeMarked
  <1>14. \A j \in Entry : Sound(h[j])
    BY <1>12, DeletedIs DEF OnDisk
  <1>15. IsDirectory(g, h, {}, lost)
    BY <1>5 DEF Without, IsDirectory
  <1>16. IsDirectory(q.free, q.ent, Spare(q), lost)
    BY <1>10, <1>15, NoSpareIsNone
  <1> QED
    BY <1>8, <1>10, <1>11, <1>13, <1>14, <1>16, SteadyIsGood

(* Deleting a file keeps the invariant: exactly its sectors become free. *)
LEMMA KillsKeep ==
  ASSUME Good(free, ent, s, lost), Replace \/ \E n \in Names : Kill(n)
  PROVE  Good(free', ent', s', lost')
  <1>1. OnDisk(free, ent) /\ IsDirectory(free, ent, {}, lost)
    BY DEF Good, HasTrack, Replace, Kill
  <1>2. PICK r \in PathState, i \in Files(ent) :
          /\ r.job \in {"kill", "replace"} /\ r.spare = NoSpare
          /\ r.job = "replace" => r.name \in Names
          /\ Memory(Killed(r, i))
    <2>1. CASE Replace
      <3>1. PICK i \in Entry :
              Found(s.name, i) /\ Memory(Killed([Idle EXCEPT !.job = "replace", !.name = s.name], i))
        BY <2>1 DEF Replace
      <3>2. PICK n \in Names : n = s.name
        BY <2>1 DEF Replace, Good, Control
      <3>3. PICK r : r = [Idle EXCEPT !.job = "replace", !.name = n]
        OBVIOUS
      <3>4. /\ r \in PathState /\ r.job = "replace" /\ r.name \in Names /\ r.spare = NoSpare
        BY <3>3, IdleIs DEF PathState
      <3>5. i \in Files(ent)
        BY <3>1, FoundIs
      <3> QED
        BY <3>1, <3>2, <3>3, <3>4, <3>5
    <2>2. CASE \E n \in Names : Kill(n)
      <3>1. PICK n \in Names : Kill(n)
        BY <2>2
      <3>2. PICK i \in Entry : Found(n, i) /\ Memory(Killed([Idle EXCEPT !.job = "kill"], i))
        BY <3>1 DEF Kill
      <3>3. PICK r : r = [Idle EXCEPT !.job = "kill"]
        OBVIOUS
      <3>4. /\ r \in PathState /\ r.job = "kill" /\ r.spare = NoSpare
        BY <3>3, IdleIs DEF PathState
      <3>5. i \in Files(ent)
        BY <3>2, FoundIs
      <3> QED
        BY <3>2, <3>3, <3>4, <3>5
    <2> QED
      BY <2>1, <2>2
  <1>3. s' = Killed(r, i) /\ free' = free /\ ent' = ent /\ lost' = lost
    BY <1>2 DEF Memory
  <1>4. Good(free, ent, Killed(r, i), lost)
    BY <1>1, <1>2, KilledIsGood
  <1> QED
    BY <1>3, <1>4

-----------------------------------------------------------------------------
(* Steps that leave the directory track as it is *)

(* What the invariant says of a path with a directory track. *)
LEMMA GoodIs ==
  ASSUME NEW f, NEW e, NEW r, NEW l, Good(f, e, r, l), HasTrack(r)
  PROVE  /\ OnDisk(f, e) /\ r \in PathState /\ Control(r) /\ Entered(r) /\ Sizes(r) /\ Behind(r)
         /\ IsDirectory(r.free, r.ent, Spare(r), l) /\ Agree(f, e, r)
         /\ r.ent \in Table /\ r.free \in SUBSET Lsn
         /\ Chained(r.ent) /\ Apart(r.free, r.ent, Spare(r))
         /\ r.pc # "use" =>
              AgreeBut(f, e, r.free, r.ent, r.dirty, {}) /\ \A j \in Entry : Sound(r.ent[j])
  <1>1. r.pc # "use" => Excused(r) = {}
    BY DEF Excused, Pending
  <1> QED
    BY <1>1 DEF Good, IsDirectory, Agree, Entered, PathState

(* A step that changes neither directory nor map keeps the invariant. *)
LEMMA SteadyAgain ==
  ASSUME NEW f, NEW e, NEW r, NEW q, NEW l, Good(f, e, r, l), HasTrack(r), r.pc # "use",
         IsSteady(q), q.free = r.free, q.ent = r.ent, q.dirty = r.dirty, q.spare = r.spare
  PROVE  Good(f, e, q, l)
  <1>1. Spare(q) = Spare(r)
    BY DEF Spare
  <1>2. /\ OnDisk(f, e) /\ IsDirectory(q.free, q.ent, Spare(q), l)
        /\ AgreeBut(f, e, q.free, q.ent, q.dirty, {}) /\ \A j \in Entry : Sound(q.ent[j])
    BY <1>1, GoodIs
  <1> QED
    BY <1>2, SteadyIsGood

(* What the invariant says of an open path between calls. *)
LEMMA OpenIs ==
  ASSUME NEW f, NEW e, NEW r, NEW l, Good(f, e, r, l), r.pc \in {"open", "data"}
  PROVE  /\ HasTrack(r) /\ r.job = "file" /\ Sized(r) /\ r.idx \in Files(r.ent)
         /\ r \in PathState
  BY DEF Good, HasTrack, Sizes, Control

(* _dragondos_seek keeps the invariant. *)
LEMMA SeekKeeps ==
  ASSUME Good(free, ent, s, lost), NEW pos \in Positions, Seek(pos)
  PROVE  Good(free', ent', s', lost')
  <1>1. /\ s.pc = "open" /\ s' = [s EXCEPT !.pos = pos]
        /\ free' = free /\ ent' = ent /\ lost' = lost
    BY DEF Seek, Memory
  <1>2. /\ HasTrack(s) /\ s.job = "file" /\ Sized(s) /\ s.idx \in Files(s.ent) /\ s \in PathState
    BY <1>1, OpenIs
  <1>3. pos \in 0 .. MaxSize
    BY DosAssumption
  <1>4. /\ s' \in PathState /\ s'.pc = "open" /\ s'.job = "file" /\ s'.idx = s.idx
        /\ s'.size = s.size /\ s'.free = s.free /\ s'.ent = s.ent /\ s'.dirty = s.dirty
        /\ s'.spare = s.spare
    BY <1>1, <1>2, <1>3 DEF PathState
  <1>5. IsSteady(s')
    BY <1>2, <1>4 DEF IsSteady, Sized
  <1> QED
    BY <1>1, <1>2, <1>4, <1>5, SteadyAgain

(* A write inside the file's size keeps the invariant. *)
LEMMA WriteInPlaceKeeps ==
  ASSUME Good(free, ent, s, lost), NEW k \in WriteSizes, Write(k), s.pos + k <= s.size
  PROVE  Good(free', ent', s', lost')
  <1>1. s.pc = "open" /\ s.pos + k <= MaxSize
    BY DEF Write
  <1>2. /\ HasTrack(s) /\ s.job = "file" /\ Sized(s) /\ s.idx \in Files(s.ent) /\ s \in PathState
    BY <1>1, OpenIs
  <1>3. k \in Nat /\ s.pos \in Nat /\ s.size \in Nat /\ s.pos + k \in 0 .. MaxSize
    BY <1>1, <1>2, DosAssumption DEF PathState
  <1>4. /\ s' = [s EXCEPT !.pc = "data", !.op = "write", !.goal = s.pos + k, !.old = s.size]
        /\ free' = free /\ ent' = ent /\ lost' = lost
    BY <1>3 DEF Write, Memory
  <1>5. /\ s' \in PathState /\ s'.pc = "data" /\ s'.job = "file" /\ s'.idx = s.idx
        /\ s'.size = s.size /\ s'.free = s.free /\ s'.ent = s.ent /\ s'.dirty = s.dirty
        /\ s'.spare = s.spare /\ s'.old = s.size /\ s'.pos = s.pos /\ s'.goal = s.pos + k
    BY <1>2, <1>3, <1>4 DEF PathState, Pcs
  <1>6. IsSteady(s')
    BY <1>2, <1>3, <1>5 DEF IsSteady, Sized
  <1> QED
    BY <1>1, <1>2, <1>4, <1>5, <1>6, SteadyAgain

(* Setting the size a file has keeps the invariant. *)
LEMMA SetToSameKeeps ==
  ASSUME Good(free, ent, s, lost), NEW size \in SetSizes, SetSize(size), size = s.size
  PROVE  Good(free', ent', s', lost')
  <1>1. /\ s.pc = "open"
    BY DEF SetSize
  <1>2. /\ HasTrack(s) /\ s.job = "file" /\ Sized(s) /\ s.idx \in Files(s.ent) /\ s \in PathState
    BY <1>1, OpenIs
  <1>3. ~ (size > s.size) /\ ~ (size < s.size)
    BY <1>2 DEF PathState
  <1>4. /\ s' = [s EXCEPT !.pc = "flush"]
        /\ free' = free /\ ent' = ent /\ lost' = lost
    BY <1>3 DEF SetSize, Memory
  <1>5. /\ s' \in PathState /\ s'.pc = "flush" /\ s'.job = "file" /\ s'.idx = s.idx
        /\ s'.size = s.size /\ s'.free = s.free /\ s'.ent = s.ent /\ s'.dirty = s.dirty
        /\ s'.spare = s.spare
    BY <1>2, <1>4 DEF PathState, Pcs
  <1>6. IsSteady(s')
    BY <1>2, <1>5 DEF IsSteady, Sized
  <1> QED
    BY <1>1, <1>2, <1>4, <1>5, <1>6, SteadyAgain

(* Writing a sector of data keeps the invariant. *)
LEMMA PutSectorKeeps ==
  ASSUME Good(free, ent, s, lost), PutSector
  PROVE  Good(free', ent', s', lost')
  <1>1. s.pc = "data"
    BY DEF PutSector
  <1>2. /\ HasTrack(s) /\ s.job = "file" /\ Sized(s) /\ s.idx \in Files(s.ent) /\ s \in PathState
        /\ s.old <= s.size /\ s.pos <= s.goal /\ s.goal <= s.size
    BY <1>1, OpenIs DEF Good, Sizes
  <1>3. s.pos \in Nat /\ s.goal \in 0 .. MaxSize
    BY <1>2 DEF PathState
  <1>4. EndOfSector \in Nat
    <2>1. PICK b \in Nat \ {0} : b = Bps
      BY DirAssumption
    <2>2. PICK p \in Nat : p = s.pos
      BY <1>3
    <2>3. p \div b + 1 \in Nat
      BY <2>1
    <2>4. (p \div b + 1) * b \in Nat
      BY <2>1, <2>3
    <2> QED
      BY <2>1, <2>2, <2>4 DEF EndOfSector
  <1>5. PICK p \in 0 .. MaxSize, c \in {"data", "flush"} :
          p <= s.goal /\ Memory([s EXCEPT !.pos = p, !.pc = c])
    <2>1. CASE EndOfSector < s.goal
      <3>1. EndOfSector \in 0 .. MaxSize /\ EndOfSector <= s.goal
        BY <1>3, <1>4, <2>1, ConstantsAre
      <3>2. [s EXCEPT !.pos = EndOfSector] = [s EXCEPT !.pos = EndOfSector, !.pc = "data"]
        BY <1>1, <1>2 DEF PathState
      <3> QED
        BY <2>1, <3>1, <3>2 DEF PutSector
    <2>2. CASE ~ (EndOfSector < s.goal)
      <3>1. s.goal <= s.goal
        BY <1>3
      <3> QED
        BY <1>3, <2>2, <3>1 DEF PutSector
    <2> QED
      BY <2>1, <2>2
  <1>6. s' = [s EXCEPT !.pos = p, !.pc = c] /\ free' = free /\ ent' = ent /\ lost' = lost
    BY <1>5 DEF Memory
  <1>7. /\ s' \in PathState /\ s'.pc = c /\ s'.job = "file" /\ s'.idx = s.idx
        /\ s'.size = s.size /\ s'.free = s.free /\ s'.ent = s.ent /\ s'.dirty = s.dirty
        /\ s'.spare = s.spare /\ s'.old = s.old /\ s'.pos = p /\ s'.goal = s.goal
    BY <1>2, <1>6 DEF PathState, Pcs
  <1>8. IsSteady(s')
    BY <1>2, <1>5, <1>7 DEF IsSteady, Sized
  <1> QED
    BY <1>1, <1>2, <1>6, <1>7, <1>8, SteadyAgain

-----------------------------------------------------------------------------
(* The directory track is written *)

(* What the invariant says of a path that writes its directory track. *)
LEMMA FlushIs ==
  ASSUME NEW f, NEW e, NEW r, NEW l, Good(f, e, r, l), r.pc = "flush"
  PROVE  /\ IsSteady(r) /\ HasTrack(r) /\ OnDisk(f, e)
         /\ r.free \subseteq Lsn \ System /\ r.ent \in Table /\ \A j \in Entry : Sound(r.ent[j])
         /\ IsDirectory(r.free, r.ent, Spare(r), l)
         /\ AgreeBut(f, e, r.free, r.ent, r.dirty, {})
  <1>1. HasTrack(r)
    BY DEF HasTrack
  <1>2. /\ OnDisk(f, e) /\ r \in PathState /\ Control(r) /\ Sizes(r) /\ r.ent \in Table
        /\ IsDirectory(r.free, r.ent, Spare(r), l)
        /\ AgreeBut(f, e, r.free, r.ent, r.dirty, {}) /\ \A j \in Entry : Sound(r.ent[j])
    BY <1>1, GoodIs
  <1>3. IsSteady(r)
    BY <1>2 DEF IsSteady, Control, Sizes
  <1>4. r.free \subseteq Lsn \ System
    BY <1>2 DEF IsDirectory, Apart
  <1> QED
    BY <1>1, <1>2, <1>3, <1>4

(* The disk with a sector of it written. *)
LEMMA TrackSectorIsWritten ==
  ASSUME Good(free, ent, s, lost), s.pc = "flush", NEW i, WithTrackSector(i)
  PROVE  /\ OnDisk(free', ent')
         /\ AgreeBut(free', ent', s.free, s.ent, s.dirty \ {i}, {})
  <1>1. /\ OnDisk(free, ent) /\ s.free \subseteq Lsn \ System /\ s.ent \in Table
        /\ \A j \in Entry : Sound(s.ent[j])
        /\ AgreeBut(free, ent, s.free, s.ent, s.dirty, {})
    BY FlushIs
  <1>2. /\ free' = (free \ OfTrackSector(i).lsns) \cup (s.free \cap OfTrackSector(i).lsns)
        /\ ent' = [j \in Entry |-> IF j \in OfTrackSector(i).entries THEN s.ent[j] ELSE ent[j]]
    BY DEF WithTrackSector
  <1>3. OnDisk(free', ent')
    BY <1>1, <1>2, WrittenIsOnDisk
  <1>4. AgreeBut(free', ent', s.free, s.ent, s.dirty \ {i}, {})
    BY <1>1, <1>2, AgreeWritten
  <1> QED
    BY <1>3, <1>4

(* Writing one sector of the directory track keeps the invariant: the disk  *)
(* agrees with the path on it from then on.                                 *)
LEMMA PutTrackSectorKeeps ==
  ASSUME Good(free, ent, s, lost), PutTrackSector
  PROVE  Good(free', ent', s', lost')
  <1>1. PICK i : i = Min(s.dirty)
    OBVIOUS
  <1>2. /\ s.pc = "flush" /\ WithTrackSector(i) /\ s' = [s EXCEPT !.dirty = s.dirty \ {i}]
        /\ lost' = lost
    BY <1>1 DEF PutTrackSector
  <1>3. OnDisk(free', ent') /\ AgreeBut(free', ent', s.free, s.ent, s.dirty \ {i}, {})
    BY <1>2, TrackSectorIsWritten
  <1>4. /\ IsSteady(s) /\ \A j \in Entry : Sound(s.ent[j])
        /\ IsDirectory(s.free, s.ent, Spare(s), lost)
    BY <1>2, FlushIs
  <1>5. s \in PathState
    BY <1>4 DEF IsSteady
  <1>6. /\ s' \in PathState /\ s'.pc = s.pc /\ s'.job = s.job /\ s'.idx = s.idx
        /\ s'.size = s.size /\ s'.free = s.free /\ s'.ent = s.ent /\ s'.dirty = s.dirty \ {i}
        /\ s'.spare = s.spare /\ s'.name = s.name
    BY <1>2, <1>5 DEF PathState
  <1>7. IsSteady(s')
    BY <1>2, <1>4, <1>6 DEF IsSteady, Sized
  <1>8. Spare(s') = Spare(s)
    BY <1>6 DEF Spare
  <1>9. /\ IsDirectory(s'.free, s'.ent, Spare(s'), lost') /\ \A j \in Entry : Sound(s'.ent[j])
        /\ AgreeBut(free', ent', s'.free, s'.ent, s'.dirty, {})
    BY <1>2, <1>3, <1>4, <1>6, <1>8
  <1> QED
    BY <1>3, <1>7, <1>9, SteadyIsGood

(* A call on an open file, or one that opens it, returns.                   *)
LEMMA ReturnIs ==
  ASSUME NEW r, IsSteady(r), r.job \in {"file", "new"},
         NEW q, NEW c \in BOOLEAN, NEW u \in {"ok", "PNNF", "FAE", "DF", "EIO"},
         q = [Return(r) EXCEPT !.cut = c, !.ec = u]
  PROVE  /\ IsSteady(q) /\ q.free = r.free /\ q.ent = r.ent /\ q.dirty = r.dirty
         /\ Spare(q) = Spare(r)
  <1>1. r \in PathState /\ r.idx \in Files(r.ent) /\ Sized(r)
    BY DEF IsSteady
  <1>2. /\ q \in PathState /\ q.pc = "open" /\ q.job = "file" /\ q.idx = r.idx
        /\ q.size = r.size /\ q.free = r.free /\ q.ent = r.ent /\ q.dirty = r.dirty
        /\ q.spare = r.spare
    BY <1>1, ConstantsAre, ZenonT(60) DEF Return, PathState, Pcs
  <1>3. IsSteady(q)
    BY <1>1, <1>2 DEF IsSteady, Sized
  <1> QED
    BY <1>2, <1>3 DEF Spare

(* What a write that fails returns keeps the path's note of a cut.          *)
LEMMA ReturnsTheCut ==
  ASSUME NEW r, r \in PathState
  PROVE  [Return(r) EXCEPT !.ec = "EIO"] = [Return(r) EXCEPT !.cut = r.cut, !.ec = "EIO"]
  <1>1. PICK t : t = Return(r)
    OBVIOUS
  <1>2. t.cut = r.cut /\ t = [t EXCEPT !.cut = r.cut]
    BY <1>1 DEF Return, PathState
  <1>3. [t EXCEPT !.ec = "EIO"] = [t EXCEPT !.cut = r.cut, !.ec = "EIO"]
    BY <1>2
  <1> QED
    BY <1>1, <1>3

(* A path that is gone leaves the disk as it is: if that is safe, it is     *)
(* that of no path again, on which sectors may be lost.                     *)
LEMMA AbandonKeeps ==
  ASSUME OnDisk(free', ent'), NEW c \in {"ok", "PNNF", "FAE", "DF", "EIO"}, Abandon(c),
         lost' # "files"
  PROVE  Good(free', ent', s', lost')
  <1>1. s' = Done(c) /\ Safe(free', ent') /\ lost' = "sectors"
    BY DEF Abandon
  <1>2. /\ free' \subseteq Lsn \ System /\ ent' \in Table /\ \A j \in Entry : Sound(ent'[j])
    BY DEF OnDisk
  <1>3. Chained(ent') /\ Apart(free', ent', {})
    BY <1>1, <1>2, SafeIsDirectory
  <1>4. IsDirectory(free', ent', {}, lost')
    BY <1>1, <1>3 DEF IsDirectory
  <1> QED
    BY <1>1, <1>4, DoneIsRest, RestIsGood

(* A directory track that cannot be written keeps the invariant, unless it  *)
(* costs a file.                                                            *)
LEMMA PutTrackSectorFailsKeeps ==
  ASSUME Good(free, ent, s, lost), PutTrackSectorFails, lost' # "files"
  PROVE  Good(free', ent', s', lost')
  <1>1. PICK i : i = Min(s.dirty)
    OBVIOUS
  <1>2. /\ s.pc = "flush" /\ (WithTrackSector(i) \/ UNCHANGED << free, ent >>)
        /\ IF s.job = "file"
             THEN s' = [Return(s) EXCEPT !.ec = "EIO"] /\ lost' = lost
             ELSE Abandon("EIO")
    BY <1>1 DEF PutTrackSectorFails
  <1>3. /\ IsSteady(s) /\ \A j \in Entry : Sound(s.ent[j]) /\ OnDisk(free, ent)
        /\ IsDirectory(s.free, s.ent, Spare(s), lost)
        /\ AgreeBut(free, ent, s.free, s.ent, s.dirty, {})
    BY <1>2, FlushIs
  <1>4. OnDisk(free', ent') /\ AgreeBut(free', ent', s.free, s.ent, s.dirty, {})
    <2>1. CASE WithTrackSector(i)
      <3>1. OnDisk(free', ent') /\ AgreeBut(free', ent', s.free, s.ent, s.dirty \ {i}, {})
        BY <1>2, <2>1, TrackSectorIsWritten
      <3> QED
        BY <3>1 DEF AgreeBut
    <2>2. CASE UNCHANGED << free, ent >>
      <3>1. free' = free /\ ent' = ent
        BY <2>2
      <3>2. OnDisk(free, ent)
        BY DEF Good
      <3>3. OnDisk(free', ent')
        BY <3>1, <3>2 DEF OnDisk
      <3>4. AgreeBut(free', ent', s.free, s.ent, s.dirty, {})
        BY <1>3, <3>1
      <3> QED
        BY <3>3, <3>4
    <2> QED
      BY <1>2, <2>1, <2>2
  <1>5. CASE s.job = "file"
    <2>1. s \in PathState /\ s.cut \in BOOLEAN
      BY <1>3 DEF IsSteady, PathState
    <2>2. PICK c \in BOOLEAN : c = s.cut
      BY <2>1
    <2>3. s' = [Return(s) EXCEPT !.cut = c, !.ec = "EIO"]
      BY <1>2, <1>5, <2>1, <2>2, ReturnsTheCut
    <2>4. /\ IsSteady(s') /\ s'.free = s.free /\ s'.ent = s.ent /\ s'.dirty = s.dirty
          /\ Spare(s') = Spare(s)
      BY <1>3, <1>5, <2>3, ReturnIs
    <2>5. /\ IsDirectory(s'.free, s'.ent, Spare(s'), lost') /\ \A j \in Entry : Sound(s'.ent[j])
          /\ AgreeBut(free', ent', s'.free, s'.ent, s'.dirty, {})
      BY <1>2, <1>3, <1>4, <1>5, <2>4
    <2> QED
      BY <1>4, <2>4, <2>5, SteadyIsGood
  <1>6. CASE s.job # "file"
    BY <1>2, <1>4, <1>6, AbandonKeeps
  <1> QED
    BY <1>5, <1>6

(* A crash keeps the invariant, unless it costs a file. *)
LEMMA CrashKeeps ==
  ASSUME Good(free, ent, s, lost), Crash, lost' # "files"
  PROVE  Good(free', ent', s', lost')
  <1>1. OnDisk(free', ent')
    BY DEF Crash, Good
  <1> QED
    BY <1>1, AbandonKeeps DEF Crash

(* The end of writing the directory track keeps the invariant: nothing      *)
(* differs any more.                                                        *)
LEMMA FlushedKeeps ==
  ASSUME Good(free, ent, s, lost), Flushed
  PROVE  Good(free', ent', s', lost')
  <1>1. /\ s.pc = "flush" /\ s.dirty = {} /\ free' = free /\ ent' = ent /\ lost' = lost
        /\ s' = CASE s.job \in {"file", "new"} -> [Return(s) EXCEPT !.cut = FALSE]
                  [] s.job = "replace" -> [Idle EXCEPT !.pc = "create", !.name = s.name]
                  [] OTHER -> Done("ok")
    BY DEF Flushed, Memory
  <1>2. /\ IsSteady(s) /\ HasTrack(s) /\ OnDisk(free, ent) /\ s \in PathState
        /\ \A j \in Entry : Sound(s.ent[j])
        /\ IsDirectory(s.free, s.ent, Spare(s), lost)
        /\ AgreeBut(free, ent, s.free, s.ent, s.dirty, {})
    BY <1>1, FlushIs DEF IsSteady
  <1>3. CASE s.job \in {"file", "new"}
    <2>1. s' = [Return(s) EXCEPT !.cut = FALSE]
      BY <1>1, <1>3
    <2>2. PICK u \in {"ok", "PNNF", "FAE", "DF", "EIO"} : u = s.ec
      BY <1>2 DEF PathState
    <2>3. s' = [Return(s) EXCEPT !.cut = FALSE, !.ec = u]
      BY <1>2, <2>1, <2>2 DEF Return, PathState
    <2>4. /\ IsSteady(s') /\ s'.free = s.free /\ s'.ent = s.ent /\ s'.dirty = s.dirty
          /\ Spare(s') = Spare(s)
      BY <1>2, <1>3, <2>3, ReturnIs
    <2>5. /\ IsDirectory(s'.free, s'.ent, Spare(s'), lost) /\ \A j \in Entry : Sound(s'.ent[j])
          /\ AgreeBut(free, ent, s'.free, s'.ent, s'.dirty, {})
      BY <1>2, <2>4
    <2> QED
      BY <1>1, <1>2, <2>4, <2>5, SteadyIsGood
  <1>4. CASE s.job \notin {"file", "new"}
    <2>1. s.spare = NoSpare /\ Spare(s) = {}
      BY <1>2, <1>4, NoSpareIsNone DEF IsSteady
    <2>2. s.free \in SUBSET Lsn /\ s.ent \in Table
      BY <1>2 DEF PathState
    <2>3. AgreeBut(free, ent, s.free, s.ent, {}, {})
      BY <1>1, <1>2
    <2>4. free = s.free /\ ent = s.ent
      BY <1>2, <2>2, <2>3, AgreeAll
    <2>5. IsDirectory(free, ent, {}, lost)
      BY <1>2, <2>1, <2>4
    <2>6. IsRest(s')
      <3>1. CASE s.job = "replace"
        <4>1. PICK n \in Names : n = s.name
          BY <1>2, <3>1 DEF IsSteady
        <4>2. s' = [Idle EXCEPT !.pc = "create", !.name = n]
          BY <1>1, <1>4, <3>1, <4>1
        <4> QED
          BY <4>2, CreatesIsRest
      <3>2. CASE s.job # "replace"
        <4>1. s' = Done("ok")
          BY <1>1, <1>4, <3>2
        <4> QED
          BY <4>1, DoneIsRest
      <3> QED
        BY <3>1, <3>2
    <2> QED
      BY <1>1, <1>2, <2>5, <2>6, RestIsGood
  <1> QED
    BY <1>3, <1>4

-----------------------------------------------------------------------------
(* A file grows *)

(* What is left to show of a path that grows its file. *)
LEMMA GrowsIsGood ==
  ASSUME NEW f, NEW e, NEW r, NEW l, OnDisk(f, e), r \in PathState,
         r.pc \in {"swap", "allocate", "use", "grown"}, r.job = "file", r.idx \in Files(r.ent),
         IsDirectory(r.free, r.ent, Spare(r), l), Agree(f, e, r),
         Entered(r), Growth(r), r.old = r.size, r.pc = "grown" <=> r.needed = 0, Behind(r)
  PROVE  Good(f, e, r, l)
  <1>1. Control(r) /\ HasTrack(r)
    BY DEF Control, HasTrack
  <1>2. Sizes(r)
    BY DEF Sizes
  <1> QED
    BY <1>1, <1>2 DEF Good

(* The entry a growth changes is the last of the open file. *)
LEMMA GrowerIs ==
  ASSUME NEW r, r \in PathState, r.idx \in Files(r.ent), Chained(r.ent)
  PROVE  /\ r.ent \in Table /\ r.idx \in Entry /\ Ended(r.ent, r.idx)
         /\ Grower(r) \in Chain(r.ent, r.idx) /\ Grower(r) \in Entry
         /\ r.ent[Grower(r)] \in Slot /\ r.ent[Grower(r)].kind # "deleted"
         /\ r.ent[Grower(r)].next = NoNext
         /\ Extents(r) \in Seq(AnyExtent) /\ Len(Extents(r)) \in Nat
         /\ FileSectors(r.ent, r.idx) \in Seq(Nat) /\ Len(FileSectors(r.ent, r.idx)) \in Nat
         /\ Held(r.ent, r.idx) = UNION { Range(SectorsOf(r.ent[c].ext)) : c \in Chain(r.ent, r.idx) }
  <1>1. r.ent \in Table /\ r.idx \in Entry /\ Ended(r.ent, r.idx)
    BY FilesAre DEF PathState
  <1>2. Grower(r) \in Chain(r.ent, r.idx) /\ Grower(r) \in Entry
    BY <1>1, ChainType DEF Grower
  <1>3. r.ent[Grower(r)] \in Slot /\ r.ent[Grower(r)].kind # "deleted"
    BY <1>1, <1>2, TableIs, FilesAre
  <1>4. FileSectors(r.ent, r.idx) \in Seq(Nat)
    BY <1>1, FileType
  <1>5. Held(r.ent, r.idx) = UNION { Range(SectorsOf(r.ent[c].ext)) : c \in Chain(r.ent, r.idx) }
    BY <1>1, FileType
  <1>6. r.ent[Grower(r)].next = NoNext
    BY <1>1 DEF Ended, Grower
  <1>7. Extents(r) \in Seq(AnyExtent)
    BY <1>3 DEF Extents, Slot
  <1> QED
    BY <1>1, <1>2, <1>3, <1>4, <1>5, <1>6, <1>7

(* An entry on the disk can get another extent, or more sectors in its last.*)
LEMMA SoundIsGrowable ==
  ASSUME NEW e, Sound(e), NEW fresh \in BOOLEAN, ~ fresh => e.ext # << >>
  PROVE  /\ Growable(e, fresh)
         /\ e.ext # << >> => e.ext[Len(e.ext)].count # 0
  <1>1. e \in Slot /\ e.ext \in Seq(AnyExtent) /\ Len(e.ext) \in Nat
    BY DEF Sound, Slot
  <1>2. Growable(e, fresh)
    BY <1>1 DEF Sound, Growable
  <1>3. e.ext # << >> => e.ext[Len(e.ext)].count # 0
    <2> SUFFICES ASSUME e.ext # << >> PROVE e.ext[Len(e.ext)].count # 0
      OBVIOUS
    <2>1. Len(e.ext) \in DOMAIN e.ext
      BY <1>1
    <2>2. IsExtent(e.ext[Len(e.ext)])
      BY <2>1 DEF Sound
    <2> QED
      BY <2>2, SectorsAre DEF IsExtent
  <1> QED
    BY <1>2, <1>3

(* Agreement without exception is agreement with that of a growth. *)
LEMMA AgreeMore ==
  ASSUME NEW f, NEW e, NEW r, AgreeBut(f, e, r.free, r.ent, r.dirty, {})
  PROVE  Agree(f, e, r)
  BY DEF Agree, AgreeBut

(* Where the file ends. *)
HintOf(x) == IF x = << >> THEN NoHint ELSE End(x)

(* Path q is r with a growth to size goal begun for call o.                 *)
GrowsTo(r, q, goal, o) ==
  q = [r EXCEPT
        !.pc = IF NeededFor(r.size, goal) = 0 THEN "grown"
               ELSE IF r.spare.count = 0 THEN "allocate"
               ELSE IF Extents(r) # << >> /\ r.spare.lsn # HintOf(Extents(r)) THEN "swap" ELSE "use",
        !.goal = goal, !.old = r.size, !.needed = NeededFor(r.size, goal),
        !.hint = HintOf(Extents(r)), !.fresh = Extents(r) = << >>, !.op = o]

(* What the beginning of a growth changes. *)
LEMMA GrowingIs ==
  ASSUME s \in PathState, NEW goal, NEW o
  PROVE  GrowsTo(s, [Growing(goal) EXCEPT !.op = o], goal, o)
  BY DEF GrowsTo, Growing, NeededFor, HintOf, Extents, Grower, End, PathState

(* The beginning of a growth keeps the invariant. *)
LEMMA GrowingKeeps ==
  ASSUME NEW f, NEW e, NEW r, NEW l, Good(f, e, r, l), r.pc = "open",
         NEW goal \in 0 .. MaxSize, r.size < goal, NEW o \in {"write", "size"},
         o = "write" => r.pos <= goal,
         NEW q, GrowsTo(r, q, goal, o)
  PROVE  Good(f, e, q, l)
  <1>1. /\ HasTrack(r) /\ r.job = "file" /\ Sized(r) /\ r.idx \in Files(r.ent) /\ r \in PathState
    BY OpenIs
  <1>2. /\ OnDisk(f, e) /\ IsDirectory(r.free, r.ent, Spare(r), l) /\ Chained(r.ent)
        /\ AgreeBut(f, e, r.free, r.ent, r.dirty, {}) /\ \A j \in Entry : Sound(r.ent[j])
        /\ r.free \in SUBSET Lsn /\ Apart(r.free, r.ent, Spare(r))
    BY <1>1, GoodIs
  <1>3. /\ Grower(r) \in Entry /\ Extents(r) \in Seq(AnyExtent) /\ Len(Extents(r)) \in Nat
        /\ Len(FileSectors(r.ent, r.idx)) \in Nat
    BY <1>1, <1>2, GrowerIs
  <1>4. r.size \in Nat /\ goal \in Nat /\ MaxSize \in Nat /\ SectorsFor(MaxSize) \in Nat
    BY <1>1, ConstantsAre DEF PathState
  <1>5. PICK n \in Nat : n = NeededFor(r.size, goal) /\ SectorsFor(r.size) + n = SectorsFor(goal)
    BY <1>4, NeededIs
  <1>6. SectorsFor(r.size) = Len(FileSectors(r.ent, r.idx)) /\ SectorsFor(goal) <= SectorsFor(MaxSize)
        /\ SectorsFor(goal) \in Nat
    BY <1>1, <1>4, MoreSectors, SizesAre DEF Sized
  <1>7. n \in 0 .. SectorsFor(MaxSize)
    BY <1>3, <1>4, <1>5, <1>6
  <1>8. PICK h \in Nat : h = HintOf(Extents(r))
    <2>1. CASE Extents(r) = << >>
      BY <2>1, ConstantsAre DEF HintOf
    <2>2. CASE Extents(r) # << >>
      <3>1. Extents(r)[Len(Extents(r))] \in AnyExtent
        BY <1>3, <2>2
      <3>2. End(Extents(r)) \in Nat
        BY <3>1, ExtentIs DEF End
      <3> QED
        BY <2>2, <3>2 DEF HintOf
    <2> QED
      BY <2>1, <2>2
  <1>9. PICK u \in BOOLEAN : u <=> Extents(r) = << >>
    OBVIOUS
  <1>10. PICK c \in {"swap", "allocate", "use", "grown"} :
           c = IF n = 0 THEN "grown" ELSE IF r.spare.count = 0 THEN "allocate"
               ELSE IF Extents(r) # << >> /\ r.spare.lsn # h THEN "swap" ELSE "use"
    OBVIOUS
  <1>11. q = [r EXCEPT !.pc = c, !.goal = goal, !.old = r.size, !.needed = n, !.hint = h,
                       !.fresh = u, !.op = o]
    BY <1>5, <1>8, <1>9, <1>10 DEF GrowsTo
  <1>12. /\ q \in PathState /\ q.pc = c /\ q.goal = goal /\ q.old = r.size /\ q.needed = n
         /\ q.hint = h /\ (q.fresh <=> u) /\ q.op = o /\ q.job = r.job /\ q.idx = r.idx
         /\ q.free = r.free /\ q.ent = r.ent /\ q.dirty = r.dirty /\ q.spare = r.spare
         /\ q.size = r.size /\ q.pos = r.pos
    BY <1>1, <1>4, <1>7, <1>11 DEF PathState, Pcs
  <1>13. Spare(q) = Spare(r) /\ Grower(q) = Grower(r) /\ Extents(q) = Extents(r)
    BY <1>12 DEF Spare, Grower, Extents
  <1>14. IsDirectory(q.free, q.ent, Spare(q), l) /\ Agree(f, e, q)
    BY <1>2, <1>12, <1>13, AgreeMore
  <1>15. Entered(q)
    <2>1. Sound(r.ent[Grower(r)])
      BY <1>2, <1>3
    <2>2. ~ u => r.ent[Grower(r)].ext # << >>
      BY <1>9 DEF Extents
    <2>3. Growable(r.ent[Grower(r)], u)
      BY <2>1, <2>2, SoundIsGrowable
    <2>4. q.fresh = u
      BY <1>11, <1>1 DEF PathState
    <2> QED
      BY <1>2, <1>12, <1>13, <2>3, <2>4 DEF Entered
  <1>16. Growth(q)
    BY <1>3, <1>4, <1>5, <1>6, <1>12 DEF Growth
  <1>17. Behind(q)
    <2>1. r.spare.lsn \in Nat /\ r.spare.count \in Nat
      BY <1>1, SectorsAre DEF PathState
    <2>2. Extents(r) = << >> => h \notin r.free
      BY <1>2, <1>8, SectorsAre DEF HintOf
    <2>3. Extents(r) # << >> => End(Extents(r)) = h
      BY <1>8 DEF HintOf
    <2>4. r.spare.count # 0 => r.spare.lsn \notin r.free
      <3> SUFFICES ASSUME r.spare.count # 0 PROVE r.spare.lsn \in Spare(r)
        BY <1>2 DEF Apart
      <3> QED
        BY <2>1 DEF Spare, Sectors
    <2> QED
      BY <1>9, <1>10, <1>12, <1>13, <2>2, <2>3, <2>4 DEF Behind
  <1>18. q.pc = "grown" <=> q.needed = 0
    BY <1>10, <1>12
  <1> QED
    BY <1>1, <1>2, <1>12, <1>14, <1>15, <1>16, <1>17, <1>18, GrowsIsGood

(* A write past the size, and a larger size set, keep the invariant. *)
LEMMA GrowCallsKeep ==
  ASSUME Good(free, ent, s, lost),
         \/ \E k \in WriteSizes : Write(k) /\ s.pos + k > s.size
         \/ \E size \in SetSizes : SetSize(size) /\ size > s.size
  PROVE  Good(free', ent', s', lost')
  <1>1. s.pc = "open"
    BY DEF Write, SetSize
  <1>2. s \in PathState /\ s.pos \in Nat /\ s.size \in Nat
    BY <1>1, OpenIs DEF PathState
  <1>3. PICK goal \in 0 .. MaxSize, o \in {"write", "size"} :
          /\ s.size < goal /\ (o = "write" => s.pos <= goal)
          /\ Memory([Growing(goal) EXCEPT !.op = o])
    <2>1. CASE \E k \in WriteSizes : Write(k) /\ s.pos + k > s.size
      <3>1. PICK k \in WriteSizes : Write(k) /\ s.pos + k > s.size
        BY <2>1
      <3>2. k \in Nat
        BY DosAssumption
      <3>0. s.pos + k <= MaxSize /\ s.pos + k > s.size /\ MaxSize \in Nat
        BY <3>1, ConstantsAre DEF Write
      <3>3. s.pos + k \in 0 .. MaxSize /\ s.size < s.pos + k /\ s.pos <= s.pos + k
        BY <1>2, <3>0, <3>2
      <3>4. Memory([Growing(s.pos + k) EXCEPT !.op = "write"])
        BY <3>1 DEF Write
      <3> QED
        BY <3>3, <3>4
    <2>2. CASE \E size \in SetSizes : SetSize(size) /\ size > s.size
      <3>1. PICK size \in SetSizes : SetSize(size) /\ size > s.size
        BY <2>2
      <3>2. size \in 0 .. MaxSize /\ s.size < size
        BY <1>2, <3>1, DosAssumption
      <3>3. Memory([Growing(size) EXCEPT !.op = "size"])
        BY <3>1 DEF SetSize
      <3> QED
        BY <3>2, <3>3
    <2> QED
      BY <2>1, <2>2
  <1>4. PICK q : q = [Growing(goal) EXCEPT !.op = o]
    OBVIOUS
  <1>5. GrowsTo(s, q, goal, o)
    BY <1>2, <1>4, GrowingIs
  <1>6. Good(free, ent, q, lost)
    BY <1>1, <1>3, <1>5, GrowingKeeps
  <1> QED
    BY <1>3, <1>4, <1>6 DEF Memory

(* What the invariant says of a path in the middle of a growth. *)
LEMMA GrowthIs ==
  ASSUME NEW f, NEW e, NEW r, NEW l, Good(f, e, r, l),
         r.pc \in {"swap", "allocate", "use", "grown"}
  PROVE  /\ OnDisk(f, e) /\ r \in PathState /\ r.job = "file" /\ r.idx \in Files(r.ent)
         /\ IsDirectory(r.free, r.ent, Spare(r), l) /\ Agree(f, e, r)
         /\ Entered(r) /\ Growth(r) /\ r.old = r.size /\ (r.pc = "grown" <=> r.needed = 0) /\ Behind(r)
         /\ Chained(r.ent) /\ Apart(r.free, r.ent, Spare(r))
         /\ r.ent \in Table /\ r.free \in SUBSET Lsn
  <1>1. HasTrack(r)
    BY DEF HasTrack
  <1>2. Control(r) /\ Sizes(r) /\ Agree(f, e, r)
    BY <1>1 DEF Good
  <1>3. r.job = "file" /\ r.idx \in Files(r.ent)
    BY <1>2 DEF Control
  <1>4. Growth(r) /\ r.old = r.size /\ (r.pc = "grown" <=> r.needed = 0)
    BY <1>2 DEF Sizes
  <1> QED
    BY <1>1, <1>2, <1>3, <1>4, GoodIs

(* The sectors in reserve are those of the disk.                            *)
LEMMA SpareIs ==
  ASSUME NEW f, NEW e, NEW r, r \in PathState, Apart(f, e, Spare(r))
  PROVE  /\ r.spare.lsn \in Nat /\ r.spare.count \in 0 .. MaxExtent /\ r.spare.count \in Nat
         /\ Spare(r) = r.spare.lsn .. (r.spare.lsn + r.spare.count - 1)
         /\ Spare(r) \in SUBSET Lsn /\ Spare(r) \cap f = {}
         /\ r.spare.count = 0 => Spare(r) = {}
         /\ r.spare.count # 0 => /\ r.spare.lsn \in Spare(r)
                                 /\ r.spare.lsn + r.spare.count <= Total
  <1>1. /\ r.spare.lsn \in Nat /\ r.spare.count \in 0 .. MaxExtent /\ r.spare.count \in Nat
    BY SectorsAre DEF PathState
  <1>2. Spare(r) = r.spare.lsn .. (r.spare.lsn + r.spare.count - 1)
    BY DEF Spare, Sectors
  <1>3. Spare(r) \in SUBSET Lsn /\ Spare(r) \cap f = {}
    BY DEF Apart
  <1>4. r.spare.count = 0 => Spare(r) = {}
    BY <1>1, <1>2
  <1>5. ASSUME r.spare.count # 0
        PROVE  r.spare.lsn \in Spare(r) /\ r.spare.lsn + r.spare.count <= Total
    <2>1. r.spare.lsn \in Spare(r) /\ r.spare.lsn + r.spare.count - 1 \in Spare(r)
      BY <1>1, <1>2, <1>5
    <2> QED
      BY <1>1, <1>3, <2>1, SectorsAre DEF Lsn
  <1> QED
    BY <1>1, <1>2, <1>3, <1>4, <1>5

(* Keeping the spare sectors when there is no other run to take keeps the   *)
(* invariant.                                                               *)
LEMMA KeepSpareKeeps ==
  ASSUME Good(free, ent, s, lost), KeepSpare
  PROVE  Good(free', ent', s', lost')
  <1>1. /\ s.pc = "swap" /\ Place(s.free, s.hint) = {}
        /\ s' = [s EXCEPT !.pc = "use", !.fresh = TRUE]
        /\ free' = free /\ ent' = ent /\ lost' = lost
    BY DEF KeepSpare, Memory
  <1>2. /\ OnDisk(free, ent) /\ s \in PathState /\ s.job = "file" /\ s.idx \in Files(s.ent)
        /\ IsDirectory(s.free, s.ent, Spare(s), lost)
        /\ Entered(s) /\ Growth(s) /\ s.old = s.size /\ s.needed # 0 /\ Behind(s)
        /\ Chained(s.ent) /\ s.free \in SUBSET Lsn
    BY <1>1, GrowthIs
  <1>3. AgreeBut(free, ent, s.free, s.ent, s.dirty, {}) /\ \A j \in Entry : Sound(s.ent[j])
    BY <1>1, GoodIs DEF HasTrack
  <1>4. /\ s' \in PathState /\ s'.pc = "use" /\ s'.fresh = TRUE /\ s'.job = s.job /\ s'.idx = s.idx
        /\ s'.free = s.free /\ s'.ent = s.ent /\ s'.dirty = s.dirty /\ s'.spare = s.spare
        /\ s'.size = s.size /\ s'.pos = s.pos /\ s'.goal = s.goal /\ s'.op = s.op
        /\ s'.old = s.old /\ s'.needed = s.needed /\ s'.hint = s.hint
    BY <1>1, <1>2 DEF PathState, Pcs
  <1>5. Spare(s') = Spare(s) /\ Grower(s') = Grower(s)
    BY <1>4 DEF Spare, Grower
  <1>6. IsDirectory(s'.free, s'.ent, Spare(s'), lost) /\ Agree(free, ent, s')
    BY <1>2, <1>3, <1>4, <1>5, AgreeMore
  <1>7. Entered(s')
    <2>1. Grower(s) \in Entry
      BY <1>2, GrowerIs
    <2>2. Growable(s.ent[Grower(s)], TRUE)
      BY <1>3, <2>1, SoundIsGrowable
    <2> QED
      BY <1>3, <1>4, <1>5, <2>2 DEF Entered
  <1>8. Growth(s')
    BY <1>2, <1>4 DEF Growth
  <1>9. Behind(s')
    <2>1. s.hint \notin s.free
      BY <1>1, <1>2, PlaceIs
    <2> QED
      BY <1>1, <1>2, <1>4, <2>1 DEF Behind
  <1>10. s'.pc \in {"swap", "allocate", "use", "grown"} /\ (s'.pc = "grown" <=> s'.needed = 0)
         /\ s'.job = "file" /\ s'.idx \in Files(s'.ent) /\ s'.old = s'.size
    BY <1>2, <1>4
  <1>11. Good(free, ent, s', lost)
    BY <1>2, <1>4, <1>6, <1>7, <1>8, <1>9, <1>10, GrowsIsGood, SMTT(30)
  <1> QED
    BY <1>1, <1>11

(* A run too long for the last extent, for which a new one is made, keeps  *)
(* the invariant.                                                           *)
LEMMA OverflowKeeps ==
  ASSUME Good(free, ent, s, lost), Overflow
  PROVE  Good(free', ent', s', lost')
  <1>1. /\ s.pc = "use" /\ ~ s.fresh /\ LastCount + Used > MaxExtent
        /\ s' = [s EXCEPT !.fresh = TRUE]
        /\ free' = free /\ ent' = ent /\ lost' = lost
    BY DEF Overflow, Memory
  <1>2. /\ OnDisk(free, ent) /\ s \in PathState /\ s.job = "file" /\ s.idx \in Files(s.ent)
        /\ IsDirectory(s.free, s.ent, Spare(s), lost) /\ Agree(free, ent, s)
        /\ Entered(s) /\ Growth(s) /\ s.old = s.size /\ s.needed # 0 /\ Behind(s)
        /\ Chained(s.ent)
    BY <1>1, GrowthIs
  <1>3. PICK x : x = Extents(s)
    OBVIOUS
  <1>4. LastExtents = x /\ LastCount = x[Len(x)].count
    BY <1>3 DEF LastCount, LastExtents, Extents, Grower
  <1>5. s.spare.count \in 0 .. MaxExtent /\ s.needed \in Nat /\ MaxExtent \in Nat
    BY <1>2, ConstantsAre, SectorsAre DEF PathState
  <1>6. Used <= MaxExtent /\ Used \in Nat
    BY <1>5 DEF Used
  <1>7. x[Len(x)].count # 0
    BY <1>1, <1>4, <1>5, <1>6
  <1>8. /\ s' \in PathState /\ s'.pc = "use" /\ s'.fresh = TRUE /\ s'.job = s.job /\ s'.idx = s.idx
        /\ s'.free = s.free /\ s'.ent = s.ent /\ s'.dirty = s.dirty /\ s'.spare = s.spare
        /\ s'.size = s.size /\ s'.pos = s.pos /\ s'.goal = s.goal /\ s'.op = s.op
        /\ s'.old = s.old /\ s'.needed = s.needed /\ s'.hint = s.hint
    BY <1>1, <1>2 DEF PathState, Pcs
  <1>9. Spare(s') = Spare(s) /\ Grower(s') = Grower(s)
    BY <1>8 DEF Spare, Grower
  <1>10. Excused(s) = {} /\ Excused(s') = {}
    BY <1>3, <1>7, <1>8 DEF Excused, Pending
  <1>11. IsDirectory(s'.free, s'.ent, Spare(s'), lost) /\ Agree(free, ent, s')
    BY <1>2, <1>8, <1>9, <1>10 DEF Agree
  <1>12. Entered(s')
    <2>1. Growable(s.ent[Grower(s)], s.fresh)
      BY <1>1, <1>2 DEF Entered
    <2>2. Growable(s.ent[Grower(s)], TRUE)
      BY <1>3, <1>7, <2>1 DEF Growable, Extents
    <2> QED
      BY <1>1, <1>2, <1>8, <1>9, <2>2 DEF Entered
  <1>13. Growth(s') /\ Behind(s')
    BY <1>1, <1>2, <1>8 DEF Growth, Behind
  <1> QED
    BY <1>1, <1>2, <1>8, <1>11, <1>12, <1>13, GrowsIsGood

(* Of a path: sectors S and entries E of its track change, and are marked.  *)
Marks(r, S, E, a, b, c) ==
  /\ S \in SUBSET Lsn /\ E \in SUBSET Entry
  /\ \A k \in Lsn \ S : k \in a <=> k \in r.free
  /\ \A j \in Entry \ E : b[j] = r.ent[j]
  /\ c = r.dirty \cup TrackSectors(S, E)

(* Marking what a step changed keeps disk and path agreeing on the rest. *)
LEMMA PathMarked ==
  ASSUME NEW f, NEW e, NEW r, NEW P, AgreeBut(f, e, r.free, r.ent, r.dirty, P),
         NEW S, NEW E, NEW a, NEW b, NEW c, Marks(r, S, E, a, b, c),
         NEW Q, P \subseteq Q \cup E
  PROVE  /\ AgreeBut(f, e, a, b, c, Q)
         /\ r \in PathState => c \in SUBSET (0 .. (1 + Entries \div PerSector))
  <1>1. PICK g : g = r.free
    OBVIOUS
  <1>2. PICK h : h = r.ent
    OBVIOUS
  <1>3. PICK d : d = r.dirty
    OBVIOUS
  <1>4. AgreeBut(f, e, g, h, d, P)
    BY <1>1, <1>2, <1>3
  <1>5. /\ \A k \in Lsn \ S : k \in a <=> k \in g
        /\ \A j \in Entry \ E : b[j] = h[j] \/ j \in Q
        /\ c = d \cup TrackSectors(S, E)
        /\ S \in SUBSET Lsn /\ E \in SUBSET Entry
    BY <1>1, <1>2, <1>3 DEF Marks
  <1>6. AgreeBut(f, e, a, b, c, Q)
    BY <1>4, <1>5, AgreeMarked
  <1>7. TrackSectors(S, E) \subseteq 0 .. (1 + Entries \div PerSector)
    BY <1>5, TrackSectorsAre
  <1> QED
    BY <1>3, <1>5, <1>6, <1>7 DEF PathState

(* Marking the entry a growth excuses ends the excuse. *)
LEMMA ExcusedMarked ==
  ASSUME NEW f, NEW e, NEW r, Agree(f, e, r), r \in PathState,
         NEW S, NEW E, NEW a, NEW b, NEW c, Marks(r, S, E, a, b, c), Excused(r) \subseteq E
  PROVE  AgreeBut(f, e, a, b, c, {}) /\ c \in SUBSET (0 .. (1 + Entries \div PerSector))
  <1>1. PICK P : P = Excused(r)
    OBVIOUS
  <1>2. PICK Q : Q = {}
    OBVIOUS
  <1>3. AgreeBut(f, e, r.free, r.ent, r.dirty, P) /\ P \subseteq Q \cup E
    BY <1>1 DEF Agree
  <1>4. AgreeBut(f, e, a, b, c, Q)
    BY <1>3, PathMarked
  <1>5. c \in SUBSET (0 .. (1 + Entries \div PerSector))
    <2>1. S \in SUBSET Lsn /\ E \in SUBSET Entry /\ c = r.dirty \cup TrackSectors(S, E)
      BY DEF Marks
    <2>2. TrackSectors(S, E) \subseteq 0 .. (1 + Entries \div PerSector)
      BY <2>1, TrackSectorsAre
    <2> QED
      BY <2>1, <2>2 DEF PathState
  <1> QED
    BY <1>2, <1>4, <1>5

(* A run m of n sectors is taken, and what was in reserve given back.       *)
Takes(r, q, m, n, d) ==
  q = [r EXCEPT !.pc = "use", !.spare = [lsn |-> m, count |-> n],
                !.free = (r.free \cup Spare(r)) \ Sectors(m, n), !.dirty = d,
                !.fresh = Extents(r) = << >> \/ m # r.hint]

(* Nothing that follows the file is in reserve when it is swapped, or is    *)
(* free once a run is taken.                                                *)
LEMMA NothingFollows ==
  ASSUME NEW f, NEW e, NEW r, NEW l, Good(f, e, r, l), r.pc \in {"swap", "allocate"},
         NEW m, m \in Place(r.free, r.hint), NEW S, m \in S
  PROVE  /\ r.hint \notin (r.free \cup Spare(r)) \ S
         /\ Extents(r) # << >> /\ m = r.hint => End(Extents(r)) = m
  <1>1. /\ r \in PathState /\ r.idx \in Files(r.ent) /\ Behind(r) /\ Chained(r.ent)
        /\ Apart(r.free, r.ent, Spare(r)) /\ r.free \in SUBSET Lsn
    BY GrowthIs
  <1>2. m \in r.free /\ (r.hint \in r.free => m = r.hint)
    BY <1>1, PlaceIs
  <1>3. /\ r.spare.lsn \in Nat /\ r.spare.count \in Nat
        /\ Spare(r) = r.spare.lsn .. (r.spare.lsn + r.spare.count - 1)
        /\ (r.spare.count = 0 => Spare(r) = {})
    BY <1>1, SpareIs
  <1>4. r.hint \notin Spare(r)
    <2>1. CASE r.pc = "allocate"
      BY <1>1, <1>3, <2>1 DEF Behind
    <2>2. CASE r.pc = "swap"
      <3> SUFFICES ASSUME r.hint \in Spare(r) PROVE FALSE
        OBVIOUS
      <3>1. r.spare.lsn # r.hint /\ Extents(r) # << >> /\ End(Extents(r)) = r.hint
        BY <1>1, <2>2 DEF Behind
      <3>2. r.hint - 1 \in Spare(r)
        <4>1. PICK a \in Nat, c \in Nat : r.spare.lsn = a /\ Spare(r) = a .. (a + c - 1)
          BY <1>3
        <4> QED
          BY <3>1, <4>1
      <3>3. /\ Grower(r) \in Chain(r.ent, r.idx) /\ Grower(r) \in Entry
            /\ Extents(r) \in Seq(AnyExtent) /\ Len(Extents(r)) \in Nat
            /\ Held(r.ent, r.idx) = UNION { Range(SectorsOf(r.ent[c].ext)) : c \in Chain(r.ent, r.idx) }
        BY <1>1, GrowerIs
      <3>4. Sound(r.ent[Grower(r)])
        BY <2>2, <3>3, GoodIs DEF HasTrack
      <3>5. PICK k \in Nat : k = Len(Extents(r)) /\ k \in 1 .. Len(Extents(r))
        BY <3>1, <3>3
      <3>6. PICK x \in AnyExtent : x = Extents(r)[k]
        BY <3>3, <3>5
      <3>7. x.count \in Nat /\ x.count >= 1 /\ x.lsn \in Nat /\ r.hint = x.lsn + x.count
        <4>1. IsExtent(x)
          BY <3>4, <3>5, <3>6 DEF Sound, Extents
        <4>2. x.count \in Nat /\ x.count >= 1 /\ x.lsn \in Nat
          BY <4>1, ExtentIs DEF IsExtent
        <4> QED
          BY <3>1, <3>5, <3>6, <4>2 DEF End
      <3>8. r.hint - 1 \in Range(Run(x))
        BY <3>7, RunIs
      <3>9. r.hint - 1 \in Range(SectorsOf(Extents(r)))
        BY <3>3, <3>5, <3>6, <3>8, SectorsOfIs
      <3>10. r.hint - 1 \in Held(r.ent, r.idx)
        BY <3>3, <3>9 DEF Extents
      <3> QED
        BY <1>1, <3>2, <3>10 DEF Apart
    <2> QED
      BY <2>1, <2>2
  <1>5. Extents(r) # << >> /\ m = r.hint => End(Extents(r)) = m
    BY <1>1, <1>2 DEF Behind
  <1> QED
    BY <1>2, <1>4, <1>5

(* Handing back the spare sectors and taking another run keeps the          *)
(* invariant.                                                               *)
LEMMA TakesKeeps ==
  ASSUME NEW f, NEW e, NEW r, NEW l, Good(f, e, r, l), r.pc \in {"swap", "allocate"},
         NEW m, m \in Place(r.free, r.hint), NEW n, n = RunFrom(r.free, m),
         NEW d, d = r.dirty \cup TrackSectors(Spare(r) \cup Sectors(m, n), {}),
         NEW q, Takes(r, q, m, n, d)
  PROVE  Good(f, e, q, l)
  <1>1. /\ OnDisk(f, e) /\ r \in PathState /\ r.job = "file" /\ r.idx \in Files(r.ent)
        /\ IsDirectory(r.free, r.ent, Spare(r), l) /\ Growth(r) /\ r.old = r.size
        /\ r.needed # 0 /\ Chained(r.ent) /\ Apart(r.free, r.ent, Spare(r)) /\ r.free \in SUBSET Lsn
    BY GrowthIs
  <1>2. AgreeBut(f, e, r.free, r.ent, r.dirty, {}) /\ \A j \in Entry : Sound(r.ent[j])
    BY GoodIs DEF HasTrack
  <1>3. m \in r.free
    BY <1>1, PlaceIs
  <1>4. PICK S : S = Sectors(m, n)
    OBVIOUS
  <1>5. n \in 1 .. MaxExtent /\ n \in Nat /\ n # 0 /\ S \subseteq r.free /\ m \in S /\ m \in Nat
    <2>1. /\ RunFrom(r.free, m) \in 1 .. MaxExtent /\ Sectors(m, RunFrom(r.free, m)) \subseteq r.free
          /\ m \in Sectors(m, RunFrom(r.free, m))
      BY <1>1, <1>3, RunFromIs
    <2>2. n \in 1 .. MaxExtent /\ S \subseteq r.free /\ m \in S
      BY <1>4, <2>1
    <2>3. MaxExtent \in Nat
      BY SectorsAre
    <2>4. n \in Nat /\ n # 0
      BY <2>2, <2>3
    <2>5. m \in Nat
      BY <1>1, <1>3, SectorsAre
    <2> QED
      BY <2>2, <2>4, <2>5
  <1>6. PICK g : g = (r.free \cup Spare(r)) \ S
    OBVIOUS
  <1>7. Spare(r) \in SUBSET Lsn /\ S \in SUBSET Lsn /\ g \in SUBSET Lsn
    BY <1>1, <1>5, <1>6, SpareIs
  <1>8. PICK X \in SUBSET Lsn : X = Spare(r) \cup S
    BY <1>7
  <1>9. d = r.dirty \cup TrackSectors(X, {})
    BY <1>4, <1>8
  <1>10. d \in SUBSET (0 .. (1 + Entries \div PerSector))
    <2>1. {} \in SUBSET Entry
      OBVIOUS
    <2>2. TrackSectors(X, {}) \subseteq 0 .. (1 + Entries \div PerSector)
      BY <2>1, TrackSectorsAre
    <2> QED
      BY <1>1, <1>9, <2>2 DEF PathState
  <1>11. PICK v \in BOOLEAN : v = (Extents(r) = << >> \/ m # r.hint)
    OBVIOUS
  <1>12. q = [r EXCEPT !.pc = "use", !.spare = [lsn |-> m, count |-> n], !.free = g, !.dirty = d,
                       !.fresh = v]
    BY <1>4, <1>6, <1>11 DEF Takes
  <1>13. PICK p \in [lsn : Nat, count : 0 .. MaxExtent] :
           p = [lsn |-> m, count |-> n] /\ p.lsn = m /\ p.count = n
    <2>1. n \in 0 .. MaxExtent
      BY <1>5, SectorsAre
    <2>2. [lsn |-> m, count |-> n] \in [lsn : Nat, count : 0 .. MaxExtent]
      BY <1>5, <2>1
    <2> QED
      BY <2>2
  <1>14. q = [r EXCEPT !.pc = "use", !.spare = p, !.free = g, !.dirty = d, !.fresh = v]
    BY <1>12, <1>13
  <1>15. /\ q \in PathState /\ q.pc = "use" /\ q.fresh = v /\ q.job = r.job /\ q.idx = r.idx
         /\ q.free = g /\ q.ent = r.ent /\ q.dirty = d /\ q.spare = p
         /\ q.size = r.size /\ q.pos = r.pos /\ q.goal = r.goal /\ q.op = r.op
         /\ q.old = r.old /\ q.needed = r.needed /\ q.hint = r.hint
    BY <1>1, <1>7, <1>10, <1>14, ZenonT(60) DEF PathState, Pcs
  <1>16. Grower(q) = Grower(r) /\ Extents(q) = Extents(r) /\ Spare(q) = S
    BY <1>4, <1>13, <1>15 DEF Spare, Grower, Extents
  <1>17. IsDirectory(g, r.ent, S, l)
    <2>1. g \cup S = r.free \cup Spare(r) /\ g \cap S = {}
      BY <1>5, <1>6
    <2>2. Apart(g, r.ent, S) /\ (Exact(r.free, r.ent, Spare(r)) => Exact(g, r.ent, S))
      BY <1>1, <2>1, Reserved
    <2> QED
      BY <1>1, <2>2 DEF IsDirectory
  <1>18. AgreeBut(f, e, g, r.ent, d, {})
    <2>1. PICK E \in SUBSET Entry : E = {}
      OBVIOUS
    <2>2. \A k \in Lsn \ X : k \in g <=> k \in r.free
      BY <1>6, <1>8
    <2>0. PICK h : h = r.ent
      OBVIOUS
    <2>3. \A j \in Entry \ E : h[j] = r.ent[j]
      BY <2>0
    <2>4. d = r.dirty \cup TrackSectors(X, E)
      BY <1>9, <2>1
    <2>5. {} \subseteq {} \cup E
      OBVIOUS
    <2>6. AgreeBut(f, e, r.free, r.ent, r.dirty, {})
      BY <1>2
    <2>7. Marks(r, X, E, g, h, d)
      BY <1>8, <2>1, <2>2, <2>3, <2>4 DEF Marks
    <2>8. AgreeBut(f, e, g, h, d, {})
      BY <2>5, <2>6, <2>7, PathMarked
    <2> QED
      BY <2>0, <2>8
  <1>19. Agree(f, e, q)
    BY <1>15, <1>18, AgreeMore
  <1>20. Entered(q)
    <2>1. Grower(r) \in Entry
      BY <1>1, GrowerIs
    <2>2. ~ v => r.ent[Grower(r)].ext # << >>
      BY <1>11 DEF Extents
    <2>3. Growable(r.ent[Grower(r)], v)
      BY <1>2, <2>1, <2>2, SoundIsGrowable
    <2> QED
      BY <1>2, <1>15, <1>16, <2>3 DEF Entered
  <1>21. Growth(q)
    BY <1>1, <1>15 DEF Growth
  <1>22. Behind(q)
    <2>1. r.hint \notin g
      BY <1>5, <1>6, NothingFollows
    <2>2. ~ v => End(Extents(r)) = m
      BY <1>5, <1>11, NothingFollows
    <2> QED
      BY <1>5, <1>13, <1>15, <1>16, <2>1, <2>2 DEF Behind
  <1> QED
    BY <1>1, <1>15, <1>16, <1>17, <1>19, <1>20, <1>21, <1>22, GrowsIsGood

(* Both steps that take a run of sectors keep the invariant. *)
LEMMA TakeRunsKeep ==
  ASSUME Good(free, ent, s, lost), Swap \/ Allocate
  PROVE  Good(free', ent', s', lost')
  <1>1. s \in PathState /\ Apart(s.free, s.ent, Spare(s)) /\ Behind(s)
    BY GrowthIs DEF Swap, Allocate
  <1>2. PICK m \in Place(s.free, s.hint) :
          /\ s.pc \in {"swap", "allocate"}
          /\ \/ s.pc = "swap" /\ Memory(WithRun([s EXCEPT !.free = s.free \cup Spare(s),
                                   !.dirty = s.dirty \cup TrackSectors(Spare(s), {})], m))
             \/ s.pc = "allocate" /\ Memory(WithRun(s, m))
    BY DEF Swap, Allocate
  <1>3. PICK n : n = RunFrom(s.free, m)
    OBVIOUS
  <1>4. PICK d : d = s.dirty \cup TrackSectors(Spare(s) \cup Sectors(m, n), {})
    OBVIOUS
  <1>5. LastExtents = Extents(s)
    BY DEF LastExtents, Extents, Grower
  <1>6. Takes(s, s', m, n, d)
    <2>1. CASE s.pc = "swap"
      <3>1. PICK a : a = TrackSectors(Spare(s), {})
        OBVIOUS
      <3>2. PICK b : b = TrackSectors(Sectors(m, n), {})
        OBVIOUS
      <3>3. d = (s.dirty \cup a) \cup b
        BY <1>4, <3>1, <3>2 DEF TrackSectors
      <3>4. PICK g : g = s.free \cup Spare(s)
        OBVIOUS
      <3>5. s' = WithRun([s EXCEPT !.free = g, !.dirty = s.dirty \cup a], m)
        BY <1>2, <2>1, <3>1, <3>4 DEF Memory
      <3> QED
        BY <1>1, <1>3, <1>5, <3>2, <3>3, <3>4, <3>5 DEF Takes, WithRun, PathState
    <2>2. CASE s.pc = "allocate"
      <3>1. Spare(s) = {}
        BY <1>1, <2>2, SpareIs DEF Behind
      <3>2. PICK b : b = TrackSectors(Sectors(m, n), {})
        OBVIOUS
      <3>3. d = s.dirty \cup b
        BY <1>4, <3>1, <3>2
      <3>4. s.free \cup Spare(s) = s.free
        BY <3>1
      <3>5. s' = WithRun(s, m)
        BY <1>2, <2>2 DEF Memory
      <3> QED
        BY <1>1, <1>3, <1>5, <3>2, <3>3, <3>4, <3>5 DEF Takes, WithRun, PathState
    <2> QED
      BY <1>2, <2>1, <2>2
  <1>7. Good(free, ent, s', lost)
    BY <1>2, <1>3, <1>4, <1>6, TakesKeeps
  <1> QED
    BY <1>2, <1>7 DEF Memory

(* An extent is begun at the sectors in reserve. *)
LEMMA NewExtentKeeps ==
  ASSUME Good(free, ent, s, lost), NewExtent
  PROVE  Good(free', ent', s', lost')
  <1>1. PICK g : g = Grower(s)
    OBVIOUS
  <1>2. PICK y : y = [lsn |-> s.spare.lsn, count |-> 0]
    OBVIOUS
  <1>3. /\ s.pc = "use" /\ s.fresh /\ Len(s.ent[g].ext) < Capacity(s.ent[g])
        /\ s' = [s EXCEPT !.fresh = FALSE, !.ent[g].ext = Append(@, y)]
        /\ free' = free /\ ent' = ent /\ lost' = lost
    BY <1>1, <1>2 DEF NewExtent, Memory, LastExtents, Grower
  <1>4. /\ OnDisk(free, ent) /\ s \in PathState /\ s.job = "file" /\ s.idx \in Files(s.ent)
        /\ IsDirectory(s.free, s.ent, Spare(s), lost) /\ Agree(free, ent, s)
        /\ Entered(s) /\ Growth(s) /\ s.old = s.size /\ s.needed # 0 /\ Behind(s)
        /\ Chained(s.ent) /\ s.ent \in Table /\ Apart(s.free, s.ent, Spare(s))
    BY <1>3, GrowthIs
  <1>5. /\ g \in Entry /\ s.ent[g] \in Slot /\ s.ent[g].ext \in Seq(AnyExtent)
        /\ Len(s.ent[g].ext) \in Nat
    BY <1>1, <1>4, GrowerIs DEF Extents
  <1>6. s.spare.count # 0 /\ s.hint \notin s.free /\ s.spare.lsn \in Nat /\ s.spare.lsn \in Spare(s)
        /\ s.spare.lsn < Total
    <2>1. s.spare.count # 0 /\ s.hint \notin s.free
      BY <1>3, <1>4 DEF Behind
    <2>2. s.spare.lsn \in Spare(s) /\ Spare(s) \in SUBSET Lsn
      BY <1>4, <2>1, SpareIs
    <2>3. s.spare.lsn \in Lsn
      BY <2>2
    <2> QED
      BY <2>1, <2>2, <2>3, SectorsAre DEF Lsn
  <1>7. PICK x \in Seq(AnyExtent) : x = Append(s.ent[g].ext, y)
    <2>1. y \in AnyExtent
      BY <1>2, <1>6 DEF AnyExtent
    <2>2. PICK z \in Seq(AnyExtent) : z = s.ent[g].ext
      BY <1>5
    <2>3. Append(z, y) \in Seq(AnyExtent)
      BY <2>1
    <2> QED
      BY <2>2, <2>3
  <1>8. PICK h : h = [s.ent EXCEPT ![g].ext = x]
    OBVIOUS
  <1>9. /\ h[g] = [s.ent[g] EXCEPT !.ext = x] /\ \A j \in Entry \ {g} : h[j] = s.ent[j]
    BY <1>4, <1>5, <1>8 DEF Table
  <1>10. /\ h[g] \in Slot /\ h[g].kind = s.ent[g].kind /\ h[g].next = s.ent[g].next /\ h[g].ext = x
    BY <1>5, <1>7, <1>9 DEF Slot
  <1>11. h \in Table
    BY <1>4, <1>5, <1>8, <1>9, <1>10 DEF Table
  <1>12. s' = [s EXCEPT !.fresh = FALSE, !.ent = h]
    BY <1>3, <1>4, <1>5, <1>7, <1>8 DEF PathState, Table
  <1>13. /\ s' \in PathState /\ s'.pc = "use" /\ s'.fresh = FALSE /\ s'.job = s.job /\ s'.idx = s.idx
         /\ s'.free = s.free /\ s'.ent = h /\ s'.dirty = s.dirty /\ s'.spare = s.spare
         /\ s'.size = s.size /\ s'.pos = s.pos /\ s'.goal = s.goal /\ s'.op = s.op
         /\ s'.old = s.old /\ s'.needed = s.needed /\ s'.hint = s.hint
    BY <1>3, <1>4, <1>11, <1>12, ZenonT(60) DEF PathState, Pcs
  <1>14. SectorsOf(x) = SectorsOf(s.ent[g].ext)
    <2>1. y \in AnyExtent /\ y.count = 0 /\ y.lsn = s.spare.lsn
      BY <1>2, <1>6 DEF AnyExtent
    <2>2. Run(y) = << >>
      BY <2>1 DEF Run
    <2>3. PICK z \in Seq(AnyExtent) : z = s.ent[g].ext
      BY <1>5
    <2>4. SectorsOf(x) = SectorsOf(z) \o << >>
      BY <1>7, <2>1, <2>2, <2>3, SectorsOfAppend
    <2>5. SectorsOf(z) \in Seq(Nat)
      BY SectorsOfIs
    <2> QED
      BY <2>3, <2>4, <2>5
  <1>15. \A c \in Entry : /\ h[c].next = s.ent[c].next /\ h[c].kind = s.ent[c].kind
                          /\ SectorsOf(h[c].ext) = SectorsOf(s.ent[c].ext)
    BY <1>9, <1>10, <1>14
  <1>16. PICK e \in Table : e = s.ent
    BY <1>4
  <1>17. /\ Files(h) = Files(e) /\ Chained(h) /\ \A j \in Files(e) : Undisturbed(e, h, j)
         /\ \A f, u : Apart(f, e, u) => Apart(f, h, u)
         /\ \A f, u : Exact(f, e, u) => Exact(f, h, u)
    BY <1>4, <1>11, <1>15, <1>16, SameDirectory
  <1>18. LastEntry(h, s.idx) = g /\ FileSectors(h, s.idx) = FileSectors(s.ent, s.idx)
    <2>1. Ended(s.ent, s.idx) /\ s.idx \in Entry /\ Chain(s.ent, s.idx) \subseteq Entry
      BY <1>4, FilesAre
    <2>2. Ended(e, s.idx) /\ \A c \in Chain(e, s.idx) :
            h[c].next = e[c].next /\ SectorsOf(h[c].ext) = SectorsOf(e[c].ext)
      BY <1>15, <1>16, <2>1
    <2>3. FileSectors(h, s.idx) = FileSectors(e, s.idx) /\ LastEntry(h, s.idx) = LastEntry(e, s.idx)
      BY <1>11, <2>1, <2>2, SameFile
    <2> QED
      BY <1>1, <1>16, <2>3 DEF Grower
  <1>19. Grower(s') = g /\ Extents(s') = x /\ Spare(s') = Spare(s)
    BY <1>10, <1>13, <1>18 DEF Grower, Extents, Spare
  <1>20. /\ x # << >> /\ Len(x) = Len(s.ent[g].ext) + 1 /\ x[Len(x)] = y
         /\ \A k \in 1 .. Len(s.ent[g].ext) : x[k] = s.ent[g].ext[k]
    <2>1. PICK z \in Seq(AnyExtent) : z = s.ent[g].ext
      BY <1>5
    <2>2. y \in AnyExtent
      BY <1>2, <1>6 DEF AnyExtent
    <2>3. x = Append(z, y)
      BY <1>7, <2>1
    <2>4. x # << >> /\ Len(x) = Len(z) + 1 /\ x[Len(x)] = y /\ \A k \in 1 .. Len(z) : x[k] = z[k]
      BY <2>2, <2>3
    <2> QED
      BY <2>1, <2>4
  <1>21. IsDirectory(s'.free, s'.ent, Spare(s'), lost)
    BY <1>4, <1>13, <1>16, <1>17, <1>19 DEF IsDirectory
  <1>22. Agree(free, ent, s')
    <2>1. Excused(s) = {}
      BY <1>3 DEF Excused, Pending
    <2>2. AgreeBut(free, ent, s.free, s.ent, s.dirty, {})
      BY <1>4, <2>1 DEF Agree
    <2>3. Excused(s') = {g}
      BY <1>2, <1>13, <1>19, <1>20 DEF Excused, Pending
    <2>4. AgreeBut(free, ent, s'.free, h, s'.dirty, {g})
      BY <1>9, <1>13, <2>2 DEF AgreeBut
    <2> QED
      BY <1>13, <2>3, <2>4 DEF Agree
  <1>23. Entered(s')
    <2>1. Growable(s.ent[g], s.fresh) /\ \A j \in Entry \ {g} : Sound(s.ent[j])
      BY <1>1, <1>3, <1>4 DEF Entered
    <2>2. Growable(h[g], FALSE)
      <3>1. Capacity(h[g]) = Capacity(s.ent[g]) /\ Capacity(h[g]) \in Nat
        BY <1>10, DirAssumption DEF Capacity
      <3>2. Len(x) <= Capacity(h[g])
        BY <1>3, <1>5, <1>20, <3>1
      <3>3. \A k \in DOMAIN s.ent[g].ext : IsExtent(s.ent[g].ext[k])
        BY <1>3, <2>1 DEF Growable
      <3>4. ASSUME NEW k \in DOMAIN x
            PROVE  IsExtent(x[k]) \/ (k = Len(x) /\ x[k].count = 0 /\ x[k].lsn < Total)
        <4>1. CASE k = Len(x)
          BY <1>2, <1>6, <1>20, <4>1
        <4>2. CASE k # Len(x)
          <5>1. k \in 1 .. Len(s.ent[g].ext)
            BY <1>5, <1>7, <1>20, <4>2
          <5> QED
            BY <1>5, <1>20, <3>3, <5>1
        <4> QED
          BY <4>1, <4>2
      <3> QED
        BY <1>10, <1>20, <3>2, <3>4 DEF Growable
    <2> QED
      BY <1>9, <1>13, <1>19, <2>1, <2>2 DEF Entered
  <1>24. Growth(s')
    BY <1>4, <1>13, <1>18 DEF Growth
  <1>25. Behind(s')
    <2>1. End(x) = s.spare.lsn
      BY <1>2, <1>6, <1>20 DEF End
    <2> QED
      BY <1>6, <1>13, <1>19, <2>1 DEF Behind
  <1>26. s'.idx \in Files(s'.ent)
    BY <1>4, <1>13, <1>16, <1>17
  <1> QED
    BY <1>3, <1>4, <1>13, <1>21, <1>22, <1>23, <1>24, <1>25, <1>26, GrowsIsGood, ZenonT(60)

(* A continuation entry keeps the invariant: it was deleted, and has no     *)
(* sectors.                                                                 *)
LEMMA AddContinuationKeeps ==
  ASSUME Good(free, ent, s, lost), AddContinuation
  PROVE  Good(free', ent', s', lost')
  <1>1. PICK g : g = Grower(s)
    OBVIOUS
  <1>2. PICK i \in Entry :
          /\ s.pc = "use" /\ s.fresh /\ IsFilled(g) /\ IsFreeFrom(s.ent, 1, i)
          /\ s' = [s EXCEPT !.ent = [s.ent EXCEPT ![g].next = i, ![i] = Continuation],
                            !.dirty = s.dirty \cup TrackSectors({}, {i, g}),
                            !.cut = TRUE]
          /\ free' = free /\ ent' = ent /\ lost' = lost
    BY <1>1 DEF AddContinuation, Memory, Grower
  <1>3. /\ OnDisk(free, ent) /\ s \in PathState /\ s.job = "file" /\ s.idx \in Files(s.ent)
        /\ IsDirectory(s.free, s.ent, Spare(s), lost) /\ Agree(free, ent, s)
        /\ Entered(s) /\ Growth(s) /\ s.old = s.size /\ s.needed # 0 /\ Behind(s)
        /\ Chained(s.ent) /\ s.ent \in Table /\ Apart(s.free, s.ent, Spare(s))
    BY <1>2, GrowthIs
  <1>4. PICK e \in Table : e = s.ent
    BY <1>3
  <1>5. /\ g \in Entry /\ e[g] \in Slot /\ e[g].ext \in Seq(AnyExtent) /\ Len(e[g].ext) \in Nat
        /\ e[g].kind # "deleted" /\ g = LastEntry(e, s.idx)
    BY <1>1, <1>3, <1>4, GrowerIs DEF Extents, Grower
  <1>6. i \in Entry \ {NoNext} /\ e[i].kind = "deleted" /\ i # g
    BY <1>2, <1>4, <1>5, EntryIs DEF IsFreeFrom, NoNext
  <1>7. PICK h : h = [e EXCEPT ![g].next = i, ![i] = Continuation]
    OBVIOUS
  <1>8. /\ h[g] = [e[g] EXCEPT !.next = i] /\ h[i] = Continuation
        /\ \A j \in Entry \ {g, i} : h[j] = e[j]
    BY <1>5, <1>6, <1>7 DEF Table
  <1>9. /\ h[g] \in Slot /\ h[g].kind = e[g].kind /\ h[g].ext = e[g].ext /\ h[g].next = i
    BY <1>5, <1>8 DEF Slot
  <1>10. h \in Table
    BY <1>5, <1>6, <1>7, <1>8, <1>9, DeletedIs DEF Table
  <1>11. PICK d : d = s.dirty \cup TrackSectors({}, {i, g})
    OBVIOUS
  <1>12. Marks(s, {}, {i, g}, s.free, h, d)
    BY <1>4, <1>5, <1>8, <1>11 DEF Marks
  <1>13. Excused(s) = {}
    BY <1>2 DEF Excused, Pending
  <1>14. AgreeBut(free, ent, s.free, s.ent, s.dirty, {})
    BY <1>3, <1>13 DEF Agree
  <1>15. AgreeBut(free, ent, s.free, h, d, {}) /\ d \in SUBSET (0 .. (1 + Entries \div PerSector))
    BY <1>3, <1>12, <1>14, PathMarked
  <1>16. s' = [s EXCEPT !.ent = h, !.dirty = d, !.cut = TRUE]
    BY <1>2, <1>4, <1>7, <1>11
  <1>17. /\ s' \in PathState /\ s'.pc = "use" /\ s'.fresh = s.fresh /\ s'.job = s.job /\ s'.idx = s.idx
         /\ s'.free = s.free /\ s'.ent = h /\ s'.dirty = d /\ s'.spare = s.spare
         /\ s'.size = s.size /\ s'.pos = s.pos /\ s'.goal = s.goal /\ s'.op = s.op
         /\ s'.old = s.old /\ s'.needed = s.needed /\ s'.hint = s.hint
    BY <1>2, <1>3, <1>10, <1>15, <1>16, ZenonT(60) DEF PathState, Pcs
  <1>18. PICK a : a = Spare(s)
    OBVIOUS
  <1>19. PICK f : f = s.free
    OBVIOUS
  <1>20. /\ Exchanged(f, e, a, f, h, a, s.idx)
         /\ FileSectors(h, s.idx) = FileSectors(e, s.idx)
         /\ LastEntry(h, s.idx) = i
    <2>1. PICK k \in Files(e) : k = s.idx
      BY <1>3, <1>4
    <2>2. Chained(e) /\ Apart(f, e, a)
      BY <1>3, <1>4, <1>18, <1>19
    <2>3. /\ h[LastEntry(e, k)].next = i /\ h[LastEntry(e, k)].kind = e[LastEntry(e, k)].kind
          /\ h[LastEntry(e, k)].ext = e[LastEntry(e, k)].ext
          /\ h[i] = Continuation /\ \A c \in Entry \ {LastEntry(e, k), i} : h[c] = e[c]
      BY <1>5, <1>8, <1>9, <2>1
    <2>4. /\ Exchanged(f, e, a, f, h, a, k) /\ FileSectors(h, k) = FileSectors(e, k)
          /\ LastEntry(h, k) = i
      BY <1>6, <1>10, <2>2, <2>3, LongerIsExchanged
    <2> QED
      BY <2>1, <2>4
  <1>21. Grower(s') = i /\ Extents(s') = << >> /\ Spare(s') = Spare(s)
    BY <1>8, <1>17, <1>20, DeletedIs DEF Grower, Extents, Spare
  <1>22. IsDirectory(s'.free, s'.ent, Spare(s'), lost)
    <2>1. Chained(e) /\ Apart(f, e, a) /\ (lost = "nothing" => Exact(f, e, a)) /\ s.idx \in Files(e)
      BY <1>3, <1>4, <1>18, <1>19 DEF IsDirectory
    <2>2. Chained(h) /\ Apart(f, h, a) /\ (lost = "nothing" => Exact(f, h, a))
      BY <1>20, <2>1, ExchangedIsChained, ExchangedIsApart, ExchangedIsExact
    <2> QED
      BY <1>17, <1>18, <1>19, <1>21, <2>2 DEF IsDirectory
  <1>23. Agree(free, ent, s')
    <2>1. AgreeBut(free, ent, s'.free, s'.ent, s'.dirty, {})
      BY <1>15, <1>17
    <2> QED
      BY <2>1, AgreeMore
  <1>24. Entered(s')
    <2>1. Growable(s.ent[g], s.fresh) /\ \A j \in Entry \ {g} : Sound(s.ent[j])
      BY <1>1, <1>2, <1>3 DEF Entered
    <2>2. Sound(h[g])
      <3>1. Len(e[g].ext) = Capacity(e[g]) /\ Capacity(h[g]) = Capacity(e[g])
        BY <1>2, <1>4, <1>9 DEF IsFilled, Capacity
      <3>2. h[g].kind = "more" => h[g].ext # << >>
        <4> SUFFICES ASSUME h[g].kind = "more", h[g].ext = << >> PROVE FALSE
          OBVIOUS
        <4>1. Len(e[g].ext) = 0 /\ Len(e[g].ext) = MoreExtents
          BY <1>9, <3>1 DEF Capacity
        <4> QED
          BY <4>1, DirAssumption
      <3>3. \A k \in DOMAIN e[g].ext : IsExtent(e[g].ext[k])
        BY <1>2, <1>4, <2>1 DEF Growable
      <3>4. Len(h[g].ext) <= Capacity(h[g])
        BY <1>5, <1>9, <3>1
      <3> QED
        BY <1>9, <3>2, <3>3, <3>4 DEF Sound
    <2>3. Growable(Continuation, TRUE)
      <3>1. /\ Continuation \in Slot /\ Continuation.ext = << >>
            /\ Capacity(Continuation) = MoreExtents
        BY DeletedIs
      <3>2. Len(Continuation.ext) <= Capacity(Continuation)
        BY <3>1, DirAssumption
      <3>3. DOMAIN Continuation.ext = {}
        BY <3>1
      <3> QED
        BY <3>1, <3>2, <3>3 DEF Growable
    <2>4. Growable(h[i], s'.fresh)
      <3>1. s.fresh = TRUE
        BY <1>2, <1>3 DEF PathState
      <3> QED
        BY <1>8, <1>17, <2>3, <3>1
    <2> QED
      BY <1>4, <1>8, <1>17, <1>21, <2>1, <2>2, <2>4 DEF Entered
  <1>25. Growth(s')
    BY <1>3, <1>4, <1>17, <1>20 DEF Growth
  <1>26. Behind(s')
    BY <1>2, <1>3, <1>17 DEF Behind
  <1>27. s'.idx \in Files(s'.ent)
    BY <1>3, <1>4, <1>17, <1>20 DEF Exchanged
  <1> QED
    BY <1>2, <1>3, <1>17, <1>22, <1>23, <1>24, <1>25, <1>26, <1>27, GrowsIsGood

(* What Use makes of a path: the u sectors it uses of those in reserve are   *)
(* the last extent's.                                                        *)
Uses(r, q, u, g, h, d) ==
  /\ q = [r EXCEPT !.pc = IF r.needed = u THEN "grown" ELSE "allocate",
                   !.ent = h, !.dirty = d,
                   !.spare = [lsn |-> r.spare.lsn + u, count |-> r.spare.count - u],
                   !.needed = r.needed - u]
  /\ d = r.dirty \cup TrackSectors({}, {g})
  /\ h = [r.ent EXCEPT ![g].ext[Len(r.ent[g].ext)].count = @ + u]

(* What giving spare sectors to the file changes. *)
LEMMA UseIs ==
  ASSUME s \in PathState, Use, NEW g, g = Grower(s), g \in Entry, s.ent[g] \in Slot,
         Len(s.ent[g].ext) \in DOMAIN s.ent[g].ext
  PROVE  \E h, d : Uses(s, s', Used, g, h, d)
  <1>1. PICK h : h = [s.ent EXCEPT ![g].ext[Len(s.ent[g].ext)].count = @ + Used]
    OBVIOUS
  <1>2. PICK d : d = s.dirty \cup TrackSectors({}, {g})
    OBVIOUS
  <1>3. LastExtents = s.ent[g].ext /\ LastCount = s.ent[g].ext[Len(s.ent[g].ext)].count
    BY DEF LastCount, LastExtents, Grower
  <1>4. PICK z : z = s.ent[g].ext
    OBVIOUS
  <1>5. PICK n : n = Len(z)
    OBVIOUS
  <1>6. PICK u : u = Used
    OBVIOUS
  <1>7. PICK c : c = z[n].count + u
    OBVIOUS
  <1>8. LastExtents = z /\ LastCount + Used = c /\ Len(LastExtents) = n
    BY <1>3, <1>4, <1>5, <1>6, <1>7
  <1>9. s' = [s EXCEPT !.pc = IF s.needed = Used THEN "grown" ELSE "allocate",
                        !.ent[g].ext[n].count = c,
                        !.dirty = d,
                        !.spare = [lsn |-> s.spare.lsn + Used, count |-> s.spare.count - Used],
                        !.needed = s.needed - Used]
    BY <1>2, <1>8 DEF Use, Memory, Grower
  <1>10. h = [s.ent EXCEPT ![g].ext[n].count = c]
    BY <1>1, <1>4, <1>5, <1>6, <1>7 DEF PathState, Table
  <1>11. s' = [s EXCEPT !.pc = IF s.needed = Used THEN "grown" ELSE "allocate",
                        !.ent = h, !.dirty = d,
                        !.spare = [lsn |-> s.spare.lsn + Used, count |-> s.spare.count - Used],
                        !.needed = s.needed - Used]
    BY <1>9, <1>10 DEF PathState
  <1> QED
    BY <1>1, <1>2, <1>11 DEF Uses

(* The entry with u sectors more in its last extent, extent n.              *)
WithMore(v, n, u) == [v EXCEPT !.ext[n].count = @ + u]

CanGrow(v) == Growable(v, FALSE)

CanHave(x, u) == x.count + u <= MaxExtent /\ x.lsn + x.count + u <= Total

Following(x, u) == [lsn |-> x.lsn + x.count, count |-> u]

(* The last extent, made longer by the spare sectors that follow it, ends in*)
(* them.                                                                    *)
LEMMA UsedEntry ==
  ASSUME NEW v, v \in Slot, CanGrow(v), NEW n, n = Len(v.ext),
         NEW u \in Nat \ {0}, CanHave(v.ext[n], u),
         NEW w, w = WithMore(v, n, u), NEW k, k = Following(v.ext[n], u)
  PROVE  /\ w \in Slot /\ w.kind = v.kind /\ w.next = v.next /\ Sound(w)
         /\ n \in Nat /\ n \in 1 .. n /\ v.ext[n] \in AnyExtent /\ v.ext \in Seq(AnyExtent)
         /\ SectorsOf(w.ext) = SectorsOf(v.ext) \o Run(k)
  <1>1. PICK x \in Seq(AnyExtent) : x = v.ext
    BY DEF Slot
  <1>2. n \in Nat /\ n = Len(x) /\ n \in 1 .. n /\ x # << >>
    BY <1>1 DEF CanGrow, Growable
  <1>3. PICK y : y = [x EXCEPT ![n].count = @ + u]
    OBVIOUS
  <1>4. PICK z \in AnyExtent : z = x[n]
    BY <1>2
  <1>5. z.lsn \in Nat /\ z.count \in Nat
    BY ExtentIs
  <1>6. /\ y[n] = [z EXCEPT !.count = z.count + u] /\ \A j \in 1 .. n : j # n => y[j] = x[j]
        /\ DOMAIN y = 1 .. n
    BY <1>2, <1>3, <1>4
  <1>7. y[n] \in AnyExtent /\ y[n].lsn = z.lsn /\ y[n].count = z.count + u
    <2>1. PICK c \in Nat : c = z.count + u
      BY <1>5
    <2>2. y[n] = [lsn |-> z.lsn, count |-> c]
      BY <1>6, <2>1, ExtentIs
    <2> QED
      BY <1>5, <2>1, <2>2 DEF AnyExtent
  <1>8. y \in Seq(AnyExtent) /\ Len(y) = n
    <2>1. \A j \in 1 .. n : x[j] \in AnyExtent
      BY <1>2
    <2>2. \A j \in 1 .. n : y[j] \in AnyExtent
      BY <1>6, <1>7, <2>1
    <2>3. x \in [1 .. n -> AnyExtent]
      BY <1>2
    <2>4. y \in [1 .. n -> AnyExtent]
      BY <1>3, <1>6, <2>2, <2>3
    <2> QED
      BY <1>2, <1>6, <2>4
  <1>9. w = [v EXCEPT !.ext = y]
    BY <1>1, <1>3 DEF Slot, WithMore
  <1>10. w \in Slot /\ w.kind = v.kind /\ w.next = v.next /\ w.ext = y
    BY <1>8, <1>9 DEF Slot
  <1>11. SectorsOf(y) = SectorsOf(x) \o Run([lsn |-> z.lsn + z.count, count |-> u])
    <2>1. /\ \A j \in 1 .. (Len(x) - 1) : y[j] = x[j]
          /\ y[Len(x)].lsn = x[Len(x)].lsn /\ y[Len(x)].count = x[Len(x)].count + u
          /\ Len(y) = Len(x) /\ u \in Nat
      BY <1>2, <1>4, <1>6, <1>7, <1>8
    <2>2. SectorsOf(y)
            = SectorsOf(x) \o Run([lsn |-> x[Len(x)].lsn + x[Len(x)].count, count |-> u])
      BY <1>2, <1>8, <2>1, SectorsOfGrown
    <2> QED
      BY <1>2, <1>4, <2>2
  <1>12. k = [lsn |-> z.lsn + z.count, count |-> u]
    BY <1>1, <1>4 DEF Following
  <1>13. Sound(w)
    <2>1. Capacity(w) = Capacity(v)
      BY <1>10 DEF Capacity
    <2>2. Len(y) <= Capacity(w)
      BY <1>1, <1>2, <1>8, <2>1 DEF CanGrow, Growable
    <2>3. IsExtent(y[n])
      <3>1. v.ext[n] = z
        BY <1>1, <1>4
      <3>2. z.count + u <= MaxExtent /\ z.lsn + z.count + u <= Total /\ z.count + u >= 1
        BY <1>5, <3>1 DEF CanHave
      <3>3. z.count + u \in 1 .. MaxExtent /\ z.lsn + (z.count + u) <= Total
        BY <1>5, <3>2, SectorsAre
      <3> QED
        BY <1>7, <3>3 DEF IsExtent
    <2>4. ASSUME NEW j \in 1 .. n, j # n PROVE IsExtent(y[j])
      <3>1. j \in DOMAIN v.ext /\ j # Len(v.ext)
        BY <1>1, <1>2, <2>4
      <3>2. IsExtent(v.ext[j])
        BY <3>1 DEF CanGrow, Growable
      <3> QED
        BY <1>1, <1>6, <2>4, <3>2
    <2>5. y # << >>
      BY <1>2, <1>8
    <2> QED
      BY <1>6, <1>10, <2>2, <2>3, <2>4, <2>5 DEF Sound
  <1> QED
    BY <1>1, <1>2, <1>4, <1>10, <1>11, <1>12, <1>13

(* What the step adds to what Uses says. *)
LEMMA RestOfSectors ==
  ASSUME NEW o \in Nat, NEW z \in Nat, NEW u \in Nat, u <= z, NEW m, m = o + u, NEW c, c = z - u
  PROVE  Sectors(m, c) = Sectors(o, z) \ Sectors(o, u)
  BY DEF Sectors

(* Of the sectors in reserve u go in extent n of entry g.                   *)
IsUsed(r, u, g, n) ==
  /\ u = IF r.needed < r.spare.count THEN r.needed ELSE r.spare.count
  /\ n = Len(r.ent[g].ext) /\ r.ent[g].ext[n].count + u <= MaxExtent

(* Giving spare sectors to the last extent keeps the invariant. *)
LEMMA UsesKeeps ==
  ASSUME NEW f, NEW e, NEW r, NEW l, Good(f, e, r, l), r.pc = "use", ~ r.fresh,
         NEW g, g = Grower(r), NEW u, NEW n, IsUsed(r, u, g, n),
         NEW h, NEW d, NEW q, Uses(r, q, u, g, h, d)
  PROVE  Good(f, e, q, l)
  <1>1. /\ OnDisk(f, e) /\ r \in PathState /\ r.job = "file" /\ r.idx \in Files(r.ent)
        /\ IsDirectory(r.free, r.ent, Spare(r), l) /\ Agree(f, e, r)
        /\ Entered(r) /\ Growth(r) /\ r.old = r.size /\ r.needed # 0 /\ Behind(r)
        /\ Chained(r.ent) /\ r.ent \in Table /\ Apart(r.free, r.ent, Spare(r))
    BY GrowthIs
  <1>2. PICK t \in Table : t = r.ent
    BY <1>1
  <1>3. /\ g \in Entry /\ t[g] \in Slot /\ t[g].kind # "deleted" /\ g = LastEntry(t, r.idx)
        /\ FileSectors(t, r.idx) \in Seq(Nat) /\ Len(FileSectors(t, r.idx)) \in Nat
    BY <1>1, <1>2, GrowerIs DEF Grower
  <1>4. r.spare.count # 0 /\ r.hint \notin r.free /\ End(t[g].ext) = r.spare.lsn
    BY <1>1, <1>2 DEF Behind, Extents
  <1>5. /\ r.spare.lsn \in Nat /\ r.spare.count \in 0 .. MaxExtent /\ r.spare.count \in Nat
        /\ Spare(r) = r.spare.lsn .. (r.spare.lsn + r.spare.count - 1)
        /\ r.spare.lsn + r.spare.count <= Total
    BY <1>1, <1>4, SpareIs
  <1>6. r.needed \in 0 .. SectorsFor(MaxSize) /\ r.needed \in Nat /\ SectorsFor(MaxSize) \in Nat
    BY <1>1, ConstantsAre DEF PathState
  <1>7. u \in Nat \ {0} /\ u <= r.spare.count /\ u <= r.needed
        /\ (r.needed # u => u = r.spare.count)
    BY <1>1, <1>4, <1>5, <1>6 DEF IsUsed
  <1>8. Growable(t[g], FALSE) /\ \A j \in Entry \ {g} : Sound(t[j])
    <2>1. r.fresh = FALSE
      BY <1>1 DEF PathState
    <2> QED
      BY <1>1, <1>2, <2>1 DEF Entered
  <1>9. h = [t EXCEPT ![g].ext[n].count = @ + u] /\ d = r.dirty \cup TrackSectors({}, {g})
    BY <1>2 DEF Uses, IsUsed
  <1>10. /\ h[g] = WithMore(t[g], n, u) /\ \A j \in Entry \ {g} : h[j] = t[j]
         /\ DOMAIN h = Entry
    BY <1>3, <1>9 DEF Table, WithMore
  <1>11. PICK v \in Slot : v = t[g]
    BY <1>3
  <1>12. PICK w : w = h[g]
    OBVIOUS
  <1>13. v.ext \in Seq(AnyExtent) /\ n = Len(v.ext) /\ n \in Nat /\ n \in 1 .. n
    BY <1>2, <1>8, <1>11 DEF Slot, Growable, IsUsed
  <1>14. PICK x \in AnyExtent : x = v.ext[n]
    BY <1>13
  <1>15. x.lsn \in Nat /\ x.count \in Nat /\ x.lsn + x.count = r.spare.lsn
    BY <1>4, <1>11, <1>13, <1>14, ExtentIs DEF End
  <1>16. PICK k \in AnyExtent : k = [lsn |-> r.spare.lsn, count |-> u]
    BY <1>5, <1>7 DEF AnyExtent
  <1>17. /\ w \in Slot /\ w.kind = v.kind /\ w.next = v.next /\ Sound(w)
         /\ SectorsOf(w.ext) = SectorsOf(v.ext) \o Run(k)
    <2>1. w = WithMore(v, n, u) /\ CanGrow(v)
      BY <1>8, <1>10, <1>11, <1>12 DEF CanGrow
    <2>2. CanHave(v.ext[n], u)
      <3>1. Total \in Nat
        BY SectorsAre
      <3>2. x.lsn + x.count + u <= Total
        BY <1>5, <1>7, <1>15, <3>1
      <3>3. x.count + u <= MaxExtent
        BY <1>2, <1>11, <1>14 DEF IsUsed
      <3> QED
        BY <1>14, <3>2, <3>3 DEF CanHave
    <2>3. k = Following(v.ext[n], u)
      BY <1>14, <1>15, <1>16 DEF Following
    <2>4. /\ w \in Slot /\ w.kind = v.kind /\ w.next = v.next /\ Sound(w)
          /\ SectorsOf(w.ext) = SectorsOf(v.ext) \o Run(k)
      <3>1. v \in Slot
        BY <1>11
      <3>2. n = Len(v.ext)
        BY <1>13
      <3>3. u \in Nat \ {0}
        BY <1>7
      <3> QED
        BY SMTT(60), <2>1, <2>2, <2>3, <3>1, <3>2, <3>3, UsedEntry
    <2> QED
      BY <2>4
  <1>18. h \in Table
    <2>1. \A j \in Entry : h[j] \in Slot
      BY <1>10, <1>12, <1>17, TableIs
    <2>2. h = [j \in Entry |-> h[j]]
      BY <1>9, <1>10
    <2> QED
      BY <2>1, <2>2 DEF Table
  <1>19. /\ Run(k) \in Seq(Nat) /\ Len(Run(k)) = u /\ IsInjective(Run(k))
         /\ Range(Run(k)) = r.spare.lsn .. (r.spare.lsn + u - 1)
    <2>1. k.lsn = r.spare.lsn /\ k.count = u
      BY <1>16
    <2> QED
      BY <2>1, RunIs, RunIsInjective
  <1>20. PICK a : a = Spare(r)
    OBVIOUS
  <1>21. PICK b : b = r.free
    OBVIOUS
  <1>22. PICK y : y = a \ Range(Run(k))
    OBVIOUS
  <1>23. /\ Exchanged(b, t, a, b, h, y, r.idx)
         /\ FileSectors(h, r.idx) = FileSectors(t, r.idx) \o Run(k)
         /\ LastEntry(h, r.idx) = g
    <2>1. PICK i \in Files(t) : i = r.idx
      BY <1>1, <1>2
    <2>2. Chained(t) /\ Apart(b, t, a)
      BY <1>1, <1>2, <1>20, <1>21
    <2>3. Range(Run(k)) \subseteq a
      BY <1>5, <1>7, <1>19, <1>20
    <2>4. g = LastEntry(t, i)
      BY <1>3, <2>1
    <2>5. /\ \A c \in Entry \ {LastEntry(t, i)} : h[c] = t[c]
          /\ h[LastEntry(t, i)].next = t[LastEntry(t, i)].next
          /\ h[LastEntry(t, i)].kind = t[LastEntry(t, i)].kind
          /\ SectorsOf(h[LastEntry(t, i)].ext) = SectorsOf(t[LastEntry(t, i)].ext) \o Run(k)
      BY <1>10, <1>11, <1>12, <1>17, <2>4
    <2>6. /\ Exchanged(b, t, a, b, h, a \ Range(Run(k)), i)
          /\ FileSectors(h, i) = FileSectors(t, i) \o Run(k) /\ LastEntry(h, i) = LastEntry(t, i)
      BY <1>18, <1>19, <2>2, <2>3, <2>5, GrownIsExchanged
    <2> QED
      BY <1>22, <2>1, <2>4, <2>6
  <1>24. PICK p \in [lsn : Nat, count : 0 .. MaxExtent] :
           /\ p = [lsn |-> r.spare.lsn + u, count |-> r.spare.count - u]
           /\ p.lsn = r.spare.lsn + u /\ p.count = r.spare.count - u
    <2>1. PICK c \in 0 .. MaxExtent : c = r.spare.count - u
      BY <1>5, <1>7, SectorsAre
    <2>2. PICK m \in Nat : m = r.spare.lsn + u
      BY <1>5, <1>7
    <2>3. [lsn |-> m, count |-> c] \in [lsn : Nat, count : 0 .. MaxExtent]
      OBVIOUS
    <2> QED
      BY <2>1, <2>2, <2>3
  <1>25. PICK m \in 0 .. SectorsFor(MaxSize) : m = r.needed - u
    BY <1>6, <1>7
  <1>26. PICK c \in {"grown", "allocate"} : c = IF r.needed = u THEN "grown" ELSE "allocate"
    OBVIOUS
  <1>27. AgreeBut(f, e, r.free, h, d, {}) /\ d \in SUBSET (0 .. (1 + Entries \div PerSector))
    <2>1. PICK E : E = {g}
      OBVIOUS
    <2>2. Marks(r, {}, E, r.free, h, d)
      BY <1>2, <1>3, <1>9, <1>10, <2>1 DEF Marks
    <2>3. Excused(r) \subseteq E
      BY <2>1 DEF Excused
    <2> QED
      BY <1>1, <2>2, <2>3, ExcusedMarked
  <1>28. q = [r EXCEPT !.pc = c, !.ent = h, !.dirty = d, !.spare = p, !.needed = m]
    BY <1>24, <1>25, <1>26 DEF Uses
  <1>29. /\ q \in PathState /\ q.pc = c /\ q.fresh = r.fresh /\ q.job = r.job /\ q.idx = r.idx
         /\ q.free = r.free /\ q.ent = h /\ q.dirty = d /\ q.spare = p
         /\ q.size = r.size /\ q.pos = r.pos /\ q.goal = r.goal /\ q.op = r.op
         /\ q.old = r.old /\ q.needed = m /\ q.hint = r.hint
    BY <1>1, <1>18, <1>27, <1>28 DEF PathState, Pcs
  <1>30. Spare(q) = y
    <2>1. PICK o \in Nat : o = r.spare.lsn
      BY <1>5
    <2>2. PICK z \in Nat : z = r.spare.count
      BY <1>5
    <2>3. p.lsn = o + u /\ p.count = z - u /\ u \in Nat /\ u <= z
      BY <1>7, <1>24, <2>1, <2>2
    <2>4. Sectors(p.lsn, p.count) = Sectors(o, z) \ Sectors(o, u)
      <3>1. PICK m1, c1 : m1 = p.lsn /\ c1 = p.count
        OBVIOUS
      <3>2. m1 = o + u /\ c1 = z - u
        BY <2>3, <3>1
      <3>3. Sectors(m1, c1) = Sectors(o, z) \ Sectors(o, u)
        BY <2>1, <2>2, <2>3, <3>2, RestOfSectors
      <3> QED
        BY <3>1, <3>3
    <2>5. Spare(q) = Sectors(p.lsn, p.count) /\ a = Sectors(o, z)
      BY <1>20, <1>29, <2>1, <2>2 DEF Spare
    <2>6. Range(Run(k)) = Sectors(o, u)
      BY <1>19, <2>1 DEF Sectors
    <2> QED
      BY <1>22, <2>4, <2>5, <2>6
  <1>31. IsDirectory(q.free, q.ent, Spare(q), l)
    <2>1. Chained(t) /\ Apart(b, t, a) /\ (l = "nothing" => Exact(b, t, a)) /\ r.idx \in Files(t)
      BY <1>1, <1>2, <1>20, <1>21 DEF IsDirectory
    <2>2. Chained(h) /\ Apart(b, h, y) /\ (l = "nothing" => Exact(b, h, y))
      BY <1>23, <2>1, ExchangedIsChained, ExchangedIsApart, ExchangedIsExact
    <2> QED
      BY <1>21, <1>29, <1>30, <2>2 DEF IsDirectory
  <1>32. Agree(f, e, q)
    BY <1>27, <1>29, AgreeMore
  <1>33. Entered(q)
    BY <1>8, <1>10, <1>12, <1>17, <1>29 DEF Entered
  <1>34. Growth(q)
    <2>1. /\ r.size < r.goal /\ r.op # "none" /\ (r.op = "write" => r.pos <= r.goal)
          /\ SectorsFor(r.size) <= Len(FileSectors(t, r.idx))
          /\ Len(FileSectors(t, r.idx)) + r.needed = SectorsFor(r.goal)
      BY <1>1, <1>2 DEF Growth
    <2>2. Len(FileSectors(h, r.idx)) = Len(FileSectors(t, r.idx)) + u
      <3>1. PICK y1 \in Seq(Nat) : y1 = FileSectors(t, r.idx)
        BY <1>3
      <3>2. PICK y2 \in Seq(Nat) : y2 = Run(k) /\ Len(y2) = u
        BY <1>19
      <3>3. FileSectors(h, r.idx) = y1 \o y2
        BY <1>23, <3>1, <3>2
      <3>4. Len(y1 \o y2) = Len(y1) + Len(y2)
        OBVIOUS
      <3> QED
        BY <3>1, <3>2, <3>3, <3>4
    <2>3. SectorsFor(r.size) \in Nat /\ SectorsFor(r.goal) \in Nat
      <3>1. r.size \in Nat /\ r.goal \in Nat
        BY <1>1, ConstantsAre DEF PathState
      <3> QED
        BY <3>1, SizesAre
    <2>4. /\ SectorsFor(r.size) <= Len(FileSectors(h, r.idx))
          /\ Len(FileSectors(h, r.idx)) + m = SectorsFor(r.goal)
      <3>1. PICK n1 \in Nat : n1 = Len(FileSectors(t, r.idx))
        BY <1>3
      <3>2. PICK n2 \in Nat : n2 = r.needed
        BY <1>6
      <3>3. Len(FileSectors(h, r.idx)) = n1 + u /\ n1 + n2 = SectorsFor(r.goal) /\ m = n2 - u
            /\ SectorsFor(r.size) <= n1
        BY <1>25, <2>1, <2>2, <3>1, <3>2
      <3>4. n1 + u + m = n1 + n2
        BY <1>7, <3>3
      <3>5. SectorsFor(r.size) <= n1 + u
        BY <1>7, <2>3, <3>3
      <3> QED
        BY <3>3, <3>4, <3>5
    <2> QED
      BY <1>29, <2>1, <2>4 DEF Growth
  <1>35. Behind(q)
    <2>1. c = "allocate" => p.count = 0
      BY <1>5, <1>7, <1>24, <1>26
    <2> QED
      BY <1>4, <1>26, <1>29, <2>1 DEF Behind
  <1>36. q.idx \in Files(q.ent)
    BY <1>1, <1>2, <1>23, <1>29 DEF Exchanged
  <1>37. q.pc = "grown" <=> q.needed = 0
    BY <1>6, <1>7, <1>25, <1>26, <1>29
  <1> QED
    BY <1>1, <1>29, <1>31, <1>32, <1>33, <1>34, <1>35, <1>36, <1>37, GrowsIsGood

(* Giving spare sectors to the file keeps the invariant. *)
LEMMA UseKeeps ==
  ASSUME Good(free, ent, s, lost), Use
  PROVE  Good(free', ent', s', lost')
  <1>1. PICK g : g = Grower(s)
    OBVIOUS
  <1>2. PICK n : n = Len(s.ent[g].ext)
    OBVIOUS
  <1>3. PICK u : u = Used
    OBVIOUS
  <1>4. /\ s.pc = "use" /\ ~ s.fresh /\ LastCount + Used <= MaxExtent
        /\ free' = free /\ ent' = ent /\ lost' = lost
    BY DEF Use, Memory
  <1>5. s.ent[g].ext[n].count + u <= MaxExtent
    BY <1>1, <1>2, <1>3, <1>4 DEF LastCount, LastExtents, Grower
  <1>6. /\ s \in PathState /\ Chained(s.ent) /\ s.idx \in Files(s.ent) /\ Entered(s)
    BY <1>4, GrowthIs
  <1>7. g \in Entry /\ s.ent[g] \in Slot
    BY <1>1, <1>6, GrowerIs
  <1>8. Len(s.ent[g].ext) \in DOMAIN s.ent[g].ext
    <2>1. s.ent[g].ext \in Seq(AnyExtent) /\ s.ent[g].ext # << >>
      BY <1>1, <1>4, <1>6, <1>7 DEF Entered, Growable, Slot
    <2> QED
      BY <2>1
  <1>9. PICK h, d : Uses(s, s', u, g, h, d)
    BY <1>1, <1>3, <1>6, <1>7, <1>8, UseIs
  <1>10. Good(free, ent, s', lost)
    <2>1. IsUsed(s, u, g, n)
      BY <1>2, <1>3, <1>5 DEF IsUsed, Used
    <2> QED
      BY <1>1, <1>4, <1>9, <2>1, UsesKeeps
  <1> QED
    BY <1>4, <1>10

(* The end of a growth keeps the invariant: the file has the sectors of its *)
(* new size.                                                                *)
LEMMA GrownKeeps ==
  ASSUME Good(free, ent, s, lost), Grown
  PROVE  Good(free', ent', s', lost')
  <1>1. PICK g : g = Grower(s)
    OBVIOUS
  <1>2. PICK b : b = s.goal % Bps
    OBVIOUS
  <1>3. PICK d : d = s.dirty \cup TrackSectors({}, {g})
    OBVIOUS
  <1>4. PICK c \in {"data", "flush"} : c = IF s.op = "write" THEN "data" ELSE "flush"
    OBVIOUS
  <1>5. /\ s.pc = "grown" /\ free' = free /\ ent' = ent /\ lost' = lost
        /\ s' = [s EXCEPT !.pc = c, !.ent[g].last = b, !.dirty = d, !.size = s.goal]
    BY <1>1, <1>2, <1>3, <1>4 DEF Grown, Memory, Grower
  <1>6. /\ OnDisk(free, ent) /\ s \in PathState /\ s.job = "file" /\ s.idx \in Files(s.ent)
        /\ IsDirectory(s.free, s.ent, Spare(s), lost)
        /\ Growth(s) /\ s.old = s.size /\ s.needed = 0 /\ Chained(s.ent)
    BY <1>5, GrowthIs
  <1>7. AgreeBut(free, ent, s.free, s.ent, s.dirty, {}) /\ \A j \in Entry : Sound(s.ent[j])
    BY <1>5, GoodIs DEF HasTrack
  <1>8. PICK e \in Table : e = s.ent
    BY <1>6 DEF PathState
  <1>9. /\ g \in Entry /\ e[g] \in Slot /\ g = LastEntry(e, s.idx)
        /\ Len(FileSectors(e, s.idx)) \in Nat
    BY <1>1, <1>6, <1>8, GrowerIs DEF Grower
  <1>10. s.goal \in Nat /\ s.goal \in 0 .. MaxSize /\ s.size \in Nat /\ b \in 0 .. (Bps - 1)
    BY <1>2, <1>6, ConstantsAre, SizesAre DEF PathState
  <1>11. PICK h : h = [e EXCEPT ![g].last = b]
    OBVIOUS
  <1>12. /\ h[g] = [e[g] EXCEPT !.last = b] /\ \A j \in Entry \ {g} : h[j] = e[j]
    BY <1>9, <1>11 DEF Table
  <1>13. /\ h[g] \in Slot /\ h[g].kind = e[g].kind /\ h[g].next = e[g].next /\ h[g].ext = e[g].ext
         /\ h[g].last = b
    BY <1>9, <1>10, <1>12 DEF Slot
  <1>14. h \in Table
    BY <1>9, <1>11, <1>12, <1>13 DEF Table
  <1>15. s' = [s EXCEPT !.pc = c, !.ent = h, !.dirty = d, !.size = s.goal]
    BY <1>5, <1>6, <1>8, <1>11 DEF PathState
  <1>16. AgreeBut(free, ent, s.free, h, d, {}) /\ d \in SUBSET (0 .. (1 + Entries \div PerSector))
    <2>1. PICK E : E = {g}
      OBVIOUS
    <2>2. Marks(s, {}, E, s.free, h, d)
      BY <1>3, <1>8, <1>9, <1>12, <2>1 DEF Marks
    <2>3. Excused(s) \subseteq E
      BY <2>1, <1>1 DEF Excused
    <2>4. Agree(free, ent, s)
      BY <1>7, AgreeMore
    <2> QED
      BY <1>6, <2>2, <2>3, <2>4, ExcusedMarked
  <1>17. /\ s' \in PathState /\ s'.pc = c /\ s'.job = "file" /\ s'.idx = s.idx
         /\ s'.free = s.free /\ s'.ent = h /\ s'.dirty = d /\ s'.spare = s.spare
         /\ s'.size = s.goal /\ s'.pos = s.pos /\ s'.goal = s.goal /\ s'.old = s.size
    <2>1. PICK n \in 0 .. MaxSize : n = s.goal /\ n \in Nat
      BY <1>10
    <2>2. s' = [s EXCEPT !.pc = c, !.ent = h, !.dirty = d, !.size = n]
      BY <1>15, <2>1
    <2>3. /\ s' \in PathState /\ s'.pc = c /\ s'.job = s.job /\ s'.idx = s.idx
          /\ s'.free = s.free /\ s'.ent = h /\ s'.dirty = d /\ s'.spare = s.spare
          /\ s'.size = n /\ s'.pos = s.pos /\ s'.goal = s.goal /\ s'.old = s.old
      <3>1. /\ s \in PathState /\ h \in Table /\ n \in Nat /\ c \in Pcs
            /\ d \in SUBSET (0 .. (1 + Entries \div PerSector))
        BY <1>4, <1>6, <1>14, <1>16, <2>1 DEF Pcs
      <3> QED
        BY <2>2, <3>1 DEF PathState
    <2> QED
      BY <1>6, <2>1, <2>3
  <1>18. \A k \in Entry : /\ h[k].next = e[k].next /\ h[k].kind = e[k].kind
                          /\ SectorsOf(h[k].ext) = SectorsOf(e[k].ext)
    BY <1>12, <1>13
  <1>19. /\ Files(h) = Files(e) /\ Chained(h)
         /\ \A f, u : Apart(f, e, u) => Apart(f, h, u)
         /\ \A f, u : Exact(f, e, u) => Exact(f, h, u)
    BY <1>6, <1>8, <1>14, <1>18, SameDirectory
  <1>20. LastEntry(h, s.idx) = g /\ FileSectors(h, s.idx) = FileSectors(e, s.idx)
    <2>1. PICK i \in Files(e) : i = s.idx
      BY <1>6, <1>8
    <2>2. Ended(e, i) /\ i \in Entry /\ Chain(e, i) \subseteq Entry
      BY <1>6, <1>8, <2>1, FilesAre
    <2>3. \A k \in Chain(e, i) : h[k].next = e[k].next /\ SectorsOf(h[k].ext) = SectorsOf(e[k].ext)
      BY <1>18, <2>2
    <2>4. FileSectors(h, i) = FileSectors(e, i) /\ LastEntry(h, i) = LastEntry(e, i)
      BY <1>14, <2>2, <2>3, SameFile
    <2> QED
      BY <1>9, <2>1, <2>4
  <1>21. Sized(s')
    <2>1. Len(FileSectors(e, s.idx)) = SectorsFor(s.goal)
      <3>1. Len(FileSectors(e, s.idx)) + 0 = SectorsFor(s.goal)
        BY <1>6, <1>8 DEF Growth
      <3> QED
        BY <1>9, <3>1
    <2>2. PICK i, n : i = s.idx /\ n = s.goal
      OBVIOUS
    <2>3. Len(FileSectors(h, i)) = SectorsFor(n) /\ h[LastEntry(h, i)].last = n % Bps /\ n \in Nat
      BY <1>2, <1>10, <1>13, <1>20, <2>1, <2>2
    <2>4. FileSize(h, i) = n
      BY <2>3, FileSizeIs
    <2> QED
      BY <1>17, <2>2, <2>3, <2>4 DEF Sized
  <1>22. IsSteady(s')
    <2>1. s.size < s.goal /\ (c = "data" => s.pos <= s.goal)
      BY <1>4, <1>6 DEF Growth
    <2>2. s.size <= s.goal /\ s.goal <= s.goal
      BY <1>10, <2>1
    <2> QED
      BY <1>4, <1>6, <1>8, <1>17, <1>19, <1>21, <2>1, <2>2 DEF IsSteady
  <1>23. \A j \in Entry : Sound(s'.ent[j])
    <2>1. Sound(h[g])
      <3>1. Sound(e[g]) /\ Capacity(h[g]) = Capacity(e[g])
        BY <1>7, <1>8, <1>9, <1>13 DEF Capacity
      <3> QED
        BY <1>13, <3>1 DEF Sound
    <2> QED
      BY <1>7, <1>8, <1>12, <1>17, <2>1
  <1>24. IsDirectory(s'.free, s'.ent, Spare(s'), lost)
    <2>1. Spare(s') = Spare(s)
      BY <1>17 DEF Spare
    <2> QED
      BY <1>6, <1>8, <1>17, <1>19, <2>1 DEF IsDirectory
  <1> QED
    BY <1>5, <1>6, <1>16, <1>17, <1>22, <1>23, <1>24, SteadyIsGood

-----------------------------------------------------------------------------
(* A file is cut *)

(* A path r, all of whose entries can be on a disk, cuts its file to size n. *)
CanCut(f, e, r, l, n) ==
  /\ OnDisk(f, e) /\ r \in PathState /\ r.job = "file" /\ r.idx \in Files(r.ent)
  /\ IsDirectory(r.free, r.ent, Spare(r), l) /\ Agree(f, e, r) /\ Excused(r) = {}
  /\ \A j \in Entry : Sound(r.ent[j])
  /\ n \in Nat /\ SectorsFor(n) <= Len(FileSectors(r.ent, r.idx))

(* Path q is r with its file cut to size n.                                 *)
Cuts(r, q, n, u, c) == q = [Cut(r, n) EXCEPT !.pc = "flush", !.cut = u, !.ec = c]

(* A file cut to a size keeps the invariant: the sectors past it become     *)
(* free.                                                                    *)
LEMMA CutIsGood ==
  ASSUME NEW f, NEW e, NEW r, NEW l, NEW n, CanCut(f, e, r, l, n),
         NEW u \in BOOLEAN, NEW c \in {"ok", "PNNF", "FAE", "DF", "EIO"},
         NEW q, Cuts(r, q, n, u, c)
  PROVE  Good(f, e, q, l)
  <1>1. /\ OnDisk(f, e) /\ r \in PathState /\ r.job = "file" /\ r.idx \in Files(r.ent)
        /\ IsDirectory(r.free, r.ent, Spare(r), l) /\ Agree(f, e, r) /\ Excused(r) = {}
        /\ \A j \in Entry : Sound(r.ent[j])
        /\ n \in Nat /\ SectorsFor(n) <= Len(FileSectors(r.ent, r.idx))
    BY DEF CanCut
  <1>2. PICK t \in Table : t = r.ent
    BY <1>1 DEF PathState
  <1>3. PICK i \in Files(t) : i = r.idx
    BY <1>1, <1>2
  <1>4. PICK b, a : b = r.free /\ a = Spare(r)
    OBVIOUS
  <1>5. Chained(t) /\ Apart(b, t, a) /\ (l = "nothing" => Exact(b, t, a)) /\ b \in SUBSET Lsn
    BY <1>1, <1>2, <1>4 DEF IsDirectory, PathState
  <1>6. i \in Entry /\ t[i].kind = "header" /\ Ended(t, i) /\ Chain(t, i) \in SUBSET Entry
    BY <1>5, FilesAre
  <1>7. PICK h : h = Truncated(t, i, n)
    OBVIOUS
  <1>8. IsCut(t, h, i, n)
    BY <1>1, <1>2, <1>3, <1>6, <1>7, CutFile
  <1>9. PICK x : x = Released(t, i, n)
    OBVIOUS
  <1>10. PICK g : g = b \cup x
    OBVIOUS
  <1>11. Exchanged(b, t, a, g, h, a, i) /\ FileSize(h, i) = n /\ i \in Files(h)
    BY <1>1, <1>5, <1>8, <1>9, <1>10, CutIsExchanged
  <1>12. Chained(h) /\ Apart(g, h, a) /\ (l = "nothing" => Exact(g, h, a))
    BY <1>5, <1>11, ExchangedIsChained, ExchangedIsApart, ExchangedIsExact
  <1>13. x \in SUBSET Lsn /\ g \in SUBSET Lsn
    BY <1>10, <1>12 DEF Apart
  <1>14. h \in Table /\ Len(FileSectors(h, i)) = SectorsFor(n)
         /\ \A k \in Entry \ Chain(t, i) : h[k] = t[k]
    BY <1>8 DEF IsCut
  <1>15. PICK E : E = Chain(t, i)
    OBVIOUS
  <1>16. PICK d : d = r.dirty \cup TrackSectors(x, E)
    OBVIOUS
  <1>17. AgreeBut(f, e, g, h, d, {}) /\ d \in SUBSET (0 .. (1 + Entries \div PerSector))
    <2>1. Marks(r, x, E, g, h, d)
      BY <1>2, <1>4, <1>6, <1>10, <1>13, <1>14, <1>15, <1>16 DEF Marks
    <2>2. Excused(r) \subseteq E
      BY <1>1
    <2> QED
      BY <1>1, <2>1, <2>2, ExcusedMarked
  <1>18. q = [r EXCEPT !.free = g, !.ent = h, !.dirty = d, !.size = n, !.pc = "flush", !.cut = u,
                       !.ec = c]
    BY <1>1, <1>2, <1>3, <1>4, <1>7, <1>9, <1>10, <1>15, <1>16 DEF Cuts, Cut, PathState
  <1>19. /\ q \in PathState /\ q.pc = "flush" /\ q.job = "file" /\ q.idx = i /\ q.size = n
         /\ q.free = g /\ q.ent = h /\ q.dirty = d /\ q.spare = r.spare
    <2>1. d \in SUBSET (0 .. (1 + Entries \div PerSector)) /\ g \in SUBSET Lsn /\ h \in Table
          /\ n \in Nat /\ r \in PathState
      BY <1>1, <1>13, <1>14, <1>17
    <2>2. /\ q \in PathState /\ q.pc = "flush" /\ q.job = r.job /\ q.idx = r.idx /\ q.size = n
          /\ q.free = g /\ q.ent = h /\ q.dirty = d /\ q.spare = r.spare
      BY <1>18, <2>1, ZenonT(60) DEF PathState, Pcs
    <2> QED
      BY <1>1, <1>3, <2>2
  <1>20. IsSteady(q)
    BY <1>11, <1>14, <1>19 DEF IsSteady, Sized
  <1>21. \A j \in Entry : Sound(q.ent[j])
    <2>1. \A j \in Entry : Sound(t[j])
      BY <1>1, <1>2
    <2>2. \A j \in Entry : Sound(h[j])
      BY <1>6, <1>8, <2>1, SoundCut
    <2> QED
      BY <1>19, <2>2
  <1>22. IsDirectory(q.free, q.ent, Spare(q), l)
    <2>1. Spare(q) = a
      BY <1>4, <1>19 DEF Spare
    <2> QED
      BY <1>12, <1>19, <2>1 DEF IsDirectory
  <1> QED
    BY <1>1, <1>17, <1>19, <1>20, <1>21, <1>22, SteadyIsGood

(* Setting a smaller size keeps the invariant. *)
LEMMA CutOpenKeeps ==
  ASSUME Good(free, ent, s, lost), NEW size \in SetSizes, SetSize(size), size < s.size
  PROVE  Good(free', ent', s', lost')
  <1>1. s.pc = "open"
    BY DEF SetSize
  <1>2. /\ HasTrack(s) /\ s.job = "file" /\ Sized(s) /\ s.idx \in Files(s.ent) /\ s \in PathState
    BY <1>1, OpenIs
  <1>3. size \in Nat /\ s.size \in Nat
    BY <1>2, DosAssumption DEF PathState
  <1>4. /\ s' = [Cut(s, size) EXCEPT !.pc = "flush", !.cut = TRUE]
        /\ free' = free /\ ent' = ent /\ lost' = lost
    BY <1>3 DEF SetSize, Memory
  <1>5. CanCut(free, ent, s, lost, size)
    <2>1. SectorsFor(size) <= Len(FileSectors(s.ent, s.idx))
      BY <1>2, <1>3, MoreSectors DEF Sized
    <2>2. Excused(s) = {}
      BY <1>1 DEF Excused, Pending
    <2>3. /\ OnDisk(free, ent) /\ IsDirectory(s.free, s.ent, Spare(s), lost) /\ Agree(free, ent, s)
          /\ \A j \in Entry : Sound(s.ent[j])
      BY <1>1, <1>2, GoodIs
    <2> QED
      BY <1>2, <1>3, <2>1, <2>2, <2>3 DEF CanCut
  <1>6. PICK c \in {"ok", "PNNF", "FAE", "DF", "EIO"} : c = s.ec
    BY <1>2 DEF PathState
  <1>7. Cuts(s, s', size, TRUE, c)
    BY <1>2, <1>4, <1>6 DEF Cuts, Cut, PathState
  <1> QED
    BY <1>4, <1>5, <1>6, <1>7, CutIsGood

(* A file that cannot grow is cut to the size it had. *)
LEMMA UndoneKeeps ==
  ASSUME Good(free, ent, s, lost), DiskFull \/ DirectoryFull
  PROVE  Good(free', ent', s', lost')
  <1>1. /\ s.pc \in {"allocate", "use"} /\ s' = [Cut(s, s.size) EXCEPT !.pc = "flush", !.ec = "DF"]
        /\ s.pc = "use" => s.fresh /\ IsFilled(Grower(s))
        /\ free' = free /\ ent' = ent /\ lost' = lost
    BY DEF DiskFull, DirectoryFull, Undone, Memory, Grower
  <1>2. /\ OnDisk(free, ent) /\ s \in PathState /\ s.job = "file" /\ s.idx \in Files(s.ent)
        /\ IsDirectory(s.free, s.ent, Spare(s), lost) /\ Agree(free, ent, s)
        /\ Entered(s) /\ Growth(s) /\ Chained(s.ent)
    BY <1>1, GrowthIs
  <1>3. PICK n \in Nat : n = s.size
    BY <1>2 DEF PathState
  <1>4. SectorsFor(n) <= Len(FileSectors(s.ent, s.idx))
    BY <1>2, <1>3 DEF Growth
  <1>5. Excused(s) = {}
    BY <1>1 DEF Excused, Pending
  <1>6. \A j \in Entry : Sound(s.ent[j])
    <2>1. CASE s.pc = "allocate"
      BY <1>2, <2>1 DEF Entered
    <2>2. CASE s.pc = "use"
      <3>1. PICK g : g = Grower(s)
        OBVIOUS
      <3>2. Growable(s.ent[g], s.fresh) /\ \A j \in Entry \ {g} : Sound(s.ent[j])
        BY <1>2, <2>2, <3>1 DEF Entered
      <3>3. Len(s.ent[g].ext) = Capacity(s.ent[g]) /\ s.fresh
        BY <1>1, <2>2, <3>1 DEF IsFilled
      <3>4. Capacity(s.ent[g]) # 0
        BY DirAssumption DEF Capacity
      <3>5. s.ent[g].ext # << >>
        BY <3>3, <3>4
      <3>6. Sound(s.ent[g])
        BY <3>2, <3>3, <3>5 DEF Growable, Sound
      <3> QED
        BY <3>2, <3>6
    <2> QED
      BY <1>1, <2>1, <2>2
  <1>7. CanCut(free, ent, s, lost, n)
    BY <1>2, <1>4, <1>5, <1>6 DEF CanCut
  <1>8. PICK u \in BOOLEAN : u = s.cut
    BY <1>2 DEF PathState
  <1>9. Cuts(s, s', n, u, "DF")
    BY <1>1, <1>2, <1>3, <1>8 DEF Cuts, Cut, PathState
  <1>10. Good(free, ent, s', lost)
    BY <1>7, <1>9, CutIsGood
  <1> QED
    BY <1>1, <1>10

(* A sector of data that cannot be written keeps the invariant. *)
LEMMA PutSectorFailsKeeps ==
  ASSUME Good(free, ent, s, lost), PutSectorFails
  PROVE  Good(free', ent', s', lost')
  <1>1. /\ s.pc = "data" /\ free' = free /\ ent' = ent /\ lost' = lost
    BY DEF PutSectorFails, Memory
  <1>2. /\ HasTrack(s) /\ s.job = "file" /\ Sized(s) /\ s.idx \in Files(s.ent) /\ s \in PathState
    BY <1>1, OpenIs
  <1>3. s.old <= s.size /\ s.pos <= s.goal /\ s.goal <= s.size
    BY <1>1 DEF Good, Sizes
  <1>4. s.size \in Nat /\ s.old \in Nat /\ s.pos \in Nat /\ s.goal \in Nat /\ s.cut \in BOOLEAN
    BY <1>2, ConstantsAre DEF PathState
  <1>5. CASE s.size > s.old
    <2>1. PICK n \in Nat : n = (IF s.pos > s.old THEN s.pos ELSE s.old) /\ n <= s.size
      BY <1>3, <1>4
    <2>2. s' = [Cut(s, n) EXCEPT !.pc = "flush", !.ec = "EIO"]
      BY <1>5, <2>1 DEF PutSectorFails, Memory
    <2>3. CanCut(free, ent, s, lost, n)
      <3>1. SectorsFor(n) <= Len(FileSectors(s.ent, s.idx))
        BY <1>2, <1>4, <2>1, MoreSectors DEF Sized
      <3>2. Excused(s) = {}
        BY <1>1 DEF Excused, Pending
      <3>3. /\ OnDisk(free, ent) /\ IsDirectory(s.free, s.ent, Spare(s), lost) /\ Agree(free, ent, s)
            /\ \A j \in Entry : Sound(s.ent[j])
        BY <1>1, <1>2, GoodIs
      <3> QED
        BY <1>2, <2>1, <3>1, <3>2, <3>3 DEF CanCut
    <2>4. PICK u \in BOOLEAN : u = s.cut
      BY <1>4
    <2>5. Cuts(s, s', n, u, "EIO")
      BY <1>2, <2>2, <2>4 DEF Cuts, Cut, PathState
    <2>6. Good(free, ent, s', lost)
      BY <2>3, <2>5, CutIsGood
    <2> QED
      BY <1>1, <2>6
  <1>6. CASE ~ (s.size > s.old)
    <2>1. s' = [s EXCEPT !.pc = "flush", !.ec = "EIO"]
      BY <1>6 DEF PutSectorFails, Memory
    <2>2. /\ s' \in PathState /\ s'.pc = "flush" /\ s'.job = s.job /\ s'.idx = s.idx
          /\ s'.size = s.size /\ s'.free = s.free /\ s'.ent = s.ent /\ s'.dirty = s.dirty
          /\ s'.spare = s.spare
      BY <1>2, <2>1 DEF PathState, Pcs
    <2>3. IsSteady(s')
      BY <1>2, <2>2 DEF IsSteady, Sized
    <2>4. s.pc # "use"
      BY <1>1
    <2> QED
      BY <1>1, <1>2, <2>2, <2>3, <2>4, SteadyAgain
  <1> QED
    BY <1>5, <1>6

(* A path that is closed gives back what it has in reserve. *)
LEMMA CloseKeeps ==
  ASSUME Good(free, ent, s, lost), Close
  PROVE  Good(free', ent', s', lost')
  <1>1. PICK a : a = Spare(s)
    OBVIOUS
  <1>2. PICK g : g = s.free \cup a
    OBVIOUS
  <1>3. PICK d : d = s.dirty \cup TrackSectors(a, {})
    OBVIOUS
  <1>4. /\ s.pc = "open" /\ free' = free /\ ent' = ent /\ lost' = lost
        /\ s' = [s EXCEPT !.pc = "flush", !.job = "close", !.spare = NoSpare, !.free = g, !.dirty = d]
    BY <1>1, <1>2, <1>3 DEF Close, Memory
  <1>5. /\ HasTrack(s) /\ s \in PathState
    BY <1>4, OpenIs
  <1>6. /\ OnDisk(free, ent) /\ IsDirectory(s.free, s.ent, Spare(s), lost) /\ Agree(free, ent, s)
        /\ \A j \in Entry : Sound(s.ent[j]) /\ Apart(s.free, s.ent, Spare(s))
    BY <1>4, <1>5, GoodIs
  <1>7. a \in SUBSET Lsn /\ g \in SUBSET Lsn
    BY <1>1, <1>2, <1>5, <1>6, SpareIs DEF PathState
  <1>8. AgreeBut(free, ent, g, s.ent, d, {}) /\ d \in SUBSET (0 .. (1 + Entries \div PerSector))
    <2>1. PICK E : E = {}
      OBVIOUS
    <2>2. PICK h : h = s.ent
      OBVIOUS
    <2>3. Marks(s, a, E, g, h, d)
      BY <1>2, <1>3, <1>7, <2>1, <2>2 DEF Marks
    <2>4. Excused(s) \subseteq E
      BY <1>4 DEF Excused, Pending
    <2>5. AgreeBut(free, ent, g, h, d, {}) /\ d \in SUBSET (0 .. (1 + Entries \div PerSector))
      BY <1>5, <1>6, <2>3, <2>4, ExcusedMarked
    <2> QED
      BY <2>2, <2>5
  <1>9. /\ s' \in PathState /\ s'.pc = "flush" /\ s'.job = "close" /\ s'.spare = NoSpare
        /\ s'.free = g /\ s'.ent = s.ent /\ s'.dirty = d
    <2>1. NoSpare \in [lsn : Nat, count : 0 .. MaxExtent]
      BY ConstantsAre
    <2> QED
      BY <1>4, <1>5, <1>7, <1>8, <2>1 DEF PathState, Pcs
  <1>10. IsSteady(s')
    BY <1>9 DEF IsSteady
  <1>11. IsDirectory(g, s.ent, {}, lost)
    <2>1. PICK e, f : e = s.ent /\ f = s.free
      OBVIOUS
    <2>2. Apart(f, e, a) /\ Chained(e) /\ (lost = "nothing" => Exact(f, e, a))
      BY <1>1, <1>6, <2>1 DEF IsDirectory
    <2>3. g \cup {} = f \cup a /\ g \cap {} = {}
      BY <1>2, <2>1
    <2>4. Apart(g, e, {}) /\ (Exact(f, e, a) => Exact(g, e, {}))
      BY <2>2, <2>3, Reserved
    <2> QED
      BY <2>1, <2>2, <2>4 DEF IsDirectory
  <1>12. IsDirectory(s'.free, s'.ent, Spare(s'), lost)
    BY <1>9, <1>11, NoSpareIsNone
  <1> QED
    BY <1>4, <1>6, <1>8, <1>9, <1>10, <1>12, SteadyIsGood

-----------------------------------------------------------------------------
(* What holds in every state *)

(* Every call keeps the invariant. *)
LEMMA CallKeeps ==
  ASSUME Good(free, ent, s, lost), Call, lost' # "files"
  PROVE  Good(free', ent', s', lost')
  <1>1. ASSUME NEW n \in Names, Open(n) \/ NotFound(n) \/ Create(n) \/ CreateFails(n) \/ Kill(n)
        PROVE  Good(free', ent', s', lost')
    <2>1. CASE Open(n)
      BY <2>1, OpenKeeps
    <2>2. CASE NotFound(n) \/ Create(n) \/ CreateFails(n)
      BY <2>2, RestsKeep DEF Rests
    <2>3. CASE Kill(n)
      BY <2>3, KillsKeep
    <2> QED
      BY <1>1, <2>1, <2>2, <2>3
  <1>2. ASSUME NEW n \in Names, NEW m \in Names, Rename(n, m)
        PROVE  Good(free', ent', s', lost')
    <2>1. CASE Named(ent, m) = {}
      BY <1>2, <2>1, RenameKeeps
    <2>2. CASE Named(ent, m) # {}
      BY <1>2, <2>2, RestsKeep DEF Rests
    <2> QED
      BY <2>1, <2>2
  <1>3. ASSUME NEW pos \in Positions, Seek(pos)
        PROVE  Good(free', ent', s', lost')
    BY <1>3, SeekKeeps
  <1>4. ASSUME NEW k \in WriteSizes, Write(k)
        PROVE  Good(free', ent', s', lost')
    <2>1. s.pos + k \in Nat /\ s.size \in Nat
      <3>1. s.pc = "open"
        BY <1>4 DEF Write
      <3>2. s.pos \in Nat /\ s.size \in Nat /\ k \in Nat
        BY <3>1, OpenIs, DosAssumption DEF PathState
      <3> QED
        BY <3>2
    <2>2. CASE s.pos + k > s.size
      BY <1>4, <2>2, GrowCallsKeep
    <2>3. CASE s.pos + k <= s.size
      BY <1>4, <2>3, WriteInPlaceKeeps
    <2> QED
      BY <2>1, <2>2, <2>3
  <1>5. ASSUME NEW size \in SetSizes, SetSize(size)
        PROVE  Good(free', ent', s', lost')
    <2>1. size \in Nat /\ s.size \in Nat
      <3>1. s.pc = "open"
        BY <1>5 DEF SetSize
      <3> QED
        BY <3>1, OpenIs, DosAssumption DEF PathState
    <2>2. CASE size > s.size
      BY <1>5, <2>2, GrowCallsKeep
    <2>3. CASE size < s.size
      BY <1>5, <2>3, CutOpenKeeps
    <2>4. CASE size = s.size
      BY <1>5, <2>4, SetToSameKeeps
    <2> QED
      BY <2>1, <2>2, <2>3, <2>4
  <1>6. CASE Close
    BY <1>6, CloseKeeps
  <1> QED
    BY <1>1, <1>2, <1>3, <1>4, <1>5, <1>6 DEF Call

(* Every step inside a call keeps the invariant. *)
LEMMA StepKeeps ==
  ASSUME Good(free, ent, s, lost), Step, lost' # "files"
  PROVE  Good(free', ent', s', lost')
  <1>1. CASE Swap \/ Allocate
    BY <1>1, TakeRunsKeep
  <1>2. CASE KeepSpare
    BY <1>2, KeepSpareKeeps
  <1>3. CASE DiskFull \/ DirectoryFull
    BY <1>3, UndoneKeeps
  <1>4. CASE NewExtent
    BY <1>4, NewExtentKeeps
  <1>5. CASE AddContinuation
    BY <1>5, AddContinuationKeeps
  <1>6. CASE Overflow
    BY <1>6, OverflowKeeps
  <1>7. CASE Use
    BY <1>7, UseKeeps
  <1>8. CASE Grown
    BY <1>8, GrownKeeps
  <1>9. CASE PutSector
    BY <1>9, PutSectorKeeps
  <1>10. CASE PutSectorFails
    BY <1>10, PutSectorFailsKeeps
  <1>11. CASE PutTrackSector
    BY <1>11, PutTrackSectorKeeps
  <1>12. CASE PutTrackSectorFails
    BY <1>12, PutTrackSectorFailsKeeps
  <1>13. CASE Flushed
    BY <1>13, FlushedKeeps
  <1>14. CASE Replace
    BY <1>14, KillsKeep
  <1>15. CASE NoEntryFree
    BY <1>15, RestsKeep DEF Rests
  <1>16. CASE NewFile
    BY <1>16, NewFileKeeps
  <1> QED
    BY <1>1, <1>2, <1>3, <1>4, <1>5, <1>6, <1>7, <1>8, <1>9, <1>10, <1>11, <1>12, <1>13, <1>14,
       <1>15, <1>16 DEF Step

(* What may be lost stays so. *)
LEMMA LostStays ==
  ASSUME lost = "files", Next
  PROVE  lost' = "files"
  <1>1. ASSUME Call PROVE lost' = "files"
    <2>1. lost' = lost
      BY <1>1 DEF Call, Open, NotFound, Create, CreateFails, Kill, Rename, Seek, Write, SetSize,
                  Close, Memory
    <2> QED
      BY <2>1
  <1>2. ASSUME Step PROVE lost' = "files"
    <2>1. CASE PutTrackSectorFails
      BY <2>1 DEF PutTrackSectorFails, Abandon
    <2>2. CASE ~ PutTrackSectorFails
      <3>1. lost' = lost
        BY <1>2, <2>2 DEF Step, Swap, KeepSpare, Allocate, DiskFull, NewExtent, AddContinuation,
             DirectoryFull, Overflow, Use, Grown, PutSector, PutSectorFails, PutTrackSector,
             Flushed, Replace, NoEntryFree, NewFile, Memory
      <3> QED
        BY <3>1
    <2> QED
      BY <2>1, <2>2
  <1>3. ASSUME Crash PROVE lost' = "files"
    BY <1>3 DEF Crash, Abandon
  <1> QED
    BY <1>1, <1>2, <1>3 DEF Next

(* The invariant is inductive. *)
LEMMA InvKept ==
  ASSUME Inv, [Next]_vars
  PROVE  Inv'
  <1>1. CASE UNCHANGED vars
    <2>1. free' = free /\ ent' = ent /\ s' = s /\ lost' = lost
      BY <1>1 DEF vars
    <2> QED
      BY <2>1 DEF Inv
  <1>2. CASE Next
    <2> SUFFICES ASSUME lost' # "files" PROVE Good(free', ent', s', lost')
      BY DEF Inv
    <2>1. Good(free, ent, s, lost)
      BY <1>2, LostStays DEF Inv
    <2>2. CASE Call
      BY <2>1, <2>2, CallKeeps
    <2>3. CASE Step
      BY <2>1, <2>3, StepKeeps
    <2>4. CASE Crash
      BY <2>1, <2>4, CrashKeeps
    <2> QED
      BY <1>2, <2>2, <2>3, <2>4 DEF Next
  <1> QED
    BY <1>1, <1>2

(* In every state the directory, on the disk or in the path's memory, has   *)
(* all of its files whole and apart, and the path agrees with it and with   *)
(* the disk, unless a failure may have cost a file.                         *)
THEOREM InvHolds == Spec => []Inv
  <1>1. Init => Inv
    BY InitGood DEF Inv
  <1>2. Inv /\ [Next]_vars => Inv'
    BY InvKept
  <1> QED
    BY <1>1, <1>2, PTL DEF Spec

(* Files apart from each other and from the free sectors share none. *)
LEMMA InvSharesNothing == Inv => NoSharedSector
  <1> SUFFICES ASSUME Inv, lost # "files"
               PROVE  /\ Safe(FreeNow, EntNow)
                      /\ Spare(s) \cap (FreeNow \cup System) = {}
                      /\ \A i \in Files(EntNow) : Spare(s) \cap Held(EntNow, i) = {}
    BY DEF NoSharedSector
  <1>1. Good(free, ent, s, lost)
    BY DEF Inv
  <1>2. CASE HasTrack(s)
    <2>1. FreeNow = s.free /\ EntNow = s.ent
      BY <1>2 DEF FreeNow, EntNow, HasPath, HasTrack
    <2>2. PICK f, e, x : f = s.free /\ e = s.ent /\ x = Spare(s)
      OBVIOUS
    <2>3. e \in Table /\ Chained(e) /\ Apart(f, e, x)
      BY <1>1, <1>2, <2>2, GoodIs
    <2>4. Safe(f, e)
      BY <2>3, DirectoryIsSafe
    <2>5. x \cap (f \cup System) = {} /\ \A i \in Files(e) : x \cap Held(e, i) = {}
      BY <2>3 DEF Apart
    <2> QED
      BY <2>1, <2>2, <2>4, <2>5
  <1>3. CASE ~ HasTrack(s)
    <2>1. FreeNow = free /\ EntNow = ent
      BY <1>3 DEF FreeNow, EntNow, HasPath, HasTrack
    <2>2. ent \in Table /\ Chained(ent) /\ Apart(free, ent, {})
      BY <1>1, <1>3 DEF Good, OnDisk, IsDirectory
    <2>3. Safe(free, ent)
      BY <2>2, DirectoryIsSafe
    <2>4. Spare(s) = {}
      BY <1>1, <1>3, NoSpareIsNone DEF Good, Control, HasTrack
    <2> QED
      BY <2>1, <2>3, <2>4
  <1> QED
    BY <1>2, <1>3

(* No sector is in two files, twice in one, or in the directory track, and  *)
(* none of a file's is free or in reserve: grow and _dd_truncate give each  *)
(* sector to one file, through all that can fail.                           *)
THEOREM NoSectorIsShared == Spec => []NoSharedSector
  BY InvHolds, InvSharesNothing, PTL

(* Files and free sectors that are exact have lost none. *)
LEMMA InvLosesNothing == Inv => NoSectorLost
  <1> SUFFICES ASSUME Inv, s.pc \in {"idle", "open"}, lost = "nothing"
               PROVE  Exact(FreeNow, EntNow, Spare(s))
    BY DEF NoSectorLost, Exact
  <1>1. Good(free, ent, s, lost)
    BY DEF Inv
  <1>2. CASE s.pc = "open"
    <2>1. FreeNow = s.free /\ EntNow = s.ent /\ HasTrack(s)
      BY <1>2 DEF FreeNow, EntNow, HasPath, HasTrack
    <2> QED
      BY <1>1, <2>1 DEF Good, IsDirectory
  <1>3. CASE s.pc = "idle"
    <2>1. FreeNow = free /\ EntNow = ent /\ ~ HasTrack(s)
      BY <1>3 DEF FreeNow, EntNow, HasPath, HasTrack
    <2>2. Spare(s) = {}
      BY <1>1, <1>3, NoSpareIsNone DEF Good, Control
    <2> QED
      BY <1>1, <2>1, <2>2 DEF Good, IsDirectory
  <1> QED
    BY <1>2, <1>3

(* Between calls, as long as nothing failed, every sector and every entry   *)
(* that is not free is a file's, or in reserve of the open path.            *)
THEOREM NoSectorIsLost == Spec => []NoSectorLost
  BY InvHolds, InvLosesNothing, PTL

(* The sizes the invariant keeps are those the property compares. *)
LEMMA InvSizesAgree == Inv => SizeAgrees
  BY DEF Inv, SizeAgrees, Good, Sizes, Sized

(* Between calls the open file has the size and the sectors its path says.  *)
THEOREM SizesAgree == Spec => []SizeAgrees
  BY InvHolds, InvSizesAgree, PTL

(* Failing writes and crashes leave no file with another's sectors, and the *)
(* open path with the size its entries have: a growth, or a write, whose    *)
(* next step fails is undone to what was there before (_dd_extend,          *)
(* _dragondos_write).                                                          *)
THEOREM FilesStayWhole == Spec => []FilesWhole
  <1>1. NoSharedSector /\ SizeAgrees => FilesWhole
    BY DEF FilesWhole
  <1> QED
    BY <1>1, NoSectorIsShared, SizesAgree, PTL

-----------------------------------------------------------------------------
(* What is on the disk while a file grows *)

(* A disk that lags behind a directory has its files, and of each no more   *)
(* than the beginning.                                                      *)
LEMMA LagIs ==
  ASSUME NEW e \in Table, NEW h \in Table, Chained(h), Lags(e, h), NEW i \in Files(e)
  PROVE  /\ i \in Files(h) /\ i \in Entry /\ Ended(h, i) /\ Ended(e, i) /\ IsChain(e, i)
         /\ Chain(e, i) = Chain(h, i) /\ LastEntry(e, i) = LastEntry(h, i)
         /\ FileSectors(e, i) \in Seq(Nat) /\ FileSectors(h, i) \in Seq(Nat)
         /\ Begins(FileSectors(e, i), FileSectors(h, i))
         /\ Held(e, i) \subseteq Held(h, i)
  <1>1. i \in Files(h) /\ \A c \in Chain(h, i) : Precedes(e[c], h[c])
    BY DEF Lags
  <1>2. i \in Entry /\ Ended(h, i) /\ IsChain(h, i) /\ FileSectors(h, i) \in Seq(Nat)
    BY <1>1, FilesAre
  <1>3. PICK m \in Nat : Shape(h, i, m)
    BY <1>2, ChainShape
  <1>4. \A c \in Chain(h, i) : e[c].next = h[c].next /\ e[c].kind = h[c].kind
    BY <1>1 DEF Precedes
  <1>5. /\ Walk(e, i) = Walk(h, i) /\ Chain(e, i) = Chain(h, i)
        /\ LastEntry(e, i) = LastEntry(h, i) /\ Shape(e, i, m)
    BY <1>2, <1>3, <1>4, SameChain
  <1>6. Ended(e, i)
    BY <1>5, ShapeEnds
  <1>7. IsChain(e, i)
    BY <1>2, <1>4, <1>5, <1>6 DEF IsChain, Ended
  <1>8. PICK F : FileIs(F, h, i, m)
    BY <1>2, <1>3, FileSectorsAre
  <1>9. PICK G : FileIs(G, e, i, m)
    BY <1>2, <1>5, FileSectorsAre
  <1>10. /\ Chain(h, i) = { Walk(h, i)[a] : a \in 0 .. m }
         /\ \A a \in 0 .. (m - 1) : h[Walk(h, i)[a]].next # NoNext
    BY <1>3 DEF Shape
  <1>11. \A a \in 0 .. (m - 1) :
           SectorsOf(e[Walk(e, i)[a]].ext) = SectorsOf(h[Walk(h, i)[a]].ext)
    <2> SUFFICES ASSUME NEW a \in 0 .. (m - 1)
                 PROVE  SectorsOf(e[Walk(h, i)[a]].ext) = SectorsOf(h[Walk(h, i)[a]].ext)
      BY <1>5
    <2>1. a \in 0 .. m
      OBVIOUS
    <2>2. PICK c \in Chain(h, i) : c = Walk(h, i)[a] /\ h[c].next # NoNext
      BY <1>10, <2>1
    <2> QED
      BY <1>1, <2>2 DEF Precedes
  <1>12. F[m] = G[m]
    <2>1. PICK l \in Nat : l = m
      OBVIOUS
    <2>2. l <= m + 1 /\ Alike(h, i, e, i, l)
      BY <1>11, <2>1 DEF Alike
    <2>3. AgreeUpTo(F, G, l)
      BY <1>2, <1>8, <1>9, <2>2, FilesAgree
    <2>4. m \in 0 .. m
      OBVIOUS
    <2> QED
      BY <2>1, <2>3, <2>4 DEF AgreeUpTo
  <1>13. PICK g \in Seq(Nat), u \in Seq(Nat), v \in Seq(Nat) :
           /\ g = F[m] /\ u = SectorsOf(e[Walk(e, i)[m]].ext) /\ v = SectorsOf(h[Walk(h, i)[m]].ext)
           /\ FileSectors(h, i) = g \o v /\ FileSectors(e, i) = g \o u
    <2>1. EndsWith(F, h, i, m) /\ EndsWith(G, e, i, m)
      BY <1>2, <1>8, <1>9, LastPiece
    <2> QED
      BY <1>12, <2>1 DEF EndsWith
  <1>14. Begins(u, v)
    <2>1. m \in 0 .. m
      OBVIOUS
    <2>2. PICK c \in Chain(h, i) : c = Walk(h, i)[m]
      BY <1>10, <2>1
    <2> QED
      BY <1>1, <1>5, <1>13, <2>2 DEF Precedes
  <1>15. Begins(g \o u, g \o v) /\ g \o u \in Seq(Nat) /\ g \o v \in Seq(Nat)
    BY <1>14, BeginsConcat
  <1>16. PICK a \in Seq(Nat), b \in Seq(Nat) :
           a = FileSectors(e, i) /\ b = FileSectors(h, i) /\ Begins(a, b)
    BY <1>13, <1>15
  <1>17. Range(a) \subseteq Range(b)
    <2>1. DOMAIN a = 1 .. Len(a) /\ DOMAIN b = 1 .. Len(b) /\ Len(a) \in Nat /\ Len(b) \in Nat
      OBVIOUS
    <2>2. ASSUME NEW k \in DOMAIN a
          PROVE  k \in DOMAIN b /\ a[k] = b[k]
      BY <1>16, <2>1 DEF Begins
    <2> QED
      BY <2>2 DEF Range
  <1> QED
    BY <1>1, <1>2, <1>5, <1>6, <1>7, <1>16, <1>17 DEF Held

(* If none of a disk's sectors is free on it then, it is safe.              *)
LEMMA LagIsSafe ==
  ASSUME NEW e \in Table, NEW h \in Table, NEW f, NEW x, NEW g,
         Chained(h), Apart(f, h, x), Lags(e, h),
         \A i \in Files(e) : Held(e, i) \cap g = {}
  PROVE  Safe(g, e)
  <1>1. ASSUME NEW i \in Files(e)
        PROVE  /\ IsChain(e, i) /\ Cardinality(Held(e, i)) = Len(FileSectors(e, i))
               /\ Held(e, i) \cap (g \cup System) = {}
               /\ \A j \in Files(e) \ {i} : Held(e, i) \cap Held(e, j) = {}
    <2>1. /\ i \in Files(h) /\ IsChain(e, i) /\ FileSectors(e, i) \in Seq(Nat)
          /\ FileSectors(h, i) \in Seq(Nat) /\ Begins(FileSectors(e, i), FileSectors(h, i))
          /\ Held(e, i) \subseteq Held(h, i)
      BY LagIs
    <2>2. /\ IsInjective(FileSectors(h, i)) /\ Held(h, i) \subseteq Lsn \ (f \cup x \cup System)
          /\ \A j \in Files(h) \ {i} : Held(h, i) \cap Held(h, j) = {}
      BY <2>1 DEF Apart
    <2>3. IsInjective(FileSectors(e, i))
      BY <2>1, <2>2, InjectiveBegins
    <2>4. Cardinality(Held(e, i)) = Len(FileSectors(e, i))
      BY <2>1, <2>3, CountedOnce DEF Held
    <2>5. ASSUME NEW j \in Files(e) \ {i}
          PROVE  Held(e, i) \cap Held(e, j) = {}
      <3>1. j \in Files(h) \ {i} /\ Held(e, j) \subseteq Held(h, j)
        BY LagIs
      <3> QED
        BY <2>1, <2>2, <3>1
    <2> QED
      BY <2>1, <2>2, <2>4, <2>5
  <1> QED
    BY <1>1 DEF Safe

(* An entry whose file has not grown precedes it.                           *)
LEMMA SameIsPreceded ==
  ASSUME NEW v \in Slot, NEW w \in Slot, v.kind = w.kind, v.next = w.next, v.ext = w.ext
  PROVE  Precedes(v, w)
  <1>1. PICK a \in Seq(Nat) : a = SectorsOf(v.ext)
    BY SectorsOfIs DEF Slot
  <1>2. Begins(a, a)
    BY DEF Begins
  <1> QED
    BY <1>1, <1>2 DEF Precedes

(* A directory lags behind one that differs in names alone.                 *)
LEMMA SameLags ==
  ASSUME NEW e \in Table, NEW h \in Table, Chained(h),
         \A j \in Entry : h[j].kind = e[j].kind /\ h[j].next = e[j].next /\ h[j].ext = e[j].ext
  PROVE  Lags(e, h) /\ Files(e) = Files(h)
  <1>2. ASSUME NEW i \in Files(e)
        PROVE  i \in Files(h) /\ \A c \in Chain(h, i) : Precedes(e[c], h[c])
    <2>1. i \in Files(h) /\ i \in Entry
      BY DEF Files
    <2>2. Chain(h, i) \subseteq Entry
      BY <2>1, ChainType
    <2>3. ASSUME NEW c \in Entry
          PROVE  Precedes(e[c], h[c])
      BY SameIsPreceded, TableIs
    <2> QED
      BY <2>1, <2>2, <2>3
  <1> QED
    BY <1>2 DEF Lags, Files

(* Directory g has r more sectors in the last entry of file i than h.       *)
LongerAt(h, i, g, r) ==
  /\ \A c \in Entry \ {LastEntry(h, i)} : g[c] = h[c]
  /\ g[LastEntry(h, i)].kind = h[LastEntry(h, i)].kind
  /\ g[LastEntry(h, i)].next = h[LastEntry(h, i)].next
  /\ SectorsOf(g[LastEntry(h, i)].ext) = SectorsOf(h[LastEntry(h, i)].ext) \o r

(* They have the same files, of the same entries.                           *)
SameLinks(h, g) == Files(g) = Files(h) /\ \A j \in Entry : g[j].next = h[j].next

(* A file grows at its last entry: what lagged behind it still does.        *)
LEMMA GrownLags ==
  ASSUME NEW e \in Table, NEW h \in Table, Chained(h), Lags(e, h), NEW i \in Files(h),
         NEW g \in Table, NEW r \in Seq(Nat), LongerAt(h, i, g, r)
  PROVE  Lags(e, g) /\ SameLinks(h, g)
  <1> DEFINE z == LastEntry(h, i)
  <1>0. /\ \A c \in Entry \ {z} : g[c] = h[c]
        /\ g[z].kind = h[z].kind /\ g[z].next = h[z].next
        /\ SectorsOf(g[z].ext) = SectorsOf(h[z].ext) \o r
    BY DEF LongerAt
  <1>1. i \in Entry /\ Ended(h, i) /\ z \in Chain(h, i) /\ z \in Entry /\ h[z].next = NoNext
    BY FilesAre, ChainType DEF Ended
  <1>2. \A c \in Entry : g[c].next = h[c].next /\ g[c].kind = h[c].kind
    BY <1>0, <1>1
  <1>3. Files(g) = Files(h)
    BY <1>2 DEF Files
  <1>4. ASSUME NEW j \in Files(e)
        PROVE  j \in Files(g) /\ \A c \in Chain(g, j) : Precedes(e[c], g[c])
    <2>1. j \in Files(h) /\ \A c \in Chain(h, j) : Precedes(e[c], h[c])
      BY DEF Lags
    <2>2. j \in Entry /\ Ended(h, j) /\ Chain(h, j) \subseteq Entry
      BY <2>1, FilesAre
    <2>3. PICK m \in Nat : Shape(h, j, m)
      BY <2>2, ChainShape
    <2>4. \A c \in Chain(h, j) : g[c].next = h[c].next
      BY <1>2, <2>2
    <2>5. Chain(g, j) = Chain(h, j)
      BY <2>2, <2>3, <2>4, SameChain
    <2>6. ASSUME NEW c \in Chain(h, j)
          PROVE  Precedes(e[c], g[c])
      <3>1. c \in Entry /\ Precedes(e[c], h[c])
        BY <2>1, <2>2
      <3>2. CASE c # z
        BY <1>0, <3>1, <3>2
      <3>3. CASE c = z
        <4>1. PICK u \in Seq(Nat), v \in Seq(Nat) : u = SectorsOf(e[c].ext) /\ v = SectorsOf(h[c].ext)
          BY <3>1, TableIs, SectorsOfIs
        <4>2. Begins(u, v) /\ Begins(v, v \o r) /\ v \o r \in Seq(Nat)
          BY <3>1, <4>1, BeginsIs DEF Precedes
        <4>3. Begins(u, v \o r)
          BY <4>2, BeginsTransitive
        <4>4. SectorsOf(g[c].ext) = v \o r /\ g[c].next = NoNext /\ g[c].kind = h[c].kind
              /\ h[c].next = NoNext
          BY <1>0, <1>1, <1>2, <3>3, <4>1
        <4> HIDE DEF z
        <4> QED
          BY <3>1, <4>1, <4>3, <4>4 DEF Precedes
      <3> QED
        BY <3>2, <3>3
    <2> QED
      BY <1>3, <2>1, <2>5, <2>6
  <1> QED
    BY <1>2, <1>3, <1>4 DEF Lags, SameLinks

(* Of two beginnings the shorter begins the longer.                         *)
LEMMA ShorterBegins ==
  ASSUME NEW a \in Seq(Nat), NEW b \in Seq(Nat), NEW c \in Seq(Nat), Begins(a, c), Begins(b, c),
         Len(a) <= Len(b)
  PROVE  Begins(a, b)
  BY DEF Begins

(* Sectors of the directory track are written: what is on the disk lags     *)
(* behind the directory in memory all the same.                             *)
LEMMA WriteLags ==
  ASSUME NEW e \in Table, NEW h \in Table, Chained(h), Lags(e, h), NEW g \in Table,
         \A j \in Entry : g[j] = e[j] \/ g[j] = h[j],
         \A i \in Files(h) \ Files(e) : h[i].next = NoNext
  PROVE  Lags(g, h) /\ Files(e) \subseteq Files(g)
  <1>1. Files(e) \subseteq Files(h)
    BY DEF Lags
  <1>2. Files(e) \subseteq Files(g)
    BY <1>1 DEF Files
  <1>3. ASSUME NEW i \in Files(g)
        PROVE  i \in Files(h) /\ \A c \in Chain(h, i) : Precedes(g[c], h[c])
    <2>1. i \in Entry /\ i \in Files(h)
      BY <1>1 DEF Files
    <2>2. Chain(h, i) \subseteq Entry
      BY <2>1, ChainType
    <2>3. \A c \in Entry : Precedes(h[c], h[c])
      BY TableIs, SameIsPreceded
    <2>4. CASE i \in Files(e)
      BY <2>1, <2>2, <2>3, <2>4 DEF Lags
    <2>5. CASE i \notin Files(e)
      <3>1. h[i].next = NoNext
        BY <2>1, <2>5
      <3>2. Chain(h, i) = {i}
        BY <2>1, <3>1, AloneChain
      <3>3. g[i] = h[i]
        BY <2>1, <2>5 DEF Files
      <3> QED
        BY <2>1, <2>3, <3>2, <3>3
    <2> QED
      BY <2>4, <2>5
  <1> QED
    BY <1>2, <1>3 DEF Lags

-----------------------------------------------------------------------------
(* Steps that leave the directory as it is *)

Growing5 == {"swap", "allocate", "use", "grown", "data"}

(* With no path open the disk is the directory.                             *)
LEMMA KeptAtRest ==
  ASSUME NEW f, NEW e, NEW r, NEW l, Good(f, e, r, l), ~ HasTrack(r)
  PROVE  Kept(f, e, r)
  <1>1. e \in Table /\ IsDirectory(f, e, {}, l)
    BY DEF Good, OnDisk
  <1>2. Safe(f, e)
    BY <1>1, DirectoryIsSafe DEF IsDirectory
  <1> QED
    BY <1>2 DEF Kept

(* A path whose directory stays the same has no less of it on the disk.     *)
LEMMA KeptStill ==
  ASSUME NEW f, NEW e, NEW r, NEW q, Kept(f, e, r), HasTrack(r), q.ent = r.ent, q.cut = r.cut,
         q.job = "file" => r.job = "file" /\ q.idx = r.idx,
         q.pc \in Growing5 =>
           \/ r.pc \in Growing5 /\ q.old = r.old /\ q.idx = r.idx
           \/ Lags(e, r.ent) => Len(FileSectors(e, q.idx)) <= SectorsFor(q.old)
  PROVE  Kept(f, e, q)
  BY DEF Kept, Trails, Growing5

(* What the disk has of the open file is no more than its size asks for.    *)
LEMMA TrailsBehind ==
  ASSUME NEW f, NEW e, NEW r, NEW l, Good(f, e, r, l), HasTrack(r), Kept(f, e, r), ~ r.cut,
         r.job = "file"
  PROVE  /\ e \in Table /\ r.ent \in Table /\ Chained(r.ent) /\ Lags(e, r.ent)
         /\ r.idx \in Files(e) /\ r.idx \in Files(r.ent)
         /\ Len(FileSectors(e, r.idx)) \in Nat /\ Len(FileSectors(r.ent, r.idx)) \in Nat
         /\ Len(FileSectors(e, r.idx)) <= Len(FileSectors(r.ent, r.idx))
  <1>1. e \in Table /\ r.ent \in Table /\ Chained(r.ent)
    BY GoodIs DEF OnDisk
  <1>2. Lags(e, r.ent) /\ r.idx \in Files(e)
    BY DEF Kept, Trails
  <1>3. PICK a \in Seq(Nat), b \in Seq(Nat) :
          /\ a = FileSectors(e, r.idx) /\ b = FileSectors(r.ent, r.idx) /\ Begins(a, b)
          /\ r.idx \in Files(r.ent)
    BY <1>1, <1>2, LagIs
  <1> QED
    BY <1>1, <1>2, <1>3 DEF Begins

(* Where the disk and the path first differ in a file of m + 1 entries of   *)
(* which the first m have F[m]: in the last one.                            *)
Reaches(e, h, i, m, F) ==
  /\ Shape(h, i, m) /\ FileIs(F, h, i, m) /\ Walk(e, i) = Walk(h, i) /\ F[m] \in Seq(Nat)
  /\ FileSectors(e, i) = F[m] \o SectorsOf(e[Walk(h, i)[m]].ext)
  /\ SectorsOf(e[Walk(h, i)[m]].ext) \in Seq(Nat)

(* What the disk and the path have of a file is the same up to its last     *)
(* entry.                                                                   *)
LEMMA LagReaches ==
  ASSUME NEW e \in Table, NEW h \in Table, Chained(h), Lags(e, h), NEW i \in Files(e)
  PROVE  \E m \in Nat : \E F : Reaches(e, h, i, m, F)
  <1>1. i \in Files(h) /\ \A c \in Chain(h, i) : Precedes(e[c], h[c])
    BY DEF Lags
  <1>2. i \in Entry /\ Ended(h, i)
    BY <1>1, FilesAre
  <1>3. PICK m \in Nat : Shape(h, i, m)
    BY <1>2, ChainShape
  <1>4. \A c \in Chain(h, i) : e[c].next = h[c].next
    BY <1>1 DEF Precedes
  <1>5. Walk(e, i) = Walk(h, i) /\ Shape(e, i, m)
    BY <1>2, <1>3, <1>4, SameChain
  <1>6. PICK F : FileIs(F, h, i, m)
    BY <1>2, <1>3, FileSectorsAre
  <1>7. PICK G : FileIs(G, e, i, m)
    BY <1>2, <1>5, FileSectorsAre
  <1>8. /\ Chain(h, i) = { Walk(h, i)[a] : a \in 0 .. m }
        /\ \A a \in 0 .. (m - 1) : h[Walk(h, i)[a]].next # NoNext
    BY <1>3 DEF Shape
  <1>9. \A a \in 0 .. (m - 1) :
          SectorsOf(e[Walk(e, i)[a]].ext) = SectorsOf(h[Walk(h, i)[a]].ext)
    <2> SUFFICES ASSUME NEW a \in 0 .. (m - 1)
                 PROVE  SectorsOf(e[Walk(h, i)[a]].ext) = SectorsOf(h[Walk(h, i)[a]].ext)
      BY <1>5
    <2>1. a \in 0 .. m
      OBVIOUS
    <2>2. PICK c \in Chain(h, i) : c = Walk(h, i)[a] /\ h[c].next # NoNext
      BY <1>8, <2>1
    <2> QED
      BY <1>1, <2>2 DEF Precedes
  <1>10. F[m] = G[m]
    <2>1. PICK l \in Nat : l = m
      OBVIOUS
    <2>2. l <= m + 1 /\ Alike(h, i, e, i, l)
      BY <1>9, <2>1 DEF Alike
    <2>3. AgreeUpTo(F, G, l)
      BY <1>2, <1>6, <1>7, <2>2, FilesAgree
    <2>4. m \in 0 .. m
      OBVIOUS
    <2> QED
      BY <2>1, <2>3, <2>4 DEF AgreeUpTo
  <1>11. EndsWith(G, e, i, m)
    BY <1>2, <1>7, LastPiece
  <1> QED
    BY <1>3, <1>5, <1>6, <1>10, <1>11 DEF Reaches, EndsWith

(* A file that is cut to no less than the disk has of it is cut in its last *)
(* entry.                                                                   *)
LEMMA CutsLast ==
  ASSUME NEW e \in Table, NEW h \in Table, Chained(h), Lags(e, h), NEW i \in Files(e),
         \A j \in Entry : Sound(e[j]),
         NEW q \in Nat, Len(FileSectors(e, i)) <= q, q <= Len(FileSectors(h, i)),
         NEW m \in Nat, NEW F, Reaches(e, h, i, m, F)
  PROVE  CutAt(h, i, m, F, m, q)
  <1> DEFINE w == Walk(h, i)
  <1>1. i \in Entry /\ IsChain(e, i) /\ Chain(e, i) = Chain(h, i)
    BY LagIs
  <1>2. PICK r \in 0 .. m : CutAt(h, i, m, F, r, q)
    BY <1>1, CutPlace DEF Reaches
  <1>3. r = m
    <2> SUFFICES ASSUME r # m PROVE FALSE
      OBVIOUS
    <2>1. m \in 0 .. m /\ 0 \in 0 .. m /\ m # 0 /\ r + 1 \in 0 .. m /\ r + 1 \in 0 .. (m + 1)
          /\ m \in (r + 1) .. (m + 1)
      BY <1>2
    <2>2. /\ Chain(h, i) = { w[k] : k \in 0 .. m } /\ w[0] = i
          /\ \A a, b \in 0 .. m : w[a] = w[b] => a = b
      BY <1>1, WalkType DEF Reaches, Shape
    <2>3. w[m] \in Chain(e, i) \ {i} /\ w[m] \in Entry
      <3>1. w[m] \in Chain(h, i) /\ w[m] # w[0]
        BY <2>1, <2>2
      <3> QED
        BY <1>1, <2>2, <3>1, ChainType
    <2>4. e[w[m]].kind = "more"
      BY <1>1, <2>3 DEF IsChain
    <2>5. Range(SectorsOf(e[w[m]].ext)) # {}
      BY <2>3, <2>4, SoundSectors DEF Sound
    <2>6. PICK u \in Seq(Nat) : u = SectorsOf(e[w[m]].ext)
      BY DEF Reaches
    <2>7. Len(u) \in Nat /\ Len(u) # 0
      <3>1. ASSUME Len(u) = 0 PROVE FALSE
        <4>1. u = << >>
          BY <3>1
        <4> QED
          BY <2>5, <2>6, <4>1 DEF Range
      <3> QED
        BY <3>1
    <2>8. PICK v \in Seq(Nat) : v = F[m] /\ FileSectors(e, i) = v \o u
      BY <2>6 DEF Reaches
    <2>9. Len(v \o u) = Len(v) + Len(u) /\ Len(v) \in Nat
      BY ConcatProperties
    <2>10. Len(F[r + 1]) <= Len(F[m])
      BY <1>1, <2>1, LengthsGrow DEF Reaches
    <2>11. Len(F[r + 1]) \in Nat /\ Len(F[r + 1]) >= q
      <3>1. Len(F[r + 1]) \in Nat
        BY <1>1, <2>1, LengthsGrow DEF Reaches
      <3> QED
        BY <1>2, <3>1 DEF CutAt
    <2>12. PICK a \in Nat, b \in Nat, c \in Nat :
             a = Len(u) /\ b = Len(v) /\ c = Len(F[r + 1]) /\ a # 0 /\ c <= b /\ c >= q /\ b + a <= q
      BY <2>7, <2>8, <2>9, <2>10, <2>11
    <2> QED
      BY <2>12
  <1> QED
    BY <1>2, <1>3

(* What that leaves of the file.                                            *)
EndCut(h, g, i) ==
  /\ g \in Table /\ \A c \in Entry \ {LastEntry(h, i)} : g[c] = h[c]
  /\ g[LastEntry(h, i)].kind = h[LastEntry(h, i)].kind
  /\ g[LastEntry(h, i)].next = h[LastEntry(h, i)].next

(* What a cut in the last entry does to that entry, and to it alone.        *)
LEMMA CutsEnd ==
  ASSUME NEW h \in Table, NEW i \in Entry, NEW m \in Nat, Shape(h, i, m),
         NEW F, FileIs(F, h, i, m), NEW size \in Nat, CutAt(h, i, m, F, m, SectorsFor(size)),
         NEW g, g = Truncated(h, i, size)
  PROVE  /\ EndCut(h, g, i)
         /\ LET x == h[LastEntry(h, i)].ext
                y == g[LastEntry(h, i)].ext
            IN  /\ Begins(SectorsOf(y), SectorsOf(x)) /\ SectorsOf(x) \in Seq(Nat)
                /\ SectorsOf(y) \in Seq(Nat)
                /\ Len(SectorsOf(y)) = SectorsFor(size) - Len(F[m])
  <1> DEFINE w == Walk(h, i)  z == w[m]
  <1>1. /\ m \in 0 .. m /\ LastEntry(h, i) = z /\ h[z].next = NoNext
        /\ Chain(h, i) = { w[k] : k \in 0 .. m } /\ z \in Entry
    <2>1. z \in Entry
      BY WalkType
    <2>2. m \in 0 .. m
      OBVIOUS
    <2> QED
      BY <2>1, <2>2 DEF Shape
  <1>2. /\ \A c \in Entry \ Chain(h, i) : g[c] = h[c]
        /\ \A k \in 0 .. (m - 1) : g[w[k]] = h[w[k]]
        /\ g[z].kind = h[z].kind /\ g[z].next = NoNext
        /\ SectorsFor(size) - Len(F[m]) \in 0 .. Len(SectorsOf(h[z].ext))
        /\ g[z].ext = CutExtents(h[z].ext, SectorsFor(size) - Len(F[m]))
        /\ g \in Table
    BY <1>1, CutPieces
  <1>3. ASSUME NEW c \in Entry \ {z} PROVE g[c] = h[c]
    <2>1. CASE c \in Chain(h, i)
      <3>1. PICK k \in 0 .. m : c = w[k]
        BY <1>1, <2>1
      <3>2. k \in 0 .. (m - 1)
        BY <1>3, <3>1
      <3> QED
        BY <1>2, <3>1, <3>2
    <2> QED
      BY <1>2, <1>3, <2>1
  <1>4. h[z].ext \in Seq(AnyExtent)
    BY <1>1, TableIs
  <1>5. HasFirst(h[z].ext, g[z].ext, SectorsFor(size) - Len(F[m]))
    BY <1>2, <1>4, CutExtentsIs
  <1>6. SectorsOf(h[z].ext) \in Seq(Nat) /\ SectorsOf(g[z].ext) \in Seq(Nat)
    BY <1>4, <1>5, SectorsOfIs DEF HasFirst
  <1> HIDE DEF z
  <1> QED
    BY <1>1, <1>2, <1>3, <1>5, <1>6 DEF HasFirst, EndCut

(* Such a cut leaves what is on the disk behind the path.                   *)
LEMMA CutLags ==
  ASSUME NEW e \in Table, NEW h \in Table, Chained(h), Lags(e, h), NEW i \in Files(e),
         \A j \in Entry : Sound(e[j]),
         NEW size \in Nat, Len(FileSectors(e, i)) <= SectorsFor(size),
         SectorsFor(size) <= Len(FileSectors(h, i)),
         NEW g, g = Truncated(h, i, size)
  PROVE  Lags(e, g) /\ Files(g) = Files(h) /\ \A j \in Entry : g[j].next = h[j].next
  <1> DEFINE z == LastEntry(h, i)
  <1>1. i \in Entry /\ i \in Files(h) /\ Ended(h, i) /\ z \in Chain(h, i) /\ z \in Entry
        /\ SectorsFor(size) \in Nat
    <2>1. i \in Entry /\ i \in Files(h) /\ Ended(h, i)
      BY LagIs
    <2> QED
      BY <2>1, ChainType, SizesAre
  <1>2. PICK m \in Nat : \E F : Reaches(e, h, i, m, F)
    BY LagReaches
  <1>3. PICK F : Reaches(e, h, i, m, F)
    BY <1>2
  <1>4. CutAt(h, i, m, F, m, SectorsFor(size))
    BY <1>1, <1>3, CutsLast
  <1>5. Shape(h, i, m) /\ FileIs(F, h, i, m) /\ z = Walk(h, i)[m]
    BY <1>3 DEF Reaches, Shape
  <1>6. EndCut(h, g, i)
    BY <1>1, <1>4, <1>5, CutsEnd
  <1>7. PICK x \in Seq(Nat), y \in Seq(Nat), n \in Nat :
          /\ x = SectorsOf(h[z].ext) /\ y = SectorsOf(g[z].ext) /\ Begins(y, x)
          /\ n = Len(F[m]) /\ Len(y) = SectorsFor(size) - n
    <2>1. Len(F[m]) \in Nat
      BY <1>3 DEF Reaches
    <2>2. /\ Begins(SectorsOf(g[LastEntry(h, i)].ext), SectorsOf(h[LastEntry(h, i)].ext))
          /\ SectorsOf(h[LastEntry(h, i)].ext) \in Seq(Nat)
          /\ SectorsOf(g[LastEntry(h, i)].ext) \in Seq(Nat)
          /\ Len(SectorsOf(g[LastEntry(h, i)].ext)) = SectorsFor(size) - Len(F[m])
      BY <1>1, <1>4, <1>5, CutsEnd
    <2> QED
      BY <2>1, <2>2
  <1>8. PICK u \in Seq(Nat) : u = SectorsOf(e[z].ext) /\ Begins(u, x)
    <2>1. Precedes(e[z], h[z])
      BY <1>1 DEF Lags
    <2> QED
      BY <1>3, <1>5, <1>7, <2>1 DEF Precedes, Reaches
  <1>9. Len(u) <= Len(y)
    <2>1. PICK v \in Seq(Nat) : v = F[m] /\ FileSectors(e, i) = v \o u
      BY <1>3, <1>5, <1>8 DEF Reaches
    <2>2. Len(v \o u) = n + Len(u) /\ Len(u) \in Nat
      BY <1>7, <2>1, ConcatProperties
    <2>3. n + Len(u) <= SectorsFor(size)
      BY <2>1, <2>2
    <2> QED
      BY <1>1, <1>7, <2>2, <2>3
  <1>10. Begins(u, y)
    BY <1>7, <1>8, <1>9, ShorterBegins
  <1>11. \A c \in Entry : g[c].next = h[c].next /\ g[c].kind = h[c].kind
    BY <1>6 DEF EndCut
  <1>12. Files(g) = Files(h)
    BY <1>11 DEF Files
  <1>13. ASSUME NEW j \in Files(e)
         PROVE  j \in Files(g) /\ \A c \in Chain(g, j) : Precedes(e[c], g[c])
    <2>1. j \in Files(h) /\ \A c \in Chain(h, j) : Precedes(e[c], h[c])
      BY DEF Lags
    <2>2. j \in Entry /\ Ended(h, j) /\ Chain(h, j) \subseteq Entry
      BY <2>1, FilesAre
    <2>3. PICK k \in Nat : Shape(h, j, k)
      BY <2>2, ChainShape
    <2>4. \A c \in Chain(h, j) : g[c].next = h[c].next
      BY <1>11, <2>2
    <2>5. Chain(g, j) = Chain(h, j)
      BY <1>6, <2>2, <2>3, <2>4, SameChain DEF EndCut
    <2>6. ASSUME NEW c \in Chain(h, j)
          PROVE  Precedes(e[c], g[c])
      <3>1. c \in Entry /\ Precedes(e[c], h[c])
        BY <2>1, <2>2
      <3>2. CASE c # z
        BY <1>6, <3>1, <3>2 DEF EndCut
      <3>3. CASE c = z
        <4>1. g[c].kind = h[c].kind /\ g[c].next = h[c].next /\ h[c].next = NoNext
          BY <1>1, <1>11, <3>3 DEF Ended
        <4> HIDE DEF z
        <4> QED
          BY <1>7, <1>8, <1>10, <3>1, <3>3, <4>1 DEF Precedes
      <3> QED
        BY <3>2, <3>3
    <2> QED
      BY <1>12, <2>1, <2>5, <2>6
  <1> QED
    BY <1>11, <1>12, <1>13 DEF Lags

(* A step after which the path may cost the file its end, or that leaves    *)
(* none, says nothing more of the disk than the invariant does.             *)
LEMMA KeptAnyway ==
  ASSUME NEW f, NEW e, NEW r, NEW l, Good(f, e, r, l), r.cut = TRUE \/ ~ HasTrack(r)
  PROVE  Kept(f, e, r)
  BY KeptAtRest DEF Kept

(* A step that leaves the disk and the directory in memory as they are.     *)
Still ==
  /\ free' = free /\ ent' = ent /\ s'.ent = s.ent /\ s'.cut = s.cut /\ s'.idx = s.idx
  /\ HasTrack(s) /\ HasTrack(s')

(* The calls that change no entry.                                          *)
QuietCalls ==
  \/ \E pos \in Positions : Seek(pos)
  \/ \E size \in SetSizes : SetSize(size) /\ size = s.size
  \/ Close

(* The steps of a call on an open file that change no entry.                *)
QuietSteps == KeepSpare \/ Overflow \/ PutSector \/ Swap \/ Allocate

(* Seeking, closing and setting the size a file has are such steps.         *)
LEMMA QuietCallsAre ==
  ASSUME Good(free, ent, s, lost), QuietCalls
  PROVE  Still /\ s'.pc \notin Growing5 /\ s.job = "file"
  <1>1. s.pc = "open"
    BY DEF QuietCalls, Seek, SetSize, Close
  <1>2. HasTrack(s) /\ s \in PathState /\ s.job = "file"
    BY <1>1, OpenIs
  <1>3. /\ s'.ent = s.ent /\ s'.cut = s.cut /\ s'.idx = s.idx /\ s'.pc \in {"open", "flush"}
        /\ free' = free /\ ent' = ent
    <2>1. CASE \E pos \in Positions : Seek(pos)
      <3>1. PICK pos \in Positions : s' = [s EXCEPT !.pos = pos] /\ free' = free /\ ent' = ent
        BY <2>1 DEF Seek, Memory
      <3>2. s'.ent = s.ent /\ s'.cut = s.cut /\ s'.pc = s.pc /\ s'.idx = s.idx
        BY <1>2, <3>1 DEF PathState
      <3> QED
        BY <1>1, <3>1, <3>2
    <2>2. CASE \E size \in SetSizes : SetSize(size) /\ size = s.size
      <3>1. PICK size \in SetSizes : SetSize(size) /\ size = s.size
        BY <2>2
      <3>2. ~ (size > s.size) /\ ~ (size < s.size)
        BY <1>2, <3>1 DEF PathState
      <3>3. s' = [s EXCEPT !.pc = "flush"] /\ free' = free /\ ent' = ent
        BY <3>1, <3>2 DEF SetSize, Memory
      <3>4. s'.ent = s.ent /\ s'.cut = s.cut /\ s'.pc = "flush" /\ s'.idx = s.idx
        BY <1>2, <3>3 DEF PathState
      <3> QED
        BY <3>3, <3>4
    <2>3. CASE Close
      <3>1. PICK g, d : s' = [s EXCEPT !.pc = "flush", !.job = "close", !.spare = NoSpare,
                                       !.free = g, !.dirty = d]
                        /\ free' = free /\ ent' = ent
        BY <2>3 DEF Close, Memory
      <3>2. s'.ent = s.ent /\ s'.cut = s.cut /\ s'.pc = "flush" /\ s'.idx = s.idx
        BY <1>2, <3>1 DEF PathState
      <3> QED
        BY <3>1, <3>2
    <2> QED
      BY <2>1, <2>2, <2>3 DEF QuietCalls
  <1>4. HasTrack(s') /\ s'.pc \notin Growing5
    BY <1>3 DEF HasTrack, Growing5
  <1> QED
    BY <1>2, <1>3, <1>4 DEF Still

(* They leave on the disk what it has.                                      *)
LEMMA QuietCallsKept ==
  ASSUME Good(free, ent, s, lost), Kept(free, ent, s), QuietCalls
  PROVE  Kept(free', ent', s')
  <1>1. Still /\ s'.pc \notin Growing5 /\ s.job = "file"
    BY QuietCallsAre
  <1>2. Kept(free, ent, s')
    BY <1>1, KeptStill DEF Still
  <1> QED
    BY <1>1, <1>2 DEF Still

(* The steps of a call on an open file that leave its entries as they are.  *)
LEMMA QuietStepsAre ==
  ASSUME Good(free, ent, s, lost), QuietSteps
  PROVE  Still /\ s.pc \in Growing5 /\ s.job = "file" /\ s'.old = s.old
  <1>1. s.pc \in Growing5 /\ s.job = "file" /\ HasTrack(s) /\ s \in PathState
    BY DEF QuietSteps, KeepSpare, Overflow, PutSector, Swap, Allocate, Growing5, Good, Control,
           HasTrack
  <1>2. free' = free /\ ent' = ent
    BY DEF QuietSteps, KeepSpare, Overflow, PutSector, Swap, Allocate, Memory
  <1>3. /\ s'.ent = s.ent /\ s'.cut = s.cut /\ s'.idx = s.idx /\ s'.old = s.old
        /\ s'.pc \in {"use", "data", "flush"}
    <2>1. CASE KeepSpare
      <3>1. s' = [s EXCEPT !.pc = "use", !.fresh = TRUE]
        BY <2>1 DEF KeepSpare, Memory
      <3> QED
        BY <1>1, <3>1 DEF PathState
    <2>2. CASE Overflow
      <3>1. s' = [s EXCEPT !.fresh = TRUE] /\ s.pc = "use"
        BY <2>2 DEF Overflow, Memory
      <3> QED
        BY <1>1, <3>1 DEF PathState
    <2>3. CASE PutSector
      <3>1. /\ s.pc = "data"
            /\ \/ s' = [s EXCEPT !.pos = EndOfSector]
               \/ s' = [s EXCEPT !.pos = s.goal, !.pc = "flush"]
        BY <2>3 DEF PutSector, Memory
      <3> QED
        BY <1>1, <3>1 DEF PathState
    <2>4. CASE Swap
      <3>1. PICK m : Memory(WithRun([s EXCEPT !.free = s.free \cup Spare(s),
                              !.dirty = s.dirty \cup TrackSectors(Spare(s), {})], m))
        BY <2>4 DEF Swap
      <3>2. PICK a, b, c, d : s' = [[s EXCEPT !.free = a, !.dirty = b]
              EXCEPT !.pc = "use", !.spare = c, !.free = d,
                     !.dirty = [s EXCEPT !.free = a, !.dirty = b].dirty \cup TrackSectors(
                                  Sectors(m, RunFrom(s.free, m)), {}),
                     !.fresh = LastExtents = << >> \/ m # s.hint]
        BY <3>1 DEF WithRun, Memory
      <3> QED
        BY <1>1, <3>2 DEF PathState
    <2>5. CASE Allocate
      <3>1. PICK m : Memory(WithRun(s, m))
        BY <2>5 DEF Allocate
      <3> QED
        BY <1>1, <3>1 DEF WithRun, Memory, PathState
    <2> QED
      BY <2>1, <2>2, <2>3, <2>4, <2>5 DEF QuietSteps
  <1>4. HasTrack(s')
    BY <1>3 DEF HasTrack
  <1> QED
    BY <1>1, <1>2, <1>3, <1>4 DEF Still

(* So do these.                                                             *)
LEMMA QuietStepsKept ==
  ASSUME Good(free, ent, s, lost), Kept(free, ent, s), QuietSteps
  PROVE  Kept(free', ent', s')
  <1>1. Still /\ s.pc \in Growing5 /\ s.job = "file" /\ s'.old = s.old
    BY QuietStepsAre
  <1>2. Kept(free, ent, s')
    BY <1>1, KeptStill DEF Still
  <1> QED
    BY <1>1, <1>2 DEF Still

(* A call that writes, or makes the file longer, begins with no more of the *)
(* file on the disk than the path has.                                      *)
LEMMA BeginsKept ==
  ASSUME NEW f, NEW e, NEW r, NEW l, Good(f, e, r, l), Kept(f, e, r), r.pc = "open",
         NEW q, q.ent = r.ent, q.cut = r.cut, q.idx = r.idx, q.old = r.size
  PROVE  Kept(f, e, q)
  <1>1. HasTrack(r) /\ Sized(r) /\ r.job = "file"
    BY OpenIs
  <1>2. CASE r.cut
    BY <1>2 DEF Kept
  <1>3. CASE ~ r.cut
    <2>1. Len(FileSectors(e, r.idx)) <= Len(FileSectors(r.ent, r.idx))
      BY <1>1, <1>3, TrailsBehind
    <2>2. Len(FileSectors(e, q.idx)) <= SectorsFor(q.old)
      BY <1>1, <2>1 DEF Sized
    <2> QED
      BY <1>1, <2>2, KeptStill
  <1> QED
    BY <1>2, <1>3

(* The calls that write, or make the file longer.                           *)
WriteCalls ==
  \/ \E k \in WriteSizes : Write(k)
  \/ \E size \in SetSizes : SetSize(size) /\ size > s.size

(* They change no entry, and start from the size the file has.              *)
LEMMA WriteCallsAre ==
  ASSUME Good(free, ent, s, lost), WriteCalls
  PROVE  Still /\ s.pc = "open" /\ s'.old = s.size
  <1>1. s.pc = "open"
    BY DEF WriteCalls, Write, SetSize
  <1>2. s \in PathState /\ HasTrack(s)
    BY <1>1, OpenIs
  <1>3. \/ \E goal, o : s' = [Growing(goal) EXCEPT !.op = o]
        \/ \E goal : s' = [s EXCEPT !.pc = "data", !.op = "write", !.goal = goal, !.old = s.size]
    <2>1. CASE \E k \in WriteSizes : Write(k)
      <3>1. PICK k \in WriteSizes : Write(k)
        BY <2>1
      <3>2. CASE s.pos + k > s.size
        BY <3>1, <3>2 DEF Write, Memory
      <3>3. CASE ~ (s.pos + k > s.size)
        BY <3>1, <3>3 DEF Write, Memory
      <3> QED
        BY <3>2, <3>3
    <2>2. CASE \E size \in SetSizes : SetSize(size) /\ size > s.size
      BY <2>2 DEF SetSize, Memory
    <2> QED
      BY <2>1, <2>2 DEF WriteCalls
  <1>4. /\ s'.ent = s.ent /\ s'.cut = s.cut /\ s'.idx = s.idx /\ s'.old = s.size
        /\ s'.pc \in Growing5
    <2>1. CASE \E goal, o : s' = [Growing(goal) EXCEPT !.op = o]
      <3>1. PICK goal, o : s' = [Growing(goal) EXCEPT !.op = o]
        BY <2>1
      <3>2. GrowsTo(s, s', goal, o)
        BY <1>2, <3>1, GrowingIs
      <3>3. s'.pc \in {"grown", "allocate", "swap", "use"}
        BY <1>2, <3>2 DEF GrowsTo, PathState
      <3> QED
        BY <1>2, <3>2, <3>3 DEF GrowsTo, PathState, Growing5
    <2>2. CASE \E goal : s' = [s EXCEPT !.pc = "data", !.op = "write", !.goal = goal,
                                        !.old = s.size]
      BY <1>2, <2>2 DEF PathState, Growing5
    <2> QED
      BY <1>3, <2>1, <2>2
  <1>5. free' = free /\ ent' = ent
    BY DEF WriteCalls, Write, SetSize, Memory
  <1>6. HasTrack(s')
    BY <1>4 DEF HasTrack, Growing5
  <1> QED
    BY <1>1, <1>2, <1>4, <1>5, <1>6 DEF Still

(* They begin with what the disk has.                                       *)
LEMMA WriteCallsKept ==
  ASSUME Good(free, ent, s, lost), Kept(free, ent, s), WriteCalls
  PROVE  Kept(free', ent', s')
  <1>1. Still /\ s.pc = "open" /\ s'.old = s.size
    BY WriteCallsAre
  <1>2. Kept(free, ent, s')
    BY <1>1, BeginsKept DEF Still
  <1> QED
    BY <1>1, <1>2 DEF Still

(* A path that has just read the directory, or has changed a name in it, or *)
(* has added a file of one entry, has nothing that a failure could cost.    *)
LEMMA LoadedKept ==
  ASSUME NEW f, NEW e \in Table, Chained(e), Apart(f, e, {}), NEW r, r.ent \in Table,
         Lags(e, r.ent), \A i \in Files(r.ent) \ Files(e) : r.ent[i].next = NoNext,
         r.pc \notin Growing5, r.job = "file" => r.idx \in Files(e)
  PROVE  Kept(f, e, r)
  <1>1. Safe(f, e)
    BY DirectoryIsSafe
  <1> QED
    BY <1>1 DEF Kept, Trails, Growing5

(* A step that reads the directory.                                         *)
Loads ==
  /\ ~ HasTrack(s) /\ HasTrack(s') /\ free' = free /\ ent' = ent
  /\ s'.ent \in Table /\ Lags(ent, s'.ent)
  /\ \A i \in Files(s'.ent) \ Files(ent) : s'.ent[i].next = NoNext
  /\ s'.pc \notin Growing5 /\ (s'.job = "file" => s'.idx \in Files(ent))

(* It has nothing that a failure could cost.                                *)
LEMMA LoadsKept ==
  ASSUME Good(free, ent, s, lost), Loads
  PROVE  Kept(free', ent', s')
  <1>1. ent \in Table /\ Chained(ent) /\ Apart(free, ent, {})
    BY DEF Good, OnDisk, IsDirectory, Loads
  <1>2. Kept(free, ent, s')
    BY <1>1, LoadedKept DEF Loads
  <1> QED
    BY <1>2 DEF Loads

(* Opening a file reads the directory: the path and the disk are the same.  *)
LEMMA OpenLoads ==
  ASSUME Good(free, ent, s, lost), NEW n \in Names, Open(n)
  PROVE  Loads
  <1>1. OnDisk(free, ent) /\ IsDirectory(free, ent, {}, lost)
    BY DEF Good, HasTrack, Open
  <1>2. PICK i \in Entry :
          /\ Found(n, i)
          /\ Memory([Loaded(Idle) EXCEPT !.pc = "open", !.job = "file",
                                         !.idx = i, !.size = FileSize(ent, i)])
    BY DEF Open
  <1>3. i \in Files(ent) /\ ent \in Table /\ free \in SUBSET Lsn
    BY <1>1, <1>2, FoundIs DEF OnDisk
  <1>4. s'.ent = ent /\ s'.pc = "open" /\ s'.idx = i
    BY <1>2, IdleIs DEF Memory, Loaded, PathState
  <1>5. Lags(ent, ent)
    BY <1>1, <1>3, SameLags DEF IsDirectory
  <1>6. ~ HasTrack(s) /\ HasTrack(s') /\ s'.pc \notin Growing5
    BY <1>4 DEF HasTrack, Growing5, Open
  <1> QED
    BY <1>2, <1>3, <1>4, <1>5, <1>6 DEF Memory, Loads

(* A new name changes nothing of a file's sectors.                          *)
LEMMA RenameLoads ==
  ASSUME Good(free, ent, s, lost), NEW n \in Names, NEW m \in Names, Rename(n, m), Named(ent, m) = {}
  PROVE  Loads
  <1>1. OnDisk(free, ent) /\ IsDirectory(free, ent, {}, lost)
    BY DEF Good, HasTrack, Rename
  <1>2. PICK i \in Entry :
          /\ Found(n, i)
          /\ Memory([Loaded(Idle) EXCEPT !.pc = "flush", !.job = "rename",
                                         !.ent[i].name = m, !.dirty = TrackSectors({}, {i})])
    BY DEF Rename
  <1>3. i \in Files(ent) /\ ent \in Table /\ free \in SUBSET Lsn
    BY <1>1, <1>2, FoundIs DEF OnDisk
  <1>4. PICK h : h = [ent EXCEPT ![i].name = m]
    OBVIOUS
  <1>5. PICK d : d = TrackSectors({}, {i})
    OBVIOUS
  <1>6. /\ ent[i] \in Slot /\ h[i] = [ent[i] EXCEPT !.name = m]
        /\ \A j \in Entry \ {i} : h[j] = ent[j]
    BY <1>3, <1>4, TableIs DEF Table
  <1>7. /\ h[i] \in Slot /\ h[i].kind = ent[i].kind /\ h[i].next = ent[i].next
        /\ h[i].ext = ent[i].ext
    BY <1>6 DEF Slot
  <1>8. h \in Table
    BY <1>3, <1>4, <1>6, <1>7 DEF Table
  <1>9. s' = [Loaded(Idle) EXCEPT !.pc = "flush", !.job = "rename", !.ent = h, !.dirty = d]
    BY <1>2, <1>4, <1>5, IdleIs DEF Memory, Loaded, PathState
  <1>10. s'.pc = "flush" /\ s'.job = "rename" /\ s'.ent = h
    BY <1>9, IdleIs DEF Loaded, PathState
  <1>11. \A j \in Entry : h[j].kind = ent[j].kind /\ h[j].next = ent[j].next /\ h[j].ext = ent[j].ext
    BY <1>6, <1>7
  <1>12. Chained(h)
    <2>1. \A c \in Entry : /\ h[c].next = ent[c].next /\ h[c].kind = ent[c].kind
                           /\ SectorsOf(h[c].ext) = SectorsOf(ent[c].ext)
      BY <1>11
    <2> QED
      BY <1>1, <1>3, <1>8, <2>1, SameDirectory DEF IsDirectory
  <1>13. Lags(ent, h) /\ Files(ent) = Files(h)
    BY <1>3, <1>8, <1>11, <1>12, SameLags
  <1>14. ~ HasTrack(s) /\ HasTrack(s') /\ s'.pc \notin Growing5
    BY <1>10 DEF HasTrack, Growing5, Rename
  <1> QED
    BY <1>2, <1>8, <1>10, <1>13, <1>14 DEF Memory, Loads

(* A new file has no sectors.                                               *)
LEMMA NewFileLoads ==
  ASSUME Good(free, ent, s, lost), NewFile
  PROVE  Loads
  <1>1. /\ OnDisk(free, ent) /\ IsDirectory(free, ent, {}, lost) /\ s.name \in Names
        /\ s.pc = "create"
    BY DEF Good, HasTrack, NewFile, Control
  <1>2. PICK i \in Entry :
          /\ IsFreeFrom(ent, 0, i)
          /\ Memory([Loaded(Idle) EXCEPT !.pc = "flush", !.job = "new", !.idx = i,
                       !.ent[i] = Header(s.name), !.dirty = TrackSectors({}, {i})])
    BY DEF NewFile
  <1>3. ent[i].kind = "deleted" /\ ent \in Table /\ free \in SUBSET Lsn
    BY <1>1, <1>2 DEF OnDisk, IsFreeFrom
  <1>4. PICK n \in Names : n = s.name
    BY <1>1
  <1>5. PICK h : h = [ent EXCEPT ![i] = Header(n)]
    OBVIOUS
  <1>6. PICK d : d = TrackSectors({}, {i})
    OBVIOUS
  <1>7. Chained(ent) /\ Apart(free, ent, {})
    BY <1>1 DEF IsDirectory
  <1>8. /\ h \in Table /\ Files(h) = Files(ent) \cup {i} /\ Chained(h)
        /\ \A j \in Files(ent) : \A c \in Chain(ent, j) : h[c] = ent[c]
    <2>1. /\ h \in Table /\ Files(h) = Files(ent) \cup {i} /\ Chained(h) /\ Apart(free, h, {})
          /\ Exact(free, ent, {}) => Exact(free, h, {})
          /\ FileSectors(h, i) = << >> /\ FileSize(h, i) = 0
      BY <1>3, <1>5, <1>7, NewIsWith
    <2>2. \A c \in Entry \ {i} : h[c] = ent[c]
      BY <1>3, <1>5 DEF Table
    <2>3. ASSUME NEW j \in Files(ent), NEW c \in Chain(ent, j)
          PROVE  h[c] = ent[c]
      <3>1. c \in Entry /\ ent[c].kind # "deleted"
        BY <1>3, <1>7, FilesAre
      <3> QED
        BY <1>3, <2>2, <3>1
    <2> QED
      BY <2>1, <2>3
  <1>9. s' = [Loaded(Idle) EXCEPT !.pc = "flush", !.job = "new", !.idx = i, !.ent = h, !.dirty = d]
    BY <1>2, <1>4, <1>5, <1>6, IdleIs DEF Memory, Loaded, PathState
  <1>10. s'.pc = "flush" /\ s'.job = "new" /\ s'.ent = h
    BY <1>9, IdleIs DEF Loaded, PathState
  <1>11. Lags(ent, h)
    <2>1. ASSUME NEW j \in Files(ent)
          PROVE  j \in Files(h) /\ \A c \in Chain(h, j) : Precedes(ent[c], h[c])
      <3>1. j \in Files(h) /\ j \in Entry /\ Ended(ent, j) /\ Chain(ent, j) \subseteq Entry
        BY <1>3, <1>7, <1>8, FilesAre
      <3>2. PICK a \in Nat : Shape(ent, j, a)
        BY <1>3, <3>1, ChainShape
      <3>3. \A c \in Chain(ent, j) : h[c] = ent[c]
        BY <1>8
      <3>4. Chain(h, j) = Chain(ent, j)
        BY <1>3, <1>8, <3>1, <3>2, <3>3, SameChain
      <3>5. \A c \in Chain(ent, j) : Precedes(ent[c], h[c])
        BY <1>3, <3>1, <3>3, TableIs, SameIsPreceded
      <3> QED
        BY <3>1, <3>4, <3>5
    <2> QED
      BY <2>1 DEF Lags
  <1>12. \A j \in Files(h) \ Files(ent) : h[j].next = NoNext
    <2>1. h[i] = Header(n)
      BY <1>3, <1>5 DEF Table
    <2> QED
      BY <1>8, <2>1, DeletedIs
  <1>13. ~ HasTrack(s) /\ HasTrack(s') /\ s'.pc \notin Growing5
    BY <1>1, <1>10 DEF HasTrack, Growing5
  <1> QED
    BY <1>2, <1>8, <1>10, <1>11, <1>12, <1>13 DEF Memory, Loads

(* When all is written, the disk has what the path has.                     *)
LEMMA FlushedKept ==
  ASSUME Good(free, ent, s, lost), Flushed, Good(free', ent', s', lost')
  PROVE  Kept(free', ent', s')
  <1>1. /\ s.pc = "flush" /\ s.dirty = {} /\ free' = free /\ ent' = ent
        /\ s' = CASE s.job \in {"file", "new"} -> [Return(s) EXCEPT !.cut = FALSE]
                  [] s.job = "replace" -> [Idle EXCEPT !.pc = "create", !.name = s.name]
                  [] OTHER -> Done("ok")
    BY DEF Flushed, Memory
  <1>2. /\ IsSteady(s) /\ OnDisk(free, ent) /\ s \in PathState
        /\ IsDirectory(s.free, s.ent, Spare(s), lost)
        /\ AgreeBut(free, ent, s.free, s.ent, s.dirty, {})
    BY <1>1, FlushIs DEF IsSteady
  <1>3. CASE s.job \in {"file", "new"}
    <2>1. s' = [Return(s) EXCEPT !.cut = FALSE]
      BY <1>1, <1>3
    <2>2. s'.ent = s.ent /\ s'.pc = "open" /\ s'.idx = s.idx
      BY <1>2, <2>1 DEF Return, PathState
    <2>3. s.free \in SUBSET Lsn /\ s.ent \in Table /\ AgreeBut(free, ent, s.free, s.ent, {}, {})
      BY <1>1, <1>2 DEF PathState
    <2>4. free = s.free /\ ent = s.ent
      BY <1>2, <2>3, AgreeAll
    <2>5. s.idx \in Files(ent)
      BY <1>2, <1>3, <2>4 DEF IsSteady
    <2>6. Chained(ent) /\ Apart(free, ent, Spare(s)) /\ ent \in Table
      BY <1>2, <2>3, <2>4 DEF IsDirectory
    <2>7. Lags(ent, ent) /\ Safe(free, ent)
      BY <2>6, SameLags, DirectoryIsSafe
    <2>8. Kept(free, ent, s')
      BY <2>2, <2>4, <2>5, <2>7 DEF Kept, Trails
    <2> QED
      BY <1>1, <2>8
  <1>4. CASE s.job \notin {"file", "new"}
    <2>1. ~ HasTrack(s')
      <3>1. CASE s.job = "replace"
        <4>1. s' = [Idle EXCEPT !.pc = "create", !.name = s.name]
          BY <1>1, <1>4, <3>1
        <4> QED
          BY <4>1, IdleIs DEF HasTrack, PathState
      <3>2. CASE s.job # "replace"
        <4>1. s' = Done("ok")
          BY <1>1, <1>4, <3>2
        <4> QED
          BY <4>1, DoneIsRest DEF HasTrack, IsRest, Done
      <3> QED
        BY <3>1, <3>2
    <2> QED
      BY <2>1, KeptAnyway
  <1> QED
    BY <1>3, <1>4

(* A growth changes the last entry of the file in memory alone.             *)
LEMMA GrowerKept ==
  ASSUME NEW f, NEW e, NEW r, NEW l, Good(f, e, r, l), Kept(f, e, r), r.pc \in Growing5,
         NEW g, g = Grower(r), NEW h \in Table, NEW x \in Seq(Nat),
         \A c \in Entry \ {g} : h[c] = r.ent[c],
         h[g].kind = r.ent[g].kind, h[g].next = r.ent[g].next,
         SectorsOf(h[g].ext) = SectorsOf(r.ent[g].ext) \o x,
         NEW q, q.ent = h, q.cut = r.cut, q.idx = r.idx, q.old = r.old
  PROVE  Kept(f, e, q)
  <1>1. HasTrack(r) /\ r.job = "file"
    BY DEF HasTrack, Growing5, Good, Control
  <1>2. CASE r.cut
    BY <1>2 DEF Kept
  <1>3. CASE ~ r.cut
    <2>0. /\ e \in Table /\ r.ent \in Table /\ Chained(r.ent) /\ Lags(e, r.ent)
          /\ r.idx \in Files(e) /\ r.idx \in Files(r.ent)
      BY <1>1, <1>3, TrailsBehind
    <2>1. PICK t \in Table, i \in Files(e) :
            /\ t = r.ent /\ i = r.idx /\ g = LastEntry(t, i) /\ Chained(t) /\ Lags(e, t)
            /\ i \in Files(t) /\ e \in Table
      BY <2>0 DEF Grower
    <2>2. Lags(e, h) /\ Files(h) = Files(t) /\ \A j \in Entry : h[j].next = t[j].next
      <3>1. LongerAt(t, i, h, x)
        BY <2>1 DEF LongerAt
      <3>2. t \in Table
        BY <2>0, <2>1
      <3> QED
        BY <2>1, <3>1, <3>2, GrownLags DEF SameLinks
    <2>3. \A j \in Files(h) \ Files(e) : h[j].next = NoNext
      BY <1>1, <1>3, <2>1, <2>2 DEF Kept, Trails, Files
    <2>4. Len(FileSectors(e, q.idx)) <= SectorsFor(q.old)
      BY <1>1, <1>3 DEF Kept, Trails, Growing5
    <2>5. Safe(f, e)
      BY <1>3 DEF Kept
    <2> QED
      BY <2>1, <2>2, <2>3, <2>4, <2>5 DEF Kept, Trails
  <1> QED
    BY <1>2, <1>3

(* A path with x more sectors in the last entry of the open file.           *)
Adds(r, q, x) ==
  LET g == Grower(r) IN
  /\ q.ent \in Table /\ \A c \in Entry \ {g} : q.ent[c] = r.ent[c]
  /\ q.ent[g].kind = r.ent[g].kind /\ q.ent[g].next = r.ent[g].next
  /\ SectorsOf(q.ent[g].ext) = SectorsOf(r.ent[g].ext) \o x
  /\ q.cut = r.cut /\ q.idx = r.idx /\ q.old = r.old

(* A step that does that to the open path.                                  *)
Lengthens ==
  /\ s.pc \in Growing5 /\ HasTrack(s') /\ free' = free /\ ent' = ent
  /\ \E x \in Seq(Nat) : Adds(s, s', x)

(* A new, empty, extent of the file.                                        *)
LEMMA NewExtentLengthens ==
  ASSUME Good(free, ent, s, lost), NewExtent
  PROVE  Lengthens
  <1>1. PICK g : g = Grower(s)
    OBVIOUS
  <1>2. PICK y : y = [lsn |-> s.spare.lsn, count |-> 0]
    OBVIOUS
  <1>3. /\ s.pc = "use" /\ s' = [s EXCEPT !.fresh = FALSE, !.ent[g].ext = Append(@, y)]
        /\ free' = free /\ ent' = ent
    BY <1>1, <1>2 DEF NewExtent, Memory, LastExtents, Grower
  <1>4. /\ s \in PathState /\ s.idx \in Files(s.ent) /\ Chained(s.ent) /\ s.ent \in Table
    BY <1>3, GrowthIs
  <1>5. /\ g \in Entry /\ s.ent[g] \in Slot /\ s.ent[g].ext \in Seq(AnyExtent)
    BY <1>1, <1>4, GrowerIs DEF Extents
  <1>6. y \in AnyExtent /\ Run(y) = << >>
    <2>1. s.spare.lsn \in Nat
      BY <1>4 DEF PathState
    <2>2. y \in AnyExtent /\ y.count = 0
      BY <1>2, <2>1 DEF AnyExtent
    <2> QED
      BY <2>2 DEF Run
  <1>7. PICK z \in Seq(AnyExtent), x \in Seq(AnyExtent) : z = s.ent[g].ext /\ x = Append(z, y)
    <2>1. PICK z \in Seq(AnyExtent) : z = s.ent[g].ext
      BY <1>5
    <2>2. Append(z, y) \in Seq(AnyExtent)
      BY <1>6
    <2> QED
      BY <2>1, <2>2
  <1>8. PICK h : h = [s.ent EXCEPT ![g].ext = x]
    OBVIOUS
  <1>9. /\ h[g] = [s.ent[g] EXCEPT !.ext = x] /\ \A j \in Entry \ {g} : h[j] = s.ent[j]
    BY <1>4, <1>5, <1>8 DEF Table
  <1>10. /\ h[g] \in Slot /\ h[g].kind = s.ent[g].kind /\ h[g].next = s.ent[g].next /\ h[g].ext = x
    BY <1>5, <1>7, <1>9 DEF Slot
  <1>11. h \in Table
    BY <1>4, <1>5, <1>8, <1>9, <1>10 DEF Table
  <1>12. s' = [s EXCEPT !.fresh = FALSE, !.ent = h]
    BY <1>3, <1>4, <1>5, <1>7, <1>8 DEF PathState, Table
  <1>13. s'.ent = h /\ s'.cut = s.cut /\ s'.idx = s.idx /\ s'.old = s.old /\ s'.pc = s.pc
    BY <1>4, <1>12 DEF PathState
  <1>14. SectorsOf(x) = SectorsOf(z) \o << >> /\ << >> \in Seq(Nat)
    <2>1. SectorsOf(Append(z, y)) = SectorsOf(z) \o Run(y)
      BY <1>6, SectorsOfAppend
    <2> QED
      BY <1>6, <1>7, <2>1
  <1>15. SectorsOf(h[g].ext) = SectorsOf(s.ent[g].ext) \o << >>
    BY <1>7, <1>10, <1>14
  <1>16. s.pc \in Growing5
    BY <1>3 DEF Growing5
  <1>17. \E a \in Seq(Nat) : Adds(s, s', a)
    <2>1. << >> \in Seq(Nat) /\ \A c \in Entry \ {g} : h[c] = s.ent[c]
      BY <1>9
    <2>2. Adds(s, s', << >>)
      BY <1>1, <1>10, <1>11, <1>13, <1>15, <2>1 DEF Adds
    <2> QED
      BY <2>1, <2>2
  <1>18. HasTrack(s')
    BY <1>3, <1>13 DEF HasTrack
  <1> QED
    BY <1>3, <1>16, <1>17, <1>18 DEF Lengthens

(* The size of the file in its last entry.                                  *)
LEMMA GrownLengthens ==
  ASSUME Good(free, ent, s, lost), Grown
  PROVE  Lengthens
  <1>1. PICK g : g = Grower(s)
    OBVIOUS
  <1>2. PICK b : b = s.goal % Bps
    OBVIOUS
  <1>3. PICK d, c : /\ s.pc = "grown" /\ c \in {"data", "flush"} /\ free' = free /\ ent' = ent
                    /\ s' = [s EXCEPT !.pc = c, !.ent[g].last = b, !.dirty = d, !.size = s.goal]
    BY <1>1, <1>2 DEF Grown, Memory, Grower
  <1>4. /\ s \in PathState /\ s.idx \in Files(s.ent) /\ Chained(s.ent) /\ s.ent \in Table
    BY <1>3, GrowthIs
  <1>5. PICK e \in Table : e = s.ent
    BY <1>4
  <1>6. g \in Entry /\ e[g] \in Slot /\ e[g].ext \in Seq(AnyExtent)
    BY <1>1, <1>4, <1>5, GrowerIs DEF Extents
  <1>7. b \in 0 .. (Bps - 1)
    BY <1>2, <1>4, ConstantsAre, SizesAre DEF PathState
  <1>8. PICK h : h = [e EXCEPT ![g].last = b]
    OBVIOUS
  <1>9. /\ h[g] = [e[g] EXCEPT !.last = b] /\ \A j \in Entry \ {g} : h[j] = e[j]
    BY <1>6, <1>8 DEF Table
  <1>10. /\ h[g] \in Slot /\ h[g].kind = e[g].kind /\ h[g].next = e[g].next /\ h[g].ext = e[g].ext
    BY <1>6, <1>7, <1>9 DEF Slot
  <1>11. h \in Table
    BY <1>6, <1>8, <1>9, <1>10 DEF Table
  <1>12. s' = [s EXCEPT !.pc = c, !.ent = h, !.dirty = d, !.size = s.goal]
    BY <1>3, <1>4, <1>5, <1>8 DEF PathState
  <1>13. s'.ent = h /\ s'.cut = s.cut /\ s'.idx = s.idx /\ s'.old = s.old /\ s'.pc = c
    BY <1>4, <1>12 DEF PathState
  <1>14. SectorsOf(h[g].ext) = SectorsOf(s.ent[g].ext) \o << >> /\ << >> \in Seq(Nat)
    <2>1. SectorsOf(e[g].ext) \in Seq(Nat)
      BY <1>6, SectorsOfIs
    <2> QED
      BY <1>5, <1>10, <2>1
  <1>15. s.pc \in Growing5
    BY <1>3 DEF Growing5
  <1>16. \E x \in Seq(Nat) : Adds(s, s', x)
    <2>1. /\ \A j \in Entry \ {g} : h[j] = s.ent[j]
          /\ h[g].kind = s.ent[g].kind /\ h[g].next = s.ent[g].next
      BY <1>5, <1>9, <1>10
    <2>2. Adds(s, s', << >>)
      BY <1>1, <1>11, <1>13, <1>14, <2>1 DEF Adds
    <2> QED
      BY <1>14, <2>2
  <1>17. HasTrack(s')
    BY <1>3, <1>13 DEF HasTrack
  <1> QED
    BY <1>3, <1>15, <1>16, <1>17 DEF Lengthens

(* Entry w has the sectors of v and maybe more.                             *)
HasMore(w, v) == \E x \in Seq(Nat) : SectorsOf(w.ext) = SectorsOf(v.ext) \o x

(* The last entry with the sectors Use gives it.                            *)
LEMMA UsedIs ==
  ASSUME NEW f, NEW e, NEW r, NEW l, Good(f, e, r, l), r.pc = "use", ~ r.fresh,
         NEW g, g = Grower(r), NEW u, NEW n, IsUsed(r, u, g, n),
         NEW h, NEW d, NEW q, Uses(r, q, u, g, h, d)
  PROVE  /\ h \in Table /\ \A c \in Entry \ {g} : h[c] = r.ent[c]
         /\ h[g].kind = r.ent[g].kind /\ h[g].next = r.ent[g].next
         /\ HasMore(h[g], r.ent[g])
  <1>1. /\ r \in PathState /\ r.job = "file" /\ r.idx \in Files(r.ent)
        /\ Entered(r) /\ Growth(r) /\ r.needed # 0 /\ Behind(r)
        /\ Chained(r.ent) /\ r.ent \in Table /\ Apart(r.free, r.ent, Spare(r))
    BY GrowthIs
  <1>2. PICK t \in Table : t = r.ent
    BY <1>1
  <1>3. g \in Entry /\ t[g] \in Slot
    BY <1>1, <1>2, GrowerIs
  <1>4. r.spare.count # 0 /\ End(t[g].ext) = r.spare.lsn
    BY <1>1, <1>2 DEF Behind, Extents
  <1>5. /\ r.spare.lsn \in Nat /\ r.spare.count \in 0 .. MaxExtent /\ r.spare.count \in Nat
        /\ r.spare.lsn + r.spare.count <= Total
    BY <1>1, <1>4, SpareIs
  <1>6. r.needed \in 0 .. SectorsFor(MaxSize) /\ r.needed \in Nat /\ SectorsFor(MaxSize) \in Nat
    BY <1>1, ConstantsAre DEF PathState
  <1>7. u \in Nat \ {0} /\ u <= r.spare.count
    BY <1>1, <1>4, <1>5, <1>6 DEF IsUsed
  <1>8. Growable(t[g], FALSE)
    <2>1. r.fresh = FALSE
      BY <1>1 DEF PathState
    <2> QED
      BY <1>1, <1>2, <2>1 DEF Entered
  <1>9. h = [t EXCEPT ![g].ext[n].count = @ + u]
    BY <1>2 DEF Uses, IsUsed
  <1>10. /\ h[g] = WithMore(t[g], n, u) /\ \A j \in Entry \ {g} : h[j] = t[j]
         /\ DOMAIN h = Entry
    BY <1>3, <1>9 DEF Table, WithMore
  <1>11. PICK v \in Slot : v = t[g]
    BY <1>3
  <1>12. PICK w : w = h[g]
    OBVIOUS
  <1>13. v.ext \in Seq(AnyExtent) /\ n = Len(v.ext) /\ n \in Nat /\ n \in 1 .. n
    BY <1>2, <1>8, <1>11 DEF Slot, Growable, IsUsed
  <1>14. PICK x \in AnyExtent : x = v.ext[n]
    BY <1>13
  <1>15. x.lsn \in Nat /\ x.count \in Nat /\ x.lsn + x.count = r.spare.lsn
    BY <1>4, <1>11, <1>13, <1>14, ExtentIs DEF End
  <1>16. PICK k \in AnyExtent : k = [lsn |-> r.spare.lsn, count |-> u]
    BY <1>5, <1>7 DEF AnyExtent
  <1>17. /\ w \in Slot /\ w.kind = v.kind /\ w.next = v.next
         /\ SectorsOf(w.ext) = SectorsOf(v.ext) \o Run(k)
    <2>1. w = WithMore(v, n, u) /\ CanGrow(v)
      BY <1>8, <1>10, <1>11, <1>12 DEF CanGrow
    <2>2. CanHave(v.ext[n], u)
      <3>1. Total \in Nat
        BY SectorsAre
      <3>2. x.lsn + x.count + u <= Total
        BY <1>5, <1>7, <1>15, <3>1
      <3>3. x.count + u <= MaxExtent
        BY <1>2, <1>11, <1>14 DEF IsUsed
      <3> QED
        BY <1>14, <3>2, <3>3 DEF CanHave
    <2>3. k = Following(v.ext[n], u)
      BY <1>14, <1>15, <1>16 DEF Following
    <2>4. /\ w \in Slot /\ w.kind = v.kind /\ w.next = v.next /\ Sound(w)
          /\ SectorsOf(w.ext) = SectorsOf(v.ext) \o Run(k)
      <3>1. v \in Slot
        BY <1>11
      <3>2. n = Len(v.ext)
        BY <1>13
      <3>3. u \in Nat \ {0}
        BY <1>7
      <3> QED
        BY SMTT(60), <2>1, <2>2, <2>3, <3>1, <3>2, <3>3, UsedEntry
    <2> QED
      BY <2>4
  <1>18. h \in Table
    <2>1. \A j \in Entry : h[j] \in Slot
      BY <1>10, <1>12, <1>17, TableIs
    <2>2. h = [j \in Entry |-> h[j]]
      BY <1>9, <1>10
    <2> QED
      BY <2>1, <2>2 DEF Table
  <1>19. Run(k) \in Seq(Nat)
    BY RunIs
  <1> QED
    BY <1>2, <1>10, <1>11, <1>12, <1>17, <1>18, <1>19 DEF HasMore

(* A longer last extent of the file.                                        *)
LEMMA UseLengthens ==
  ASSUME Good(free, ent, s, lost), Use
  PROVE  Lengthens
  <1>1. PICK g : g = Grower(s)
    OBVIOUS
  <1>2. PICK n : n = Len(s.ent[g].ext)
    OBVIOUS
  <1>3. PICK u : u = Used
    OBVIOUS
  <1>4. /\ s.pc = "use" /\ ~ s.fresh /\ LastCount + Used <= MaxExtent
        /\ free' = free /\ ent' = ent
    BY DEF Use, Memory
  <1>5. s.ent[g].ext[n].count + u <= MaxExtent
    BY <1>1, <1>2, <1>3, <1>4 DEF LastCount, LastExtents, Grower
  <1>6. /\ s \in PathState /\ Chained(s.ent) /\ s.idx \in Files(s.ent) /\ Entered(s)
    BY <1>4, GrowthIs
  <1>7. g \in Entry /\ s.ent[g] \in Slot
    BY <1>1, <1>6, GrowerIs
  <1>8. Len(s.ent[g].ext) \in DOMAIN s.ent[g].ext
    <2>1. s.ent[g].ext \in Seq(AnyExtent) /\ s.ent[g].ext # << >>
      BY <1>1, <1>4, <1>6, <1>7 DEF Entered, Growable, Slot
    <2> QED
      BY <2>1
  <1>9. PICK h, d : Uses(s, s', u, g, h, d)
    BY <1>1, <1>3, <1>6, <1>7, <1>8, UseIs
  <1>10. IsUsed(s, u, g, n)
    BY <1>2, <1>3, <1>5 DEF IsUsed, Used
  <1>11. /\ h \in Table /\ \A c \in Entry \ {g} : h[c] = s.ent[c]
         /\ h[g].kind = s.ent[g].kind /\ h[g].next = s.ent[g].next
         /\ HasMore(h[g], s.ent[g])
    BY <1>1, <1>4, <1>9, <1>10, UsedIs
  <1>12. PICK x \in Seq(Nat) : SectorsOf(h[g].ext) = SectorsOf(s.ent[g].ext) \o x
    BY <1>11 DEF HasMore
  <1>13. s'.ent = h /\ s'.cut = s.cut /\ s'.idx = s.idx /\ s'.old = s.old
    BY <1>6, <1>9, ZenonT(60) DEF Uses, PathState
  <1>14. s'.pc \in {"grown", "allocate"}
    BY <1>6, <1>9, ZenonT(60) DEF Uses, PathState
  <1>15. s.pc \in Growing5 /\ HasTrack(s')
    BY <1>4, <1>14 DEF Growing5, HasTrack
  <1>16. Adds(s, s', x)
    BY <1>1, <1>11, <1>12, <1>13 DEF Adds
  <1> QED
    BY <1>4, <1>12, <1>15, <1>16 DEF Lengthens

(* What is on the disk lags behind a file that has grown in memory.         *)
LEMMA LengthensKept ==
  ASSUME Good(free, ent, s, lost), Kept(free, ent, s), Lengthens
  PROVE  Kept(free', ent', s')
  <1>1. PICK x \in Seq(Nat) : Adds(s, s', x)
    BY DEF Lengthens
  <1>2. PICK g : g = Grower(s)
    OBVIOUS
  <1>3. Kept(free, ent, s')
    BY <1>1, <1>2, GrowerKept DEF Adds, Lengthens
  <1> QED
    BY <1>3 DEF Lengthens

(* A growth is undone: the file keeps at least what the disk has of it.     *)
LEMMA CutKept ==
  ASSUME NEW f, NEW e, NEW r, NEW l, Good(f, e, r, l), Kept(f, e, r), r.pc \in Growing5,
         NEW n \in Nat, r.old \in Nat, r.old <= n,
         SectorsFor(n) <= Len(FileSectors(r.ent, r.idx)),
         NEW q, q.ent = Truncated(r.ent, r.idx, n), q.cut = r.cut, q.idx = r.idx, q.pc = "flush"
  PROVE  Kept(f, e, q)
  <1>1. HasTrack(r) /\ r.job = "file"
    BY DEF HasTrack, Growing5, Good, Control
  <1>2. CASE r.cut
    BY <1>2 DEF Kept
  <1>3. CASE ~ r.cut
    <2>1. /\ e \in Table /\ r.ent \in Table /\ Chained(r.ent) /\ Lags(e, r.ent)
          /\ r.idx \in Files(e) /\ r.idx \in Files(r.ent) /\ Len(FileSectors(e, r.idx)) \in Nat
      BY <1>1, <1>3, TrailsBehind
    <2>2. PICK t \in Table, i \in Files(e) :
            /\ t = r.ent /\ i = r.idx /\ Chained(t) /\ Lags(e, t) /\ e \in Table
      BY <2>1
    <2>3. \A j \in Entry : Sound(e[j])
      BY DEF Good, OnDisk
    <2>4. Len(FileSectors(e, i)) <= SectorsFor(n)
      <3>1. Len(FileSectors(e, i)) <= SectorsFor(r.old)
        BY <1>1, <1>3, <2>2 DEF Kept, Trails, Growing5
      <3>2. SectorsFor(r.old) <= SectorsFor(n) /\ SectorsFor(r.old) \in Nat /\ SectorsFor(n) \in Nat
        BY MoreSectors, SizesAre
      <3> QED
        BY <2>1, <2>2, <3>1, <3>2
    <2>5. PICK g : g = Truncated(t, i, n)
      OBVIOUS
    <2>6. Lags(e, g) /\ Files(g) = Files(t) /\ \A j \in Entry : g[j].next = t[j].next
      <3>1. n \in Nat /\ SectorsFor(n) <= Len(FileSectors(t, i))
        BY <2>2
      <3> QED
        BY ONLY <2>1, <2>2, <2>3, <2>4, <2>5, <3>1, CutLags
    <2>7. \A j \in Files(g) \ Files(e) : g[j].next = NoNext
      BY <1>1, <1>3, <2>2, <2>6 DEF Kept, Trails, Files
    <2>8. Safe(f, e) /\ q.ent = g
      BY <1>3, <2>2, <2>5 DEF Kept
    <2> QED
      BY <2>2, <2>6, <2>7, <2>8 DEF Kept, Trails
  <1> QED
    BY <1>2, <1>3

(* A step that cuts the open file to size n.                                *)
CutsTo(n) ==
  /\ n \in Nat /\ SectorsFor(n) <= Len(FileSectors(s.ent, s.idx)) /\ s.idx \in Files(s.ent)
  /\ s'.ent = Truncated(s.ent, s.idx, n) /\ s'.idx = s.idx /\ s'.pc = "flush"
  /\ HasTrack(s) /\ free' = free /\ ent' = ent

(* One that cuts no more than the call has added.                           *)
CutsNew ==
  /\ s.pc \in Growing5 /\ s.old \in Nat /\ s'.cut = s.cut
  /\ \E n \in Nat : s.old <= n /\ CutsTo(n)

(* A growth that is given up cuts the file to the size it had.              *)
LEMMA UndoneCuts ==
  ASSUME Good(free, ent, s, lost), DiskFull \/ DirectoryFull
  PROVE  CutsNew
  <1>1. /\ s.pc \in {"allocate", "use"} /\ s' = [Cut(s, s.size) EXCEPT !.pc = "flush", !.ec = "DF"]
        /\ free' = free /\ ent' = ent
    BY DEF DiskFull, DirectoryFull, Undone, Memory
  <1>2. s \in PathState /\ Growth(s) /\ s.old = s.size /\ s.idx \in Files(s.ent)
    BY <1>1, GrowthIs
  <1>3. PICK n \in Nat : n = s.size
    BY <1>2 DEF PathState
  <1>4. SectorsFor(n) <= Len(FileSectors(s.ent, s.idx)) /\ s.old = n
    BY <1>2, <1>3 DEF Growth
  <1>5. /\ s'.ent = Truncated(s.ent, s.idx, n) /\ s'.cut = s.cut /\ s'.idx = s.idx
        /\ s'.pc = "flush"
    BY <1>1, <1>2, <1>3, ZenonT(60) DEF Cut, PathState
  <1>6. s.pc \in Growing5 /\ HasTrack(s) /\ n <= n
    BY <1>1 DEF Growing5, HasTrack
  <1>7. CutsTo(n)
    BY <1>1, <1>2, <1>4, <1>5, <1>6 DEF CutsTo
  <1> QED
    BY <1>4, <1>5, <1>6, <1>7 DEF CutsNew

(* A write of data that fails cuts the file to what was written, or to the  *)
(* size it had before.                                                      *)
LEMMA PutSectorFailsCuts ==
  ASSUME Good(free, ent, s, lost), PutSectorFails
  PROVE  CutsNew \/ (Still /\ s'.pc \notin Growing5 /\ s.job = "file")
  <1>1. /\ s.pc = "data" /\ free' = free /\ ent' = ent
    BY DEF PutSectorFails, Memory
  <1>2. /\ HasTrack(s) /\ Sized(s) /\ s \in PathState /\ s.idx \in Files(s.ent) /\ s.job = "file"
    BY <1>1, OpenIs
  <1>3. s.old <= s.size /\ s.pos <= s.goal /\ s.goal <= s.size
    BY <1>1 DEF Good, Sizes
  <1>4. s.size \in Nat /\ s.old \in Nat /\ s.pos \in Nat /\ s.goal \in Nat
    BY <1>2, ConstantsAre DEF PathState
  <1>5. CASE s.size > s.old
    <2>1. PICK n \in Nat :
            n = (IF s.pos > s.old THEN s.pos ELSE s.old) /\ n <= s.size /\ s.old <= n
      BY <1>3, <1>4
    <2>2. s' = [Cut(s, n) EXCEPT !.pc = "flush", !.ec = "EIO"]
      BY <1>5, <2>1 DEF PutSectorFails, Memory
    <2>3. SectorsFor(n) <= Len(FileSectors(s.ent, s.idx))
      BY <1>2, <1>4, <2>1, MoreSectors DEF Sized
    <2>4. /\ s'.ent = Truncated(s.ent, s.idx, n) /\ s'.cut = s.cut /\ s'.idx = s.idx
          /\ s'.pc = "flush"
      BY <1>2, <2>2, ZenonT(60) DEF Cut, PathState
    <2>5. s.pc \in Growing5
      BY <1>1 DEF Growing5
    <2>6. CutsTo(n)
      BY <1>1, <1>2, <2>1, <2>3, <2>4 DEF CutsTo
    <2> QED
      BY <1>4, <2>1, <2>4, <2>5, <2>6 DEF CutsNew
  <1>6. CASE ~ (s.size > s.old)
    <2>1. s' = [s EXCEPT !.pc = "flush", !.ec = "EIO"]
      BY <1>6 DEF PutSectorFails, Memory
    <2>2. s'.ent = s.ent /\ s'.cut = s.cut /\ s'.idx = s.idx /\ s'.pc = "flush"
      BY <1>2, <2>1 DEF PathState
    <2> QED
      BY <1>1, <1>2, <2>2 DEF Still, HasTrack, Growing5
  <1> QED
    BY <1>5, <1>6

(* A call that makes the file shorter cuts it to the size it asks for.      *)
LEMMA ShortensCuts ==
  ASSUME Good(free, ent, s, lost), NEW size \in SetSizes, SetSize(size), size < s.size
  PROVE  CutsTo(size)
  <1>1. s.pc = "open"
    BY DEF SetSize
  <1>2. /\ HasTrack(s) /\ Sized(s) /\ s.idx \in Files(s.ent) /\ s \in PathState
    BY <1>1, OpenIs
  <1>3. size \in Nat /\ s.size \in Nat
    BY <1>2, DosAssumption DEF PathState
  <1>4. /\ s' = [Cut(s, size) EXCEPT !.pc = "flush", !.cut = TRUE]
        /\ free' = free /\ ent' = ent
    BY <1>3 DEF SetSize, Memory
  <1>5. SectorsFor(size) <= Len(FileSectors(s.ent, s.idx))
    BY <1>2, <1>3, MoreSectors DEF Sized
  <1>6. s'.ent = Truncated(s.ent, s.idx, size) /\ s'.idx = s.idx /\ s'.pc = "flush"
    BY <1>2, <1>4, ZenonT(60) DEF Cut, PathState
  <1> QED
    BY <1>2, <1>3, <1>4, <1>5, <1>6 DEF CutsTo

(* What a growth has added is all that is cut when it fails: never what the *)
(* disk has.                                                                *)
LEMMA CutsNewKept ==
  ASSUME Good(free, ent, s, lost), Kept(free, ent, s), CutsNew
  PROVE  Kept(free', ent', s')
  <1>1. PICK n \in Nat : s.old <= n /\ CutsTo(n)
    BY DEF CutsNew
  <1>2. Kept(free, ent, s')
    BY <1>1, CutKept DEF CutsNew, CutsTo
  <1> QED
    BY <1>1, <1>2 DEF CutsTo

(* The two sectors of bits come before those of the entries.                *)
LEMMA TrackParts ==
  /\ \A k \in Lsn : k \div MapSector \in {0, 1}
  /\ \A j \in Entry : 2 + j \div PerSector >= 2
  <1>1. PICK c \in Nat \ {0} : c = MapSector /\ Total <= 2 * c
    <2>1. MapSector \in Nat \ {0} /\ Total <= 2 * MapSector
      BY SectorsAre, MapAssumption
    <2> QED
      BY <2>1
  <1>2. PICK p \in Nat \ {0} : p = PerSector
    BY DirAssumption
  <1>3. ASSUME NEW k \in Lsn PROVE k \div MapSector \in {0, 1}
    <2>1. k \in Nat /\ k < 2 * c
      BY <1>1, SectorsAre DEF Lsn
    <2>2. k \div c \in Nat /\ k = c * (k \div c) + (k % c) /\ k % c \in 0 .. (c - 1)
      BY <2>1
    <2>3. PICK d \in Nat : d = k \div c /\ c * d < 2 * c
      BY <2>1, <2>2
    <2>4. d < 2
      BY <1>1, <2>3
    <2> QED
      BY <1>1, <2>3, <2>4
  <1>4. ASSUME NEW j \in Entry PROVE 2 + j \div PerSector >= 2
    <2>1. j \in Nat
      BY EntryIs
    <2>2. j \div p \in Nat
      BY <2>1
    <2> QED
      BY <1>2, <2>2
  <1> QED
    BY <1>3, <1>4

(* The bits are written first: a sector that an entry on the disk has is    *)
(* not free there, whichever sector of the track is written.                *)
LEMMA TrackKept ==
  ASSUME Good(free, ent, s, lost), Kept(free, ent, s), ~ s.cut, s.pc = "flush", s.dirty # {},
         WithTrackSector(Min(s.dirty))
  PROVE  Safe(free', ent') /\ Trails(ent', s)
  <1>1. /\ IsSteady(s) /\ OnDisk(free, ent) /\ s.ent \in Table /\ s \in PathState
        /\ Chained(s.ent) /\ Apart(s.free, s.ent, Spare(s))
        /\ AgreeBut(free, ent, s.free, s.ent, s.dirty, {})
    BY FlushIs DEF IsDirectory, IsSteady
  <1>2. Safe(free, ent) /\ Trails(ent, s)
    BY DEF Kept, HasTrack
  <1>3. PICK i : /\ i = Min(s.dirty) /\ i \in s.dirty /\ i \in Nat /\ \A k \in s.dirty : i <= k
    <2>1. s.dirty \in SUBSET Nat
      BY <1>1 DEF PathState
    <2>2. Min(s.dirty) \in s.dirty /\ \A k \in s.dirty : Min(s.dirty) <= k
      BY <2>1, MinIs
    <2> QED
      BY <2>1, <2>2
  <1>4. /\ free' = (free \ OfTrackSector(i).lsns) \cup (s.free \cap OfTrackSector(i).lsns)
        /\ ent' = [j \in Entry |-> IF j \in OfTrackSector(i).entries THEN s.ent[j] ELSE ent[j]]
    BY <1>3 DEF WithTrackSector
  <1>5. PICK e \in Table, h \in Table : e = ent /\ h = s.ent
    BY <1>1 DEF OnDisk
  <1>6. OnDisk(free', ent')
    BY <1>3, TrackSectorIsWritten
  <1>7. PICK g \in Table : g = ent' /\ \A j \in Entry : g[j] = e[j] \/ g[j] = h[j]
    BY <1>4, <1>5, <1>6 DEF OnDisk
  <1>8. Lags(e, h) /\ \A j \in Files(h) \ Files(e) : h[j].next = NoNext
    BY <1>2, <1>5 DEF Trails
  <1>9. Lags(g, h) /\ Files(e) \subseteq Files(g) /\ Chained(h)
    BY <1>1, <1>5, <1>7, <1>8, WriteLags
  <1>10. Trails(ent', s)
    <2>1. s.job = "file" => s.idx \in Files(e)
      BY <1>2, <1>5 DEF Trails
    <2> QED
      BY <1>5, <1>7, <1>8, <1>9, <2>1 DEF Trails
  <1>11. \A k \in Files(g) : Held(g, k) \cap s.free = {}
    <2>1. ASSUME NEW k \in Files(g) PROVE Held(g, k) \cap s.free = {}
      <3>1. k \in Files(h) /\ Held(g, k) \subseteq Held(h, k)
        BY <1>9, LagIs
      <3>2. Held(h, k) \cap s.free = {}
        BY <1>1, <1>5, <3>1 DEF Apart
      <3> QED
        BY <3>1, <3>2
    <2> QED
      BY <2>1
  <1>12. \A k \in Files(g) : Held(g, k) \cap free' = {}
    <2>1. CASE i < 2
      <3>1. OfTrackSector(i).entries = {}
        BY <1>3, <2>1, TrackParts DEF OfTrackSector
      <3>2. g = e
        BY <1>4, <1>5, <1>7, <3>1 DEF Table
      <3>3. \A k \in Files(g) : Held(g, k) \cap free = {}
        BY <1>2, <1>5, <3>2 DEF Safe
      <3> QED
        BY <1>4, <1>11, <3>3
    <2>2. CASE ~ (i < 2)
      <3>1. \A k \in Lsn : k \div MapSector \notin s.dirty
        <4>1. 0 \notin s.dirty /\ 1 \notin s.dirty
          BY <1>3, <2>2
        <4> QED
          BY <4>1, TrackParts
      <3>2. \A k \in Lsn : k \in free <=> k \in s.free
        BY <1>1, <3>1 DEF AgreeBut
      <3>3. free \subseteq Lsn
        BY <1>1 DEF OnDisk
      <3>4. free' \subseteq s.free
        BY <1>4, <3>2, <3>3
      <3> QED
        BY <1>11, <3>4
    <2> QED
      BY <2>1, <2>2
  <1>13. Safe(free', g)
    BY <1>1, <1>5, <1>9, <1>12, LagIsSafe
  <1> QED
    BY <1>7, <1>10, <1>13

(* Writing a sector of the track, the bits before the entries.              *)
LEMMA PutTrackSectorKept ==
  ASSUME Good(free, ent, s, lost), Kept(free, ent, s), PutTrackSector
  PROVE  Kept(free', ent', s')
  <1>1. /\ s.pc = "flush" /\ s.dirty # {} /\ WithTrackSector(Min(s.dirty))
        /\ s' = [s EXCEPT !.dirty = s.dirty \ {Min(s.dirty)}]
    BY DEF PutTrackSector
  <1>2. s \in PathState
    BY DEF Good
  <1>3. s'.ent = s.ent /\ s'.cut = s.cut /\ s'.idx = s.idx /\ s'.job = s.job /\ s'.pc = "flush"
    BY <1>1, <1>2 DEF PathState
  <1>4. CASE s.cut
    BY <1>3, <1>4 DEF Kept
  <1>5. CASE ~ s.cut
    <2>1. Safe(free', ent') /\ Trails(ent', s)
      BY <1>1, <1>5, TrackKept
    <2> QED
      BY <1>3, <2>1 DEF Kept, Trails
  <1> QED
    BY <1>4, <1>5

(* The same when the write fails, with the sector on the disk or not.       *)
LEMMA PutTrackSectorFailsKept ==
  ASSUME Good(free, ent, s, lost), Kept(free, ent, s), PutTrackSectorFails,
         Good(free', ent', s', lost')
  PROVE  Kept(free', ent', s')
  <1>1. /\ s.pc = "flush" /\ s.dirty # {}
        /\ WithTrackSector(Min(s.dirty)) \/ (free' = free /\ ent' = ent)
        /\ IF s.job = "file" THEN s' = [Return(s) EXCEPT !.ec = "EIO"] ELSE Abandon("EIO")
    BY DEF PutTrackSectorFails
  <1>2. s \in PathState
    BY DEF Good
  <1>3. CASE s.job # "file"
    <2>1. s' = Done("EIO")
      BY <1>1, <1>3 DEF Abandon
    <2>2. ~ HasTrack(s')
      BY <2>1, DoneIsRest DEF HasTrack, IsRest
    <2> QED
      BY <2>2, KeptAnyway
  <1>4. CASE s.job = "file"
    <2>1. s' = [Return(s) EXCEPT !.ec = "EIO"]
      BY <1>1, <1>4
    <2>2. s'.ent = s.ent /\ s'.cut = s.cut /\ s'.idx = s.idx /\ s'.job = "file" /\ s'.pc = "open"
      BY <1>2, <2>1 DEF Return, PathState
    <2>3. CASE s.cut
      BY <2>2, <2>3 DEF Kept
    <2>4. CASE ~ s.cut
      <3>1. Safe(free', ent') /\ Trails(ent', s)
        <4>1. CASE WithTrackSector(Min(s.dirty))
          BY <1>1, <2>4, <4>1, TrackKept
        <4>2. CASE free' = free /\ ent' = ent
          <5>1. Safe(free, ent) /\ Trails(ent, s)
            BY <1>1, <2>4 DEF Kept, HasTrack
          <5> QED
            BY <4>2, <5>1 DEF Safe, Trails
        <4> QED
          BY <1>1, <4>1, <4>2
      <3> QED
        BY <1>4, <2>2, <3>1 DEF Kept, Trails
    <2> QED
      BY <2>3, <2>4
  <1> QED
    BY <1>3, <1>4

-----------------------------------------------------------------------------
(* What the disk has, in every state *)

(* The steps after which no path is open, or one that has cut its file.     *)
LEMMA EndsKept ==
  ASSUME Good(free, ent, s, lost), Good(free', ent', s', lost'),
         \/ Rests \/ Crash \/ Replace \/ AddContinuation
         \/ \E n \in Names : Kill(n)
         \/ \E size \in SetSizes : SetSize(size) /\ size < s.size
  PROVE  Kept(free', ent', s')
  <1> SUFFICES ~ HasTrack(s') \/ s'.cut = TRUE
    BY KeptAnyway
  <1>1. s \in PathState
    BY DEF Good
  <1>2. CASE Rests
    <2>1. CASE \E n \in Names : Create(n)
      BY <2>1, CreatesIsRest DEF Create, Memory, IsRest, HasTrack
    <2>2. CASE \E n \in Names : NotFound(n) \/ CreateFails(n)
      BY <2>2, DoneIsRest DEF NotFound, CreateFails, Memory, IsRest, HasTrack
    <2>3. CASE \E n, m \in Names : Rename(n, m) /\ Named(ent, m) # {}
      BY <2>3, DoneIsRest DEF Rename, Memory, IsRest, HasTrack
    <2>4. CASE NoEntryFree
      BY <2>4, DoneIsRest DEF NoEntryFree, Memory, IsRest, HasTrack
    <2> QED
      BY <1>2, <2>1, <2>2, <2>3, <2>4 DEF Rests
  <1>3. CASE Crash
    BY <1>3, DoneIsRest DEF Crash, Abandon, IsRest, HasTrack
  <1>4. CASE Replace \/ \E n \in Names : Kill(n)
    <2>1. \E i \in Entry, r \in PathState : s' = Killed(r, i)
      <3>1. CASE Replace
        <4>1. PICK n \in Names : n = s.name
          BY <3>1 DEF Replace, Good, Control
        <4>2. [Idle EXCEPT !.job = "replace", !.name = n] \in PathState
          BY IdleIs DEF PathState
        <4> QED
          BY <3>1, <4>1, <4>2 DEF Replace, Memory
      <3>2. CASE \E n \in Names : Kill(n)
        <4>1. [Idle EXCEPT !.job = "kill"] \in PathState
          BY IdleIs DEF PathState
        <4> QED
          BY <3>2, <4>1 DEF Kill, Memory
      <3> QED
        BY <1>4, <3>1, <3>2
    <2>2. PICK i \in Entry, r \in PathState : s' = Killed(r, i)
      BY <2>1
    <2> QED
      BY <2>2 DEF Killed, Loaded, PathState
  <1>5. CASE AddContinuation
    BY <1>1, <1>5 DEF AddContinuation, Memory, PathState
  <1>6. CASE \E size \in SetSizes : SetSize(size) /\ size < s.size
    <2>1. PICK size \in SetSizes : SetSize(size) /\ size < s.size
      BY <1>6
    <2>2. size \in Nat /\ s.size \in Nat
      BY <1>1, DosAssumption DEF PathState
    <2>3. s' = [Cut(s, size) EXCEPT !.pc = "flush", !.cut = TRUE]
      <3>1. ~ (size > s.size)
        BY <2>1, <2>2
      <3> QED
        BY <2>1, <3>1 DEF SetSize, Memory
    <2> QED
      BY <1>1, <2>3, ZenonT(60) DEF Cut, PathState
  <1> QED
    BY <1>2, <1>3, <1>4, <1>5, <1>6

(* Every call leaves on the disk what the files had, but for a growth.      *)
LEMMA CallKept ==
  ASSUME Good(free, ent, s, lost), Kept(free, ent, s), Call, Good(free', ent', s', lost')
  PROVE  Kept(free', ent', s')
  <1>1. ASSUME NEW n \in Names, Open(n) \/ NotFound(n) \/ Create(n) \/ CreateFails(n) \/ Kill(n)
        PROVE  Kept(free', ent', s')
    BY <1>1, OpenLoads, LoadsKept, EndsKept DEF Rests
  <1>2. ASSUME NEW n \in Names, NEW m \in Names, Rename(n, m)
        PROVE  Kept(free', ent', s')
    <2>1. CASE Named(ent, m) = {}
      BY <1>2, <2>1, RenameLoads, LoadsKept
    <2>2. CASE Named(ent, m) # {}
      BY <1>2, <2>2, EndsKept DEF Rests
    <2> QED
      BY <2>1, <2>2
  <1>3. CASE (\E pos \in Positions : Seek(pos)) \/ Close
    BY <1>3, QuietCallsKept DEF QuietCalls
  <1>4. CASE \E k \in WriteSizes : Write(k)
    BY <1>4, WriteCallsKept DEF WriteCalls
  <1>5. ASSUME NEW size \in SetSizes, SetSize(size)
        PROVE  Kept(free', ent', s')
    <2>1. size \in Nat /\ s.size \in Nat
      <3>1. s.pc = "open"
        BY <1>5 DEF SetSize
      <3> QED
        BY <3>1, OpenIs, DosAssumption DEF PathState
    <2>2. CASE size > s.size
      BY <1>5, <2>2, WriteCallsKept DEF WriteCalls
    <2>3. CASE size < s.size
      BY <1>5, <2>3, EndsKept
    <2>4. CASE size = s.size
      BY <1>5, <2>4, QuietCallsKept DEF QuietCalls
    <2> QED
      BY <2>1, <2>2, <2>3, <2>4
  <1> QED
    BY <1>1, <1>2, <1>3, <1>4, <1>5 DEF Call

(* So does every step inside a call.                                        *)
LEMMA StepKept ==
  ASSUME Good(free, ent, s, lost), Kept(free, ent, s), Step, Good(free', ent', s', lost')
  PROVE  Kept(free', ent', s')
  <1>1. CASE KeepSpare \/ Overflow \/ PutSector \/ Swap \/ Allocate
    BY <1>1, QuietStepsKept DEF QuietSteps
  <1>2. CASE DiskFull \/ DirectoryFull
    BY <1>2, UndoneCuts, CutsNewKept
  <1>3. CASE NewExtent
    BY <1>3, NewExtentLengthens, LengthensKept
  <1>4. CASE Use
    BY <1>4, UseLengthens, LengthensKept
  <1>5. CASE Grown
    BY <1>5, GrownLengthens, LengthensKept
  <1>6. CASE PutSectorFails
    <2>1. CASE CutsNew
      BY <2>1, CutsNewKept
    <2>2. CASE Still /\ s'.pc \notin Growing5 /\ s.job = "file"
      <3>1. Kept(free, ent, s')
        BY <2>2, KeptStill DEF Still
      <3> QED
        BY <2>2, <3>1 DEF Still
    <2> QED
      BY <1>6, <2>1, <2>2, PutSectorFailsCuts
  <1>7. CASE PutTrackSector
    BY <1>7, PutTrackSectorKept
  <1>8. CASE PutTrackSectorFails
    BY <1>8, PutTrackSectorFailsKept
  <1>9. CASE Flushed
    BY <1>9, FlushedKept
  <1>10. CASE Replace \/ AddContinuation
    BY <1>10, EndsKept
  <1>11. CASE NoEntryFree
    BY <1>11, EndsKept DEF Rests
  <1>12. CASE NewFile
    BY <1>12, NewFileLoads, LoadsKept
  <1> QED
    BY <1>1, <1>2, <1>3, <1>4, <1>5, <1>6, <1>7, <1>8, <1>9, <1>10, <1>11, <1>12 DEF Step

(* The stronger invariant is inductive.                                     *)
LEMMA GrowthInvKept ==
  ASSUME GrowthInv, [Next]_vars
  PROVE  GrowthInv'
  <1>1. Inv'
    BY InvKept DEF GrowthInv
  <1>2. CASE UNCHANGED vars
    <2>1. free' = free /\ ent' = ent /\ s' = s /\ lost' = lost
      BY <1>2 DEF vars
    <2> QED
      BY <1>1, <2>1 DEF GrowthInv
  <1>3. CASE Next
    <2> SUFFICES ASSUME lost' # "files" PROVE Kept(free', ent', s')
      BY <1>1 DEF GrowthInv
    <2>1. Good(free, ent, s, lost) /\ Kept(free, ent, s)
      BY <1>3, LostStays DEF GrowthInv, Inv
    <2>2. Good(free', ent', s', lost')
      BY <1>1 DEF Inv
    <2>3. CASE Call
      BY <2>1, <2>2, <2>3, CallKept
    <2>4. CASE Step
      BY <2>1, <2>2, <2>4, StepKept
    <2>5. CASE Crash
      BY <2>1, <2>2, <2>5, EndsKept
    <2> QED
      BY <1>3, <2>3, <2>4, <2>5 DEF Next
  <1> QED
    BY <1>2, <1>3

(* What the disk has of a path's files is the beginning of what the path    *)
(* has, in every state in which the path has not cut one.                   *)
THEOREM GrowthInvHolds == Spec => []GrowthInv
  <1>1. Init => GrowthInv
    <2>1. Init => Good(free, ent, s, lost) /\ ~ HasTrack(s)
      BY InitGood, IdleIs DEF Init, HasTrack
    <2> QED
      BY <2>1, KeptAtRest DEF GrowthInv, Inv
  <1>2. GrowthInv /\ [Next]_vars => GrowthInv'
    BY GrowthInvKept
  <1> QED
    BY <1>1, <1>2, PTL DEF Spec

(* A process that ends while a file grows costs no file anything but the    *)
(* last growth: the disk at that moment is safe (_dd_flush writes the       *)
(* bitmap before the entries).                                              *)
THEOREM GrowthExposesNothing == Spec => []GrowthNeverExposes
  <1>1. GrowthInv => GrowthNeverExposes
    BY DEF GrowthInv, Kept, GrowthNeverExposes
  <1> QED
    BY <1>1, GrowthInvHolds, PTL

-----------------------------------------------------------------------------
(* What stays of the files *)

(* Of two lists of sectors the shorter is the beginning of the longer.      *)
Together(a, b) == IsPrefix(a, b) \/ IsPrefix(b, a)

(* That of every file that is in both.                                      *)
Stays(e, h) == \A i \in Files(e) \cap Files(h) : Together(FileSectors(e, i), FileSectors(h, i))

(* What a list begins is together with it.                                  *)
LEMMA BeginsTogether ==
  ASSUME NEW a \in Seq(Nat), NEW b \in Seq(Nat), Begins(a, b) \/ Begins(b, a)
  PROVE  Together(a, b)
  <1>1. ASSUME NEW c \in Seq(Nat), NEW d \in Seq(Nat), Begins(c, d)
        PROVE  IsPrefix(c, d)
    <2>1. Len(c) \in Nat /\ Len(c) <= Len(d)
      BY <1>1 DEF Begins
    <2>2. c = SubSeq(d, 1, Len(c))
      BY <1>1, BeginsIs
    <2>3. SubSeq(c, 1, Len(c)) = c
      <3>1. Begins(c, c)
        BY <2>1 DEF Begins
      <3> QED
        BY <3>1, BeginsIs
    <2> QED
      BY <2>1, <2>2, <2>3 DEF IsPrefix
  <1> QED
    BY <1>1 DEF Together

(* A directory that stays the same.                                         *)
LEMMA SameStays ==
  ASSUME NEW e \in Table, Chained(e)
  PROVE  Stays(e, e)
  <1>1. ASSUME NEW i \in Files(e)
        PROVE  Together(FileSectors(e, i), FileSectors(e, i))
    <2>1. PICK a \in Seq(Nat) : a = FileSectors(e, i)
      BY FilesAre
    <2>2. Begins(a, a)
      BY DEF Begins
    <2> QED
      BY <2>1, <2>2, BeginsTogether
  <1> QED
    BY <1>1 DEF Stays

(* One that lags behind another.                                            *)
LEMMA LagStays ==
  ASSUME NEW e \in Table, NEW h \in Table, Chained(h), Lags(e, h)
  PROVE  Stays(e, h) /\ Stays(h, e)
  <1>1. ASSUME NEW i \in Files(e)
        PROVE  /\ Together(FileSectors(e, i), FileSectors(h, i))
               /\ Together(FileSectors(h, i), FileSectors(e, i))
    <2>1. PICK a \in Seq(Nat), b \in Seq(Nat) :
            a = FileSectors(e, i) /\ b = FileSectors(h, i) /\ Begins(a, b)
      BY LagIs
    <2> QED
      BY <2>1, BeginsTogether
  <1> QED
    BY <1>1 DEF Stays

(* One file that begins as it did, or is the beginning of what it was, and  *)
(* the others as they were.                                                 *)
LEMMA OneStays ==
  ASSUME NEW e \in Table, NEW h \in Table, Chained(e), NEW i \in Files(e),
         \A j \in Files(e) \ {i} : Undisturbed(e, h, j),
         i \in Files(h) => /\ FileSectors(h, i) \in Seq(Nat)
                           /\ Begins(FileSectors(h, i), FileSectors(e, i))
  PROVE  Stays(e, h)
  <1>1. ASSUME NEW j \in Files(e), j \in Files(h)
        PROVE  Together(FileSectors(e, j), FileSectors(h, j))
    <2>1. PICK a \in Seq(Nat) : a = FileSectors(e, j)
      BY FilesAre
    <2>2. CASE j = i
      <3>1. PICK b \in Seq(Nat) : b = FileSectors(h, j) /\ Begins(b, a)
        BY <1>1, <2>1, <2>2
      <3> QED
        BY <2>1, <3>1, BeginsTogether
    <2>3. CASE j # i
      <3>1. FileSectors(h, j) = a
        BY <2>1, <2>3 DEF Undisturbed
      <3>2. Begins(a, a)
        BY DEF Begins
      <3> QED
        BY <2>1, <3>1, <3>2, BeginsTogether
    <2> QED
      BY <2>2, <2>3
  <1> QED
    BY <1>1 DEF Stays

(* The directory as the process sees it is a chained one.                   *)
LEMMA NowIs ==
  ASSUME Good(free, ent, s, lost)
  PROVE  /\ EntNow \in Table /\ Chained(EntNow) /\ ent \in Table
         /\ HasTrack(s) => EntNow = s.ent /\ s.ent \in Table /\ Chained(s.ent)
         /\ ~ HasTrack(s) => EntNow = ent /\ Chained(ent)
  <1>1. HasTrack(s) => EntNow = s.ent /\ s.ent \in Table /\ Chained(s.ent)
    BY DEF Good, IsDirectory, PathState, EntNow, HasPath, HasTrack
  <1>2. ~ HasTrack(s) => EntNow = ent /\ Chained(ent)
    BY DEF Good, IsDirectory, EntNow, HasPath, HasTrack
  <1>3. ent \in Table
    BY DEF Good, OnDisk
  <1> QED
    BY <1>1, <1>2, <1>3

(* The same after a step.                                                   *)
LEMMA NextIs ==
  /\ HasTrack(s') => EntNow' = s'.ent
  /\ ~ HasTrack(s') => EntNow' = ent'
  BY DEF EntNow, HasPath, HasTrack

(* Steps that leave the directory, or make a file longer, or read it.       *)
LEMMA GrowthStays ==
  ASSUME Good(free, ent, s, lost), Good(free', ent', s', lost'), Still \/ Lengthens \/ Loads
  PROVE  Stays(EntNow, EntNow')
  <1>1. CASE Still
    BY <1>1, NowIs, NextIs, SameStays DEF Still
  <1>2. CASE Lengthens
    <2>1. HasTrack(s) /\ HasTrack(s') /\ s.idx \in Files(s.ent)
      BY <1>2 DEF Good, Control, Lengthens, Growing5, HasTrack
    <2>2. /\ s.ent \in Table /\ Chained(s.ent) /\ EntNow = s.ent
          /\ s'.ent \in Table /\ Chained(s'.ent) /\ EntNow' = s'.ent
      BY <2>1, NowIs, NextIs, GoodIs
    <2>3. PICK x \in Seq(Nat) : Adds(s, s', x)
      BY <1>2 DEF Lengthens
    <2>4. PICK t \in Table : t = s.ent /\ Chained(t)
      BY <2>2
    <2>5. PICK h \in Table : h = s'.ent /\ Chained(h)
      BY <2>2
    <2>6. PICK i \in Files(t) : i = s.idx
      BY <2>1, <2>4
    <2>7. LongerAt(t, i, h, x)
      BY <2>3, <2>4, <2>5, <2>6 DEF Adds, Grower, LongerAt
    <2>8. Lags(t, t)
      BY <2>4, SameLags
    <2>9. Lags(t, h)
      BY <2>4, <2>7, <2>8, GrownLags
    <2> QED
      BY <2>2, <2>4, <2>5, <2>9, LagStays
  <1>3. CASE Loads
    <2>1. /\ EntNow = ent /\ ent \in Table /\ Lags(ent, s'.ent) /\ HasTrack(s') /\ EntNow' = s'.ent
      BY <1>3, NowIs, NextIs DEF Loads
    <2>2. s'.ent \in Table /\ Chained(s'.ent)
      BY <2>1, GoodIs
    <2> QED
      BY <2>1, <2>2, LagStays
  <1> QED
    BY <1>1, <1>2, <1>3

(* Steps that cut the open file.                                            *)
LEMMA CutStays ==
  ASSUME Good(free, ent, s, lost), NEW n, CutsTo(n)
  PROVE  Stays(EntNow, EntNow')
  <1>1. /\ HasTrack(s) /\ s'.pc = "flush" /\ n \in Nat /\ s.idx \in Files(s.ent)
        /\ SectorsFor(n) <= Len(FileSectors(s.ent, s.idx))
        /\ s'.ent = Truncated(s.ent, s.idx, n)
    BY DEF CutsTo
  <1>2. /\ s.ent \in Table /\ Chained(s.ent) /\ Apart(s.free, s.ent, Spare(s)) /\ EntNow = s.ent
    BY <1>1, NowIs, GoodIs
  <1>3. EntNow' = s'.ent
    BY <1>1, NextIs DEF HasTrack
  <1>4. PICK e \in Table : e = s.ent /\ Chained(e) /\ Apart(s.free, e, Spare(s))
    BY <1>2
  <1>5. PICK i \in Files(e) : i = s.idx
    BY <1>1, <1>4
  <1>6. i \in Entry /\ Ended(e, i) /\ SectorsFor(n) <= Len(FileSectors(e, i))
    BY <1>1, <1>4, <1>5, FilesAre
  <1>7. PICK h : h = Truncated(e, i, n)
    OBVIOUS
  <1>8. IsCut(e, h, i, n)
    BY <1>1, <1>6, <1>7, CutFile
  <1>9. h \in Table /\ Ended(h, i) /\ Begins(FileSectors(h, i), FileSectors(e, i))
    BY <1>8 DEF IsCut
  <1>10. FileSectors(h, i) \in Seq(Nat)
    BY <1>6, <1>9, FileType
  <1>11. \A j \in Files(e) \ {i} : Undisturbed(e, h, j)
    BY <1>1, <1>4, <1>8, CutIsExchanged DEF Exchanged
  <1>12. Stays(e, h)
    BY <1>4, <1>9, <1>10, <1>11, OneStays
  <1> QED
    BY <1>1, <1>2, <1>3, <1>4, <1>5, <1>7, <1>12

(* An entry chained to the last of the open file.                           *)
LEMMA AddContinuationStays ==
  ASSUME Good(free, ent, s, lost), AddContinuation
  PROVE  Stays(EntNow, EntNow')
  <1>1. PICK g : g = Grower(s)
    OBVIOUS
  <1>2. PICK i \in Entry :
          /\ s.pc = "use" /\ IsFreeFrom(s.ent, 1, i)
          /\ s' = [s EXCEPT !.ent = [s.ent EXCEPT ![g].next = i, ![i] = Continuation],
                            !.dirty = s.dirty \cup TrackSectors({}, {i, g}),
                            !.cut = TRUE]
    BY <1>1 DEF AddContinuation, Memory, Grower
  <1>3. /\ s \in PathState /\ s.idx \in Files(s.ent)
        /\ Chained(s.ent) /\ s.ent \in Table /\ Apart(s.free, s.ent, Spare(s))
    BY <1>2, GrowthIs
  <1>4. PICK e \in Table : e = s.ent
    BY <1>3
  <1>5. g \in Entry /\ e[g] \in Slot /\ e[g].kind # "deleted" /\ g = LastEntry(e, s.idx)
    BY <1>1, <1>3, <1>4, GrowerIs DEF Grower
  <1>6. i \in Entry \ {NoNext} /\ e[i].kind = "deleted" /\ i # g
    BY <1>2, <1>4, <1>5, EntryIs DEF IsFreeFrom, NoNext
  <1>7. PICK h : h = [e EXCEPT ![g].next = i, ![i] = Continuation]
    OBVIOUS
  <1>8. /\ h[g] = [e[g] EXCEPT !.next = i] /\ h[i] = Continuation
        /\ \A j \in Entry \ {g, i} : h[j] = e[j]
    BY <1>5, <1>6, <1>7 DEF Table
  <1>9. /\ h[g] \in Slot /\ h[g].kind = e[g].kind /\ h[g].ext = e[g].ext /\ h[g].next = i
    BY <1>5, <1>8 DEF Slot
  <1>10. h \in Table
    BY <1>5, <1>6, <1>7, <1>8, <1>9, DeletedIs DEF Table
  <1>11. PICK d : d = s.dirty \cup TrackSectors({}, {i, g})
    OBVIOUS
  <1>12. s'.ent = h /\ s'.pc = "use"
    <2>1. s' = [s EXCEPT !.ent = h, !.dirty = d, !.cut = TRUE]
      BY <1>2, <1>4, <1>7, <1>11
    <2> QED
      BY <1>2, <1>3, <2>1 DEF PathState
  <1>13. PICK k \in Files(e) : k = s.idx
    BY <1>3, <1>4
  <1>14. PICK f, x : Apart(f, e, x) /\ Chained(e)
    BY <1>3, <1>4
  <1>15. /\ h[LastEntry(e, k)].next = i /\ h[LastEntry(e, k)].kind = e[LastEntry(e, k)].kind
         /\ h[LastEntry(e, k)].ext = e[LastEntry(e, k)].ext /\ h[i] = Continuation
         /\ \A c \in Entry \ {LastEntry(e, k), i} : h[c] = e[c]
    BY <1>5, <1>8, <1>9, <1>13
  <1>16. /\ Exchanged(f, e, x, f, h, x, k)
         /\ FileSectors(h, k) = FileSectors(e, k)
    BY <1>6, <1>10, <1>14, <1>15, LongerIsExchanged
  <1>17. PICK a \in Seq(Nat) : a = FileSectors(e, k) /\ Begins(a, a)
    <2>1. PICK a \in Seq(Nat) : a = FileSectors(e, k)
      BY <1>14, FilesAre
    <2>2. Begins(a, a)
      BY DEF Begins
    <2> QED
      BY <2>1, <2>2
  <1>18. Stays(e, h)
    BY <1>10, <1>14, <1>16, <1>17, OneStays DEF Exchanged
  <1>19. EntNow = s.ent /\ EntNow' = s'.ent
    BY <1>2, <1>12, NowIs, NextIs DEF HasTrack
  <1> QED
    BY <1>4, <1>12, <1>18, <1>19

(* A file that is killed, and the others as they were.                      *)
LEMMA KilledStays ==
  ASSUME Good(free, ent, s, lost), ~ HasTrack(s), NEW i \in Files(ent), NEW r \in PathState,
         s' = Killed(r, i)
  PROVE  Stays(EntNow, EntNow')
  <1>1. /\ OnDisk(free, ent) /\ ent \in Table /\ Chained(ent) /\ Apart(free, ent, {})
        /\ EntNow = ent
    BY NowIs DEF Good, OnDisk, IsDirectory
  <1>2. PICK h : h = [j \in Entry |-> IF j \in Chain(ent, i) THEN Deleted ELSE ent[j]]
    OBVIOUS
  <1>3. s'.ent = h /\ s'.pc = "flush"
    BY <1>2 DEF Killed, Loaded, PathState
  <1>4. EntNow' = h
    BY <1>3, NextIs DEF HasTrack
  <1>5. Without(ent, h, free, free \cup Held(ent, i), i)
    BY <1>1, <1>2, KilledIsWithout
  <1>6. /\ h \in Table /\ Files(h) = Files(ent) \ {i}
        /\ \A j \in Files(ent) \ {i} : Undisturbed(ent, h, j)
    BY <1>5 DEF Without
  <1>7. Stays(ent, h)
    BY <1>1, <1>6, OneStays
  <1> QED
    BY <1>1, <1>4, <1>7

(* The calls that kill a file.                                              *)
LEMMA KillsStay ==
  ASSUME Good(free, ent, s, lost), Replace \/ \E n \in Names : Kill(n)
  PROVE  Stays(EntNow, EntNow')
  <1>1. \E i \in Entry, r \in PathState : s' = Killed(r, i) /\ i \in Files(ent) /\ ~ HasTrack(s)
    <2>1. CASE Replace
      <3>1. PICK n \in Names : n = s.name
        BY <2>1 DEF Replace, Good, Control
      <3>2. [Idle EXCEPT !.job = "replace", !.name = n] \in PathState
        BY IdleIs DEF PathState
      <3>3. PICK i \in Entry :
              Found(n, i) /\ s' = Killed([Idle EXCEPT !.job = "replace", !.name = n], i)
        BY <2>1, <3>1 DEF Replace, Memory
      <3>4. i \in Files(ent) /\ ~ HasTrack(s)
        BY <2>1, <3>3, FoundIs DEF Replace, HasTrack
      <3> QED
        BY <3>2, <3>3, <3>4
    <2>2. CASE \E n \in Names : Kill(n)
      <3>1. [Idle EXCEPT !.job = "kill"] \in PathState
        BY IdleIs DEF PathState
      <3>2. PICK n \in Names : Kill(n)
        BY <2>2
      <3>3. PICK i \in Entry : Found(n, i) /\ s' = Killed([Idle EXCEPT !.job = "kill"], i)
        BY <3>2 DEF Kill, Memory
      <3>4. i \in Files(ent) /\ ~ HasTrack(s)
        BY <3>2, <3>3, FoundIs DEF Kill, HasTrack
      <3> QED
        BY <3>1, <3>3, <3>4
    <2> QED
      BY <2>1, <2>2
  <1>2. PICK i \in Entry, r \in PathState :
          s' = Killed(r, i) /\ i \in Files(ent) /\ ~ HasTrack(s)
    BY <1>1
  <1> QED
    BY <1>2, KilledStays

(* Calls that fail or have only begun.                                      *)
LEMMA RestsStay ==
  ASSUME Good(free, ent, s, lost), Rests
  PROVE  Stays(EntNow, EntNow')
  <1>1. ~ HasTrack(s) /\ ent' = ent
    BY DEF Rests, NotFound, CreateFails, Create, Rename, NoEntryFree, Memory, HasTrack
  <1>2. ~ HasTrack(s')
    <2>1. CASE \E n \in Names : Create(n)
      BY <2>1, CreatesIsRest DEF Create, Memory, IsRest, HasTrack
    <2>2. CASE \E n \in Names : NotFound(n) \/ CreateFails(n)
      BY <2>2, DoneIsRest DEF NotFound, CreateFails, Memory, IsRest, HasTrack
    <2>3. CASE \E n, m \in Names : Rename(n, m) /\ Named(ent, m) # {}
      BY <2>3, DoneIsRest DEF Rename, Memory, IsRest, HasTrack
    <2>4. CASE NoEntryFree
      BY <2>4, DoneIsRest DEF NoEntryFree, Memory, IsRest, HasTrack
    <2> QED
      BY <2>1, <2>2, <2>3, <2>4 DEF Rests
  <1> QED
    BY <1>1, <1>2, NowIs, NextIs, SameStays

(* When all is written, the disk has what the path has.                     *)
LEMMA FlushedStays ==
  ASSUME Good(free, ent, s, lost), Flushed
  PROVE  Stays(EntNow, EntNow')
  <1>1. /\ s.pc = "flush" /\ s.dirty = {} /\ free' = free /\ ent' = ent
        /\ s' = CASE s.job \in {"file", "new"} -> [Return(s) EXCEPT !.cut = FALSE]
                  [] s.job = "replace" -> [Idle EXCEPT !.pc = "create", !.name = s.name]
                  [] OTHER -> Done("ok")
    BY DEF Flushed, Memory
  <1>2. /\ OnDisk(free, ent) /\ s \in PathState /\ AgreeBut(free, ent, s.free, s.ent, s.dirty, {})
    BY <1>1, FlushIs DEF IsSteady
  <1>3. s.free \in SUBSET Lsn /\ s.ent \in Table /\ AgreeBut(free, ent, s.free, s.ent, {}, {})
    BY <1>1, <1>2 DEF PathState
  <1>4. ent = s.ent
    BY <1>2, <1>3, AgreeAll
  <1>5. HasTrack(s') => s'.ent = s.ent
    <2>1. CASE s.job \in {"file", "new"}
      <3>1. s' = [Return(s) EXCEPT !.cut = FALSE]
        BY <1>1, <2>1
      <3> QED
        BY <1>2, <3>1 DEF Return, PathState
    <2>2. CASE s.job = "replace"
      <3>1. s' = [Idle EXCEPT !.pc = "create", !.name = s.name]
        BY <1>1, <2>2
      <3> QED
        BY <3>1, IdleIs DEF HasTrack, PathState
    <2>3. CASE s.job \notin {"file", "new", "replace"}
      <3>1. s' = Done("ok")
        BY <1>1, <2>3
      <3> QED
        BY <3>1, DoneIsRest DEF HasTrack, IsRest
    <2> QED
      BY <2>1, <2>2, <2>3
  <1>6. EntNow = ent /\ EntNow' = ent
    BY <1>1, <1>4, <1>5, NowIs, NextIs DEF HasTrack
  <1> QED
    BY <1>6, NowIs, SameStays

(* Sectors of the track that are written, or are not.  When that is the end *)
(* of the path, what is left of the files is what the disk has of them.     *)
LEMMA TrackStays ==
  ASSUME Good(free, ent, s, lost), Kept(free, ent, s), Good(free', ent', s', lost'),
         PutTrackSector \/ PutTrackSectorFails \/ Crash, ~ (s.cut /\ s'.pc = "idle")
  PROVE  Stays(EntNow, EntNow')
  <1>1. /\ s \in PathState /\ ent' \in Table
        /\ HasTrack(s) => s.ent \in Table /\ Chained(s.ent)
    BY NowIs DEF Good, OnDisk
  <1>2. CASE HasTrack(s') /\ s'.ent = s.ent /\ HasTrack(s)
    BY <1>2, NowIs, NextIs, SameStays
  <1>3. CASE ~ HasTrack(s) /\ ~ HasTrack(s') /\ ent' = ent
    BY <1>3, NowIs, NextIs, SameStays
  <1>4. CASE HasTrack(s) /\ ~ HasTrack(s') /\ Lags(ent', s.ent)
    BY <1>1, <1>4, NowIs, NextIs, LagStays
  <1>5. CASE PutTrackSector
    <2>1. s.pc = "flush" /\ s' = [s EXCEPT !.dirty = s.dirty \ {Min(s.dirty)}]
      BY <1>5 DEF PutTrackSector
    <2>2. s'.ent = s.ent /\ s'.pc = "flush"
      BY <1>1, <2>1 DEF PathState
    <2> QED
      BY <1>2, <2>1, <2>2 DEF HasTrack
  <1>6. CASE PutTrackSectorFails
    <2>1. /\ s.pc = "flush" /\ s.dirty # {}
          /\ WithTrackSector(Min(s.dirty)) \/ (free' = free /\ ent' = ent)
          /\ IF s.job = "file" THEN s' = [Return(s) EXCEPT !.ec = "EIO"] ELSE Abandon("EIO")
      BY <1>6 DEF PutTrackSectorFails
    <2>2. CASE s.job = "file"
      <3>1. s'.ent = s.ent /\ s'.pc = "open"
        BY <1>1, <2>1, <2>2 DEF Return, PathState
      <3> QED
        BY <1>2, <2>1, <3>1 DEF HasTrack
    <2>3. CASE s.job # "file"
      <3>1. s' = Done("EIO")
        BY <2>1, <2>3 DEF Abandon
      <3>2. s'.pc = "idle" /\ ~ HasTrack(s') /\ HasTrack(s)
        BY <2>1, <3>1, IdleIs DEF Done, PathState, HasTrack
      <3>3. Trails(ent', s)
        <4>1. CASE WithTrackSector(Min(s.dirty))
          BY <2>1, <3>2, <4>1, TrackKept
        <4>2. CASE free' = free /\ ent' = ent
          <5>1. Trails(ent, s)
            BY <3>2 DEF Kept
          <5> QED
            BY <4>2, <5>1 DEF Trails
        <4> QED
          BY <2>1, <4>1, <4>2
      <3> QED
        BY <1>4, <3>2, <3>3 DEF Trails
    <2> QED
      BY <2>2, <2>3
  <1>7. CASE Crash
    <2>1. ent' = ent /\ s' = Done("ok")
      BY <1>7 DEF Crash, Abandon
    <2>2. s'.pc = "idle" /\ ~ HasTrack(s')
      BY <2>1, IdleIs DEF Done, PathState, HasTrack
    <2>3. CASE HasTrack(s)
      <3>1. Lags(ent, s.ent)
        BY <2>2, <2>3 DEF Kept, Trails
      <3> QED
        BY <1>4, <2>1, <2>2, <2>3, <3>1
    <2>4. CASE ~ HasTrack(s)
      BY <1>3, <2>1, <2>2, <2>4
    <2> QED
      BY <2>3, <2>4
  <1> QED
    BY <1>5, <1>6, <1>7

-----------------------------------------------------------------------------
(* What stays, in every step *)

(* Every call leaves what stays of the files where it was.                  *)
LEMMA CallStays ==
  ASSUME Good(free, ent, s, lost), Call, Good(free', ent', s', lost')
  PROVE  Stays(EntNow, EntNow')
  <1>1. ASSUME NEW n \in Names, Open(n) \/ NotFound(n) \/ Create(n) \/ CreateFails(n) \/ Kill(n)
        PROVE  Stays(EntNow, EntNow')
    BY <1>1, OpenLoads, GrowthStays, KillsStay, RestsStay DEF Rests
  <1>2. ASSUME NEW n \in Names, NEW m \in Names, Rename(n, m)
        PROVE  Stays(EntNow, EntNow')
    <2>1. CASE Named(ent, m) = {}
      BY <1>2, <2>1, RenameLoads, GrowthStays
    <2>2. CASE Named(ent, m) # {}
      BY <1>2, <2>2, RestsStay DEF Rests
    <2> QED
      BY <2>1, <2>2
  <1>3. CASE (\E pos \in Positions : Seek(pos)) \/ Close
    BY <1>3, QuietCallsAre, GrowthStays DEF QuietCalls
  <1>4. CASE \E k \in WriteSizes : Write(k)
    BY <1>4, WriteCallsAre, GrowthStays DEF WriteCalls
  <1>5. ASSUME NEW size \in SetSizes, SetSize(size)
        PROVE  Stays(EntNow, EntNow')
    <2>1. size \in Nat /\ s.size \in Nat
      <3>1. s.pc = "open"
        BY <1>5 DEF SetSize
      <3> QED
        BY <3>1, OpenIs, DosAssumption DEF PathState
    <2>2. CASE size > s.size
      BY <1>5, <2>2, WriteCallsAre, GrowthStays DEF WriteCalls
    <2>3. CASE size < s.size
      BY <1>5, <2>3, ShortensCuts, CutStays
    <2>4. CASE size = s.size
      BY <1>5, <2>4, QuietCallsAre, GrowthStays DEF QuietCalls
    <2> QED
      BY <2>1, <2>2, <2>3, <2>4
  <1> QED
    BY <1>1, <1>2, <1>3, <1>4, <1>5 DEF Call

(* So does every step inside a call.                                        *)
LEMMA StepStays ==
  ASSUME Good(free, ent, s, lost), Kept(free, ent, s), Step, Good(free', ent', s', lost'),
         ~ (s.cut /\ s'.pc = "idle")
  PROVE  Stays(EntNow, EntNow')
  <1>1. CASE KeepSpare \/ Overflow \/ PutSector \/ Swap \/ Allocate
    BY <1>1, QuietStepsAre, GrowthStays DEF QuietSteps
  <1>2. ASSUME CutsNew PROVE Stays(EntNow, EntNow')
    BY <1>2, CutStays DEF CutsNew
  <1>3. CASE DiskFull \/ DirectoryFull
    BY <1>2, <1>3, UndoneCuts
  <1>4. CASE NewExtent \/ Use \/ Grown
    BY <1>4, NewExtentLengthens, UseLengthens, GrownLengthens, GrowthStays
  <1>5. CASE PutSectorFails
    BY <1>2, <1>5, PutSectorFailsCuts, GrowthStays
  <1>6. CASE PutTrackSector \/ PutTrackSectorFails
    BY <1>6, TrackStays
  <1>7. CASE Flushed
    BY <1>7, FlushedStays
  <1>8. CASE Replace
    BY <1>8, KillsStay
  <1>9. CASE AddContinuation
    BY <1>9, AddContinuationStays
  <1>10. CASE NoEntryFree
    BY <1>10, RestsStay DEF Rests
  <1>11. CASE NewFile
    BY <1>11, NewFileLoads, GrowthStays
  <1> QED
    BY <1>1, <1>3, <1>4, <1>5, <1>6, <1>7, <1>8, <1>9, <1>10, <1>11 DEF Step

(* That is every step, with the invariant of what the disk has.             *)
LEMMA EveryStepStays ==
  ASSUME GrowthInv, [Next]_vars
  PROVE  KeepsBeginning
  <1> SUFFICES ASSUME lost' # "files", ~ (s.cut /\ s'.pc = "idle")
               PROVE  Stays(EntNow, EntNow')
    BY DEF KeepsBeginning, Stays, Together
  <1>1. CASE UNCHANGED vars
    <2>1. ent' = ent /\ s' = s /\ lost' = lost
      BY <1>1 DEF vars
    <2>2. Good(free, ent, s, lost)
      BY <2>1 DEF GrowthInv, Inv
    <2>3. EntNow' = EntNow
      BY <2>1 DEF EntNow, HasPath
    <2> QED
      BY <2>2, <2>3, NowIs, SameStays
  <1>2. CASE Next
    <2>1. Good(free, ent, s, lost) /\ Kept(free, ent, s)
      BY <1>2, LostStays DEF GrowthInv, Inv
    <2>2. Good(free', ent', s', lost')
      <3>1. Inv'
        BY InvKept DEF GrowthInv
      <3> QED
        BY <3>1 DEF Inv
    <2>3. CASE Call
      BY <2>1, <2>2, <2>3, CallStays
    <2>4. CASE Step
      BY <2>1, <2>2, <2>4, StepStays
    <2>5. CASE Crash
      BY <2>1, <2>2, <2>5, TrackStays
    <2> QED
      BY <1>2, <2>3, <2>4, <2>5 DEF Next
  <1> QED
    BY <1>1, <1>2

(* While a file exists no step moves what stays of it: of its sectors       *)
(* before and after, the fewer are the beginning of the more, also when the *)
(* process ends or a write fails, unless a cut was not written.             *)
THEOREM BeginningsStay == Spec => FilesStay
  <1>1. GrowthInv /\ [Next]_vars => [KeepsBeginning]_vars
    BY EveryStepStays
  <1> QED
    BY <1>1, GrowthInvHolds, PTL DEF Spec, FilesStay
(* AllocatesUntilFull, unless a failure may have cost a file: as long as a  *)
(* sector is free _dd_allocate finds one, whatever the bitmap is like, and  *)
(* what it finds was free.                                                  *)
THEOREM AllocatesWhileFree == Spec => [](lost # "files" => AllocatesUntilFull)
  <1>1. ASSUME Inv PROVE lost # "files" => AllocatesUntilFull
    <2> SUFFICES ASSUME lost # "files" PROVE AllocatesUntilFull
      OBVIOUS
    <2>1. OnDisk(free, ent) /\ s \in PathState
      BY <1>1 DEF Inv, Good
    <2>2. FreeNow \in SUBSET Lsn
      BY <2>1 DEF FreeNow, OnDisk, PathState
    <2>3. ASSUME NEW hint PROVE Place(FreeNow, hint) \subseteq FreeNow
      BY <2>2, PlaceIs
    <2>4. ASSUME NEW hint PROVE (Place(FreeNow, hint) = {}) = (FreeNow = {})
      <3>1. CASE FreeNow = {}
        BY <3>1, <2>3
      <3>2. CASE FreeNow # {}
        BY <3>2, <2>2, PlaceFinds
      <3> QED
        BY <3>1, <3>2
    <2> QED
      BY <2>3, <2>4 DEF AllocatesUntilFull
  <1> QED
    BY <1>1, InvHolds, PTL
=============================================================================

# ToolShed in TLA+

ToolShed reads and writes the disk and cassette images of the Tandy Color
Computer and the Dragon: OS-9 RBF, Disk BASIC and Dragon DOS file systems
inside raw, JVC, VDK, DMK and SDF image files. This project models its file
system libraries, what they stand on and what is built on them: what a call
does to the image step by step, what can come between two steps, and what must
hold of the image then.

## The system

| Part | State it keeps | Operations | What is hard | What makes it correct |
|---|---|---|---|---|
| librbf | image: LSN0, bitmap, descriptor (FD) sectors, directory data. path: its own bitmap and the bitmap as read, file position | create, open, seek, read, write, ss_size, close, delete, makdir, deldir, rename, format | bitmap is a copy per path, written back at close; several image writes per call, each may fail; full disk, full segment list, bitmap sector boundaries; first segment shares the FD's cluster | bitmap = clusters in use; no cluster twice; size backed by segments; no loss on failure |
| libdecb | image: directory track, FAT sector. path: copy of FAT, entry, position | create, open, read, write, kill, rename, dskini | FAT copy per path; entry and FAT written at different times; chain grows granule by granule | chains disjoint, end in a last-granule mark, size agrees |
| libdragondos | image: two bitmap sectors, entries with extents and continuation entries | create, open, read, write, ss_size, kill, rename, dskinit | grow over extents, entries and a bitmap in two parts, undo when one runs out | extents disjoint and marked, end of file agrees |
| libdiskimage | table of sectors of an image, number of slots in a raw image | open, create, read and write a sector | short track 0, growth of raw images, half-recognised track formats | a logical sector is one place in the file; what is written is read |
| libcoco, libtoolshed | a path of one of the libraries above or of the host | open, create, read, ..., copy, dsave | copy between file systems that fails half way | the copy equals the source or an error is reported |
| cocofuse | open paths, one per open file of the mount | FUSE calls, several at once | paths kept open while others are used | as librbf, libdecb, libdragondos |
| libcecb, cecb | position in a tape image, to the bit; block buffer | open, create, read, write, seek, close | block protocol, gaps, files that begin on any bit, interrupted recordings | what is written is read |
| os9 tool | none of its own | dcheck, gen, copy, format, ... | dcheck recomputes the bitmap, gen writes boot file and LSN0 | dcheck agrees with librbf |
| the rest | none that lasts | assemblers, archivers, converters, GUI | | |

The tools and cocofuse call libcoco, which calls librbf, libdecb, libdragondos
or libnative; the first three call libdiskimage. Nothing is shared between
paths but the image file.

| Modules | What they model | Composed in |
|---|---|---|
| RbfBitmap, RbfFd, Rbf, RbfInv | librbf on one directory, write by write | MCRbf |
| RbfTree | librbf on a tree of directories, call by call | MCRbfTree |
| DecbFat, Decb, DecbInv, FileStore | libdecb, and what it promises | MCDecb |
| DragonMap, DragonDir, DragonDos | libdragondos | MCDragon |
| RbfSasScan, DecbSearch, DragonSearch | the three searches for free space, round by round | Ground |
| DiskImage, DiskTable | raw images; the sector table of track images | Ground |
| Dcheck | os9 dcheck | Ground |
| Cassette | libcecb on CAS and C10 images | Ground |
| FileRead | read and readln of librbf, libdecb and libdragondos | Ground |
| Copy | copying between images and the host | Ground |
| RbfSafety | proofs about Rbf | |
| TreeProofs | proofs about RbfTree, on Iteration's numbers | |
| Iteration, DecbProofs | proofs about DecbFat and Decb | |
| DragonInv, DragonDirProofs, DragonProofs | proofs about DragonDir and DragonDos | |
| GroundProofs | proofs about RbfSasScan, DecbSearch, DragonSearch, DiskImage and Copy, in Ground | |
| ReadProofs | proofs about DiskTable and FileRead, in Ground | |

The hazards, each at its line, are the list `hazards` of PROJECT.json.

## What is modelled

**RbfBitmap** is the allocation bitmap: a set of clusters. Its two searches
(`_os9_getfreebit`, `_os9_getSASSegment`) are stated by what they return.

**RbfFd** is the descriptor sector: link count, size, segment list. It has the
pure parts of librbf: capacity (`_os9_maximum_file_size`), growing the last
segment, cutting the last cluster, what a rollback gives back.

**Rbf** is librbf at work on one directory. `dbm`, `fd` and `ent` are the image,
`s[p]` is what a path holds in memory with `pc`, the step its current call
comes to next. Each write to the image is a step, and each round of an
allocation or truncation loop:

| pc | next steps | code |
|---|---|---|
| idle | Open, Create, Delete, Rename | the call's entry |
| open | Seek, SetSize, Write, Close | a path a caller holds |
| extend | ExtendLast, NewSegment, RollBack, PutData, PutDataFails | `_os9_write`, `_os9_extendSegList` |
| putfd | PutFd | `_os9_write`, last step |
| truncate | Cut, PutCut | `_os9_truncate_seg_list` |
| putmap | PutBitmap | `term_bitmap`, and the return |
| parent, check, newfd, reopen | OpenParent, Replace, AllocateFd, PutNewFd, Reopen | `_os9_create` |
| unlink, release | NotFound, Unlink, Release | `_os9_delete` |

`_os9_writedir` is `_os9_write` on the directory, so create, delete and rename go
through extend, putfd and putmap too (`job` says for which call). The data of
the directory is `ent`; the data of files is left out. File names are model
values; the segment list is in whole clusters (RbfFd says why nothing is lost).
Reads do not fail. `lost` is a history variable: the worst that failures so far
may have cost.

The environment is given by constants. `Exclusive`: at most one path is open
for writing, which is what every command line tool does. `Serial`: calls do not
overlap. Both FALSE is cocofuse with threads. `Faults`: an image write may
fail. `Crashes`: the process may end between two steps. `Growing`: ss_size may
enlarge a file.

**RbfInv** is the inductive invariant of Rbf (see What is proved); rbf_faults
checks it too. **DecbInv** is that of Decb, **DragonInv** that of DragonDos.

**RbfTree** is librbf on a tree: `node` has a descriptor for each cluster, with
the entries of its data when it is a directory. A call is one step here
(`_os9_open`'s walk from the root, create, makdir, delete, rename, setting
attributes), as RBF's own steps are in Rbf, but `_os9_delete_directory` is one
step for each call it makes itself, by pathname: `del` is the stack of its
recursive calls, each with the offset it reads on from. The process may end
between two of them, which leaves a tree half deleted for later calls to find; a
disk that is full leaves a directory half made.

**MCRbf** instantiates Rbf for TLC. Its view drops descriptors nothing refers to
and what a deleted entry used to name, which no step reads.

**DecbFat** is the file allocation table of a Disk BASIC disk: the chain of a
file in it, its size, the granule `find_free_granule` returns. **Decb** is libdecb
at work: `fat`, `dir` and `data` are the image, `s` the path with its copies
`FAT`, `saved_FAT` and `dir_entry` (`fat`, `saved`, `entry`):

| pc | next steps | code |
|---|---|---|
| idle | Open, OpenFindsNothing, OpenFails, Create, Kill, Rename | the call's entry |
| open | Seek, SetAttributes, WriteBeyondEnd, Write, Close | a path a caller holds |
| grow | Grow, GrowFails, Grown | `extend_fat_chain` |
| data | PutGranule, PutGranuleFails | the loop of `_decb_write` |
| entry | PutEntry, PutEntryFails | `_decb_writedir` |
| putfat | PutFat, PutFatFails | `_decb_close_image` |
| create, newentry | CreateFails, Replace, NewEntry, PutNewEntry, PutNewEntryFails | `_decb_create` |
| kill, erase | KillOpens, KillFindsNothing, KillFails, Erase, EraseFails | `_decb_kill` |

One path is open at a time. `Opens` and `EntryOf` say how names match:
`_decb_open` compares without case and the whole name, `_decb_create` with case
and eight characters and three. `data[g][o]` is the position in the file of the
byte there, so that a byte in the wrong place shows. `held` counts image files
left open that nobody can close. `torn` and `lost` are history variables: the
files of which a write failed, and what failures may have cost. **FileStore** is
what Decb implements (`IsStore`): a set of named files of some size, each call
changing one at one instant. A write takes effect for it when the chain has
grown; a create when the entry is on the disk, a kill when it no longer is.

**MCDecb** gives Decb its names.

**DragonMap** is the bitmap of a Dragon DOS disk, as the set of its free sectors,
and `_dd_allocate`: where the search by tracks and `scan_bitmap` look, stated by
what each part returns. **DragonDir** is the directory: a header entry and the
continuation entries chained to it, their extents, the file size they make, and
what `_dd_truncate` leaves and gives back. **DragonDos** is libdragondos at work:
`free` and `ent` are the image, `s` the path with its copy of the directory
track, the sectors of it that changed (`dirty`) and those allocated ahead
(`spare`):

| pc | next steps | code |
|---|---|---|
| idle | Open, NotFound, Create, CreateFails, Kill, Rename | the call's entry |
| open | Seek, Write, SetSize, Close | a path a caller holds |
| swap, allocate | Swap, KeepSpare, Allocate, DiskFull | `grow` at `_dd_allocate` |
| use | NewExtent, AddContinuation, DirectoryFull, Overflow, Use | the loop of `grow` |
| grown | Grown | the end of `grow` |
| data | PutSector, PutSectorFails | the loop of `_dragondos_write` |
| flush | PutTrackSector, PutTrackSectorFails, Flushed | `_dd_flush`, and the return |
| create | Replace, NoEntryFree, NewFile | `_dragondos_create` |

Each call changes only the path's copy of the track and writes it at its end,
the bitmap's sectors first. One path is open at a time, which dragondospath.h:21
demands. The data of files is left out, and so is what a killed entry still
holds, which no step reads before it is cleared. The flag that ends the
directory is left out: entries are taken from the lowest up, so no entry in use
comes after one that has it. `cut` (the path has cut or chained entries since
its last complete flush) and `lost` are history variables. **MCDragon** has the
view, which drops the result of the last call, and the constraint of
dragon_faults.

**Ground** puts side by side the parts that share no state with each other:

- **RbfSasScan**, **DecbSearch** and **DragonSearch** are the loops of
  `_os9_getSASSegment`, `find_free_granule` and `_dd_allocate` with `scan_bitmap`,
  one round a step, over all bitmaps. They justify `IsSasSegment`,
  `IsNearestFree` and `Place`, by which Rbf, Decb and DragonDos allocate.
- **DiskTable** is `di_table_add_track`, one recorded ID a step, for IDs in any
  order, with duplicates and rejected ones, and the binary search of
  `di_table_find`.
- **DiskImage** is a raw image under the addresses librbf makes: `file` its sectors,
  `opens[o]` what an open knows of its size. Track 0 may be short, so that its
  unused slots lie between sectors; reading looks at the file's size again
  before it calls a sector missing; a write past the end fills what is between
  with zeros, and may fail at each sector it adds. Half a sector is written by
  reading the other half first. A sector's half holds the number of the write
  that wrote it. Every open has its own FILE, which reads through a buffer
  (`di_read_at` is `fseeko` and `fread`, and nothing calls `setvbuf`): `held[o]` is what
  it has, by slot. A seek inside the buffer does not read the file again; one elsewhere, the
  look at the file's size and a write of its own do (`Fill`, `Overtakes`). The buffer begins
  at the slot sought or at its block (`Filled`), as C libraries differ in that; one that reads
  again more often behaves as an open that sought elsewhere. `missed[o]`, a history variable,
  is which sectors another open wrote while they were in the buffer.
- **FileRead** is one call of read or readln of the three libraries, from any
  position, a round of its loop a step, on any segment list, granule chain or
  extents; each read of the image may fail. A byte is its address. A file of
  librbf may be a byte larger than its segments, as `_os9_ss_size` makes it.
- **Dcheck** is `os9 dcheck`: `stack` has the recursive calls of
  `BuildSecondaryAllocationMap`, `secondary` the map they make. The disk is any,
  and need not be one librbf can make.
- **Cassette** is libcecb on a CAS or C10 image: `tape` its bytes, `path` the open path
  with what it has written (`out`, `data`) or where it is (`pos`, `data`, `at`), and
  `files` what was recorded, a history variable. Files are recorded one after the
  other, each from the tape's last bit on, so all but the first lie seven bits off
  its bytes; `NextBlock` finds and checks a block from any bit. A block may be bad on
  the tape, a recording may be interrupted, and one may begin over the others
  (`cecb copy -p`). A caller stops at the first error.
- **Copy** is `TSCopyFile`: open, create, a buffer at a time, close, and the delete
  when one of these fails. `missed` says the host failed at something libnative
  does not report.

The variable `l` is the record of the loop, walk or tape that runs, or says which of
the two others does.

## The runs

| run | what it asks | bounds |
|---|---|---|
| rbf_core | are bitmap, descriptors and directory consistent, and does every call return | 10 clusters in 2 bitmap sectors, lists of 2 usable segments, 2 names, files up to 6 entries (3 sectors), allocation unit 2: the disk fills, lists fill, segments meet a boundary, the directory grows |
| rbf_faults | what does a failed write or a crash cost | 6 clusters of 2 sectors, files up to 4 entries, also by ss_size, at most two interrupted deletes of one file; a behaviour ends when `lost = "files"` |
| rbf_tree | are clusters in use those of reachable files, does deldir delete what it names | 9 clusters, 3 entries to a cluster, so directories grow; 2 names, 3 names deep; a directory may be unwritable; files of no cluster or one: the disk fills in makdir and create |
| rbf_unreadable | the same, when a directory may be unreadable | as rbf_tree. No: NoOrphans is violated |
| rbf_shared | may two paths be open for writing, as under cocofuse | 8 clusters, 2 paths, 2 names. No: NoSharedCluster is violated |
| decb_core | are chains, directory and data consistent, does every call return, is libdecb a FileStore | 4 granules of 2 sectors of 2 bytes, 2 entries, names foo and FOO, files up to 9 bytes (3 granules), writes of 3 and 6 bytes, so one that adds two granules; the disk and the directory fill; one image file can be open, so one that leaks shows |
| decb_faults | what does a failed write or a crash cost | the same disk, names foo and bar, files up to 6 bytes; a behaviour ends when `lost = "files"` or two files are torn |
| decb_rewrite | does `decb copy -r` rewrite | one name of nine characters. No: RewriteIsDone is violated |
| dragon_core | are bitmap, extents and sizes consistent, does allocation find what is free, does every call return | 15 sectors in tracks of 3, of which the first bitmap sector covers 12, bytes of 2, extents of up to 4, 3 entries with 1 extent in a header and 2 in a continuation, sectors of 2 bytes, writes of 7 and files up to 14, cuts to 3: disk, directory, entries and extents fill, runs end at the end of a bitmap sector |
| dragon_faults | what does a failed write or a crash cost | 10 sectors in tracks of 2, 2 entries in 2 sectors of the directory, extents of up to 2, files up to 7 bytes; a behaviour ends when `lost = "files"` |
| ground | do the searches find what is free, does a table find the sector recorded first, is what was written to a raw image what is read, does a read get the bytes of the file, is dcheck's verdict right, is a recorded file read as written, is a copy whole or gone | every bitmap of 9 clusters in 3 sectors with every length; every set of free granules of 8 and every one to start from; every bitmap of the disk of dragon_core (18 sectors counting those of its second bitmap sector that are not there) with no hint, one in each half; 3 IDs of 3 numbers on the first track and 1 on two others; images of 4 sectors, tracks of 3, track 0 of 2 or 3, 2 opens with buffers of 2 slots, 3 writes; files of up to 3 segments of 1 or 2 sectors, granules of 2, sectors of 2 bytes, 1, 3 or 5 bytes asked for, with no CR, one or nothing else; dcheck on 8 sectors with a root, 2 other descriptors, directories 3 deep, cycles and entries past the end; tapes of 2 files of up to 4 bytes in blocks of 3, silences of 2 bytes and leaders of 1, with gaps or not, one name or two; every source of 5 bytes of CR, LF and another, by buffers of 2 or 3 |
| dcheck | is a disk dcheck calls intact one where nothing is shared | the disks of ground. No: IntactSharesNothing is violated |

For RBF, sizes are counted in directory entries, `Bps` of them to a sector, so that the
rounding of sizes to sectors matters; a write is of 1 or 3 of them, so it ends
inside a sector or on its end. Disks are small enough to fill up within two
files and large enough for a fragmented list.

Fairness is used by rbf_core, decb_core and dragon_core only: weak fairness of
each path's library steps. A library function that was called runs to its end, callers need
not call. Deadlock is checked in all runs of Rbf, Decb and DragonDos (a caller can
always call). It is not in rbf_tree and rbf_unreadable, where a disk can be full
of what may not be written, nor in ground and dcheck, whose loops, walks and
copies end.

Four runs show a disagreement with what the repository says of its code. **rbf_shared**: two files are
copied onto a mount: the first is created, written and still open when the
second is created. The second call's path reads the bitmap from the image,
where the first file's clusters are still free, and takes one of them.
doc/docs/tools/cocofuse.md:26 says standard tools may be used on the mount.
The lines are librbfopen.c:951 (read at open), :973 (written at close).

**decb_rewrite**: the file on the disk was created with a name of nine characters,
of which its entry has eight. Creating it again finds the entry; `_decb_kill`
compares the whole name, finds nothing and leaves the image open;
`_decb_create` ignores that (libdecbopen.c:279) and calls itself, until the image
cannot be opened any more and the copy ends with EOS_BPNAM.
doc/docs/tools/decb.md:63 says of `-r`: "Rewrite if file exists".

**rbf_unreadable**: `_os9_delete` takes for a file what does not open as a directory
that can be read (librbfdelete.c:181). A directory whose owner may not read it is
deleted as a file, by del and by deldir for what is below, and the clusters of
what was in it stay marked with no path to them. The comment above
(librbfdelete.c:185) says it cannot be used to delete directories.

**dcheck**: a file's descriptor sector is marked without asking whether it is
marked (os9dcheck.c:483), so one that lies in the data of a file visited before
is not counted, and the disk is called intact; nor is a directory counted that
is skipped because its descriptor lies there. It is what rbf_shared does to a
disk. unittest/librbftest.c:753 says "dcheck is the independent referee that the
on-disk structure stays valid". VerdictIsRight is what does hold: without a
circular reference, an intact disk has no segment in another, none outside the
disk, and nothing in use that the bitmap has free.

Every property of a passing run has a mutant: a definition named next to the one
it replaces, which is what a plausible bug would make of it.

## What is proved

For every disk, cluster size, allocation unit, list length, set of names and
paths, and with faults and crashes or without:

- **RbfSafety**, first part: `Spec => []TypeOK` (TypeCorrect), also when several paths
  are open, and the lemmas about segment lists it rests on.
- RbfSafety, the rest: if one path is open for writing at a time (`Exclusive`),
  `Spec => []Inv` (InvariantHolds), and from it NothingShared, ExactAtRest,
  ExactWhileOpen, FailuresOnlyLeak and GrowthOnlyIsExposed, which are the
  properties NoSharedCluster, AtRestExact, OpenExact, FailureOnlyLeaks and
  OnlyGrowthIsExposed of the runs. Without `Exclusive` they are false
  (rbf_shared).

The assumptions are those on the constants in RbfBitmap, RbfFd and Rbf: a
cluster has at least a sector, a sector at least two entries, a list at least
two segments (one is kept empty), the root directory lies on the disk.

None of the properties is inductive: that a bitmap in memory is exact between
two calls says nothing of the middle of a call. **RbfInv** says what holds there.
`Inv` is `OnePath`, and, as long as no failure was of the kind that may cost
files, `Good`:

- `Sound`: each reachable descriptor's list names no cluster twice and none of
  the system area (`Layout`), no two descriptors share one, no two entries name
  one descriptor, and the directory's size is backed by its entries and its
  segments. The last is why an entry written in place never extends the
  directory, so that delete and rename change no descriptor but by the link
  count.
- at rest, the disk's bitmap covers what is in use and is exactly that if
  nothing was lost (`Marks`), and each link count is 1 (`Linked`: otherwise
  delete would leave a file's clusters marked).
- `PathInv(r)` for the path at work: per `pc`, what its bitmap marks beyond or
  below what is in use. During an extension it marks the grown list and, in a
  create, the new descriptor (`AtExtend`, `AtPutFd`); during truncation it marks
  the cut list (`AtTruncate`); while an entry is being removed it no longer marks
  the file. `Extending` says the list in memory is the one on the disk, grown:
  so a rollback gives back what was added and nothing else. `Covered` says what
  the disk's bitmap covers at that step, which a crash would leave.

InitInv, InvNext and the lemmas named after the actions are the three facts;
each action has its lemma. A step that only changes the path's own memory goes
through `Quiet` (nothing on the disk changed) and `Settle` (the other paths are
idle). `LostForGood` carries the case that files may be lost.

RbfSafety, with `Exclusive` as well, has OneMapSectorEach
(SegmentsInOneMapSector) and SizesMatch (SizeMatchesSegments), the second for callers
that do not enlarge files with ss_size (`~ Growing`), which gives a file a size
without segments. Both follow from `FitInv`, which says of the descriptor a path
works on in memory what they say of those on the disk, and that a file nobody has open was
trimmed when it was closed; its proof uses that of `Inv`.

**TreeProofs** proves of RbfTree, for every disk with room for the root directory, every size
of a cluster, set of names and depth, and for deletions that are interrupted at any step:

- NothingOrphaned (NoOrphans): the clusters in use are those of what can be reached from the
  root, and only those;
- DeletionIsExact (the action property DeletesWhatItNames): what deldir names is gone when
  it returns, nothing else is, and it only fails where some directory may not be written.

Both assume `Readable`: no owner has a file or directory he may not read. Without it
NoOrphans is false (rbf_unreadable).

NoOrphans follows from the invariant `TreeInv` (TreeInvHolds). There is a set `live` of
nodes and a depth `h` of each, such that

- `IsTree`: every node but the root has one entry with a name, in a directory one level
  above it; the names of a directory differ, and its "." is itself;
- `Marked`: the clusters in use are the nodes and their data, each of one node;
- `Stack`: the directory of each waiting call of `_os9_delete_directory` is where its
  pathname leads, and has no entry before the one the call is at, except that of the
  call it made.

The depths are there for the last. The calls go by pathname and walk from the root each
time, while entries disappear; a change of an entry at a depth leaves every pathname up to
it leading where it did (AboveIsSame). LeafAdded, LeafRemoved and NodeRenamed say that a
tree stays one; LowestIs, that the cluster `_os9_getfreebit` finds was free; ReachedIs, that
`live` is what pathnames lead to, which NoOrphans asks. LeafRemoved is for a node that has
no files; that what `_os9_delete` takes for a file is one is where Readable is needed.

DeletesWhatItNames needs more, since it compares the trees before and after a step.
`CallsInv` has `Dotted`, that a directory with files has its "." and the root may be written,
and `Calls`: the waiting calls are all for directories below the one named, and all but the
last are reading; the last works on a directory until it has cleared the attribute. Two
pathnames do not lead to one node (PathIsUnique), so an entry that is deleted takes one pathname
from the tree and no other (GoneTree), and what has no entries has nothing below it
(NothingBelow). RefusedIs says what a refusal is: the walk finds all it looks for, so
only a directory that may not be written can stop it.

For every Disk BASIC disk, directory, set of names, sizes and positions, and with
failing writes and crashes or without:

- **DecbProofs**, first part: the chains of one FAT. A chain that ends is a list of
  different granules (ChainShape); what linking another granule, another mark on
  the last one and changes elsewhere make of it (AppendedShape, MarkedShape,
  SameChain); that the mark and the entry say the size that was asked for
  (LastForIs, FileSizeIs), and that every position below the size is in a granule
  of the chain (PositionInChain).
- **Iteration**: what the proofs about chains, here and of Dragon DOS, need to
  know of a recursive function on numbers. That it exists, and what holds along it, is proved from the least
  number of a set at which it would fail.
- DecbProofs, the rest: `Spec => []Inv` (InvHolds), and from it NoGranuleIsShared,
  NoGranuleIsLost, ContentsStayIntact, OtherFilesSurvive and TypesHold, which are
  the properties NoSharedGranule, NoGranuleLost, ContentsIntact, OthersSurvive and
  TypeOK of the runs. TypeOK itself holds without failures
  (TypesHoldWithoutFailures); with them, as long as no file was lost: a path on a
  lost file may follow a chain to no granule.
- DecbProofs, last part: without failures Decb implements FileStore (ImplementsStore,
  the property IsStore). Of its steps only four are seen as the store's: the mark on
  the last granule of a chain that was extended is Grow, the entry of a new file
  that is written Create, an entry that is erased Remove, one that is
  written with another name Rename. All others, the write of the FAT among
  them, leave every name with the size it has (StepsAreTheStores): what the
  disk says before that write is what the path says, and after it the disk does.

The assumptions are those on the constants in DecbFat and Decb: FAT bytes below
192 are granules and the mark of a last granule is not that of a free one (at
most 62 sectors in it); bounds fit each other; a name in the directory is not the one
of a free entry.

Again none of the properties is inductive, and **DecbInv** has what is: `Inv` is
`Sound`, as long as no FAT was lost that an open file needed. What a growing file
is depends on whom one asks: the disk has the chain it had when the file was
opened, the path has one that is partly extended, and if the disk is full it goes
back to the one before the write. `Sound` relates the three:

- `Base` is the FAT in which every file is complete: the disk's with no path
  open, the path's otherwise, and the one to go back to while the file grows. In it
  `Chains` holds: every file is a chain of its own with some sector in use, and
  every granule that is taken is some file's. `Growing` says the same of the
  chain while it grows, but for the mark of its last granule.
- `PathFat`: the path's FAT differs from the disk's at granules of its own
  file only, and by growth only: what is taken on the disk is taken in it, with no
  lower mark. This is what makes a step that gives up, closes or crashes leave
  the other files whole: their chains are the same in both (OtherOnDisk).
- `Writing`: where a write is; the granules of the chain before it grew are the first of
  the one after, so that what was right at a position stays so.
- `Others`, `Own`, `OwnOnDisk`: which bytes are right: all of the files that are not
  open, by the disk; all of the open one by its path, but those a write is at;
  and by the disk too, while the chain there is the path's. The last is not
  the property's, but needed: a path that wrote inside its file and is then closed
  without changing its FAT, or whose process ends, leaves the entry on the disk
  with the data written.
- `Control`: what each step of a call is for, that no name is in the directory
  twice, and how the path's entry relates to the one there.

Each action has its lemma, or shares one with those that do the same to Sound
(QuietSound: only the path's registers change; LoadsSound: a path is opened;
RestsSound and ClosesSound: none is left).

For every Dragon DOS disk, directory, set of names, sizes and positions, and with
failing writes and crashes or without:

- **DragonDirProofs**: chains of entries and their sectors. A chain that ends is
  met in so many steps (ChainShape), and the file's sectors are those of its
  entries put together, one entry at a time (FileIsFacts, SectorsBeforeIs); a file
  cut to a size keeps the first sectors for it and gives back the others (CutFile);
  and what a step does to one file alone leaves the others apart and accounted for
  (`Exchanged`, ExchangedIsApart, ExchangedIsExact).
- **DragonProofs**: `Spec => []Inv` (InvHolds), and from it NoSectorIsShared,
  NoSectorIsLost, SizesAgree and FilesStayWhole, which are the properties
  NoSharedSector, NoSectorLost, SizeAgrees and FilesWhole of the runs, and
  AllocatesWhileFree: a write that takes no sector is one for which none is left
  (AllocatesUntilFull), unless a failure may have cost a file. Then
  `Spec => []GrowthInv` (GrowthInvHolds), and from it GrowthExposesNothing
  (GrowthNeverExposes) and BeginningsStay (the action property FilesStay).

The assumptions are those on the constants in DragonMap, DragonDir and DragonDos:
the parts of the directory track lie where tracks begin, the disk ends after
them, and it has fewer sectors than 65535 (`Total <= NoHint`), the number the code
uses for none: it takes no disk to have more than the 2880 that two bitmap sectors
mark (libdragondosdisk.c:68).

**DragonInv** has what is inductive. `Inv` is `Good`, as long as no failure may have
cost a file:

- `IsDirectory` of the directory that counts: the path's copy when there is one, the
  disk's otherwise. Every chain ends and has entries of its own (`Chained`), no
  sector has two owners among the files, the free sectors, the
  reserve and the directory track (`Apart`), and none has no owner if nothing was lost
  (`Exact`).
- `Agree`: the disk has what the path has in all sectors of the track that are
  not marked to be written (`dirty`). So when all are written the disk is the path's,
  and while none is, it is still what it was. The one exception is an extent that
  was begun and has no sector yet (`Pending`): its entry is not marked before
  sectors are added to it, and there is no step between at which the track is written.
- `Growth`: what the file has and what it still needs is what the goal takes. `Behind`: the sector
  looked for first (`hint`) is the one behind the file's last, and when sectors are
  added to the last extent, those in reserve follow it. That is why an extent made longer
  names the sectors taken and not others.
- `Entered`: every entry has room for its extents and no empty one, but the one a
  growth is at, while it is.
- `Control` and `Sizes`: what each step of a call is for, and that between calls the
  path's size is that of its entries.

A failure may leave some of the track's sectors written and others not. What
is on the disk then is safe or not (`Safe`, which Abandon looks at: `lost`); if it
is, it is the disk of no path, and all of Inv holds of it but Exact. CallKeeps and
StepKeeps put together the lemmas of the actions.

`GrowthInv` adds `Kept` to it, for what a failure leaves of a growth. Inv does not say that
the disk is safe while some sectors of the track are written and others not, and it need not
be: after a cut, sectors that are free in the bitmap written first are still in the
entries written later. Kept says that as long as the path has cut, killed and chained
nothing (`cut`), the disk is safe and lags behind the path (`Lags`): the chain of each of
its files is the path's, and so are the sectors of each entry, except that the last may
have fewer (`Precedes`). A sector of the track that is written then only takes sectors
from the free ones, or adds to a file sectors which the bitmap, written before,
already has as taken. `Trails` is what it takes for this to stay so: a file the disk
does not have yet is of one entry, and the disk has no more of the open file than a call
that fails cuts it to. A path that is opened has what the disk has; one that a failed
write leaves open still lags so, or has `cut` set, the exception GrowthNeverExposes
makes.

FilesStay goes by what a step does to the directory that counts: it leaves the entries
alone (a write, a seek, a sector of the track), lets a file grow at its last entry
(GrowthStays, AddContinuationStays), cuts it (CutStays), kills files (KillsStay), or ends
the path, when the disk's directory, which by Kept lags behind the path's, takes its place
(LagStays). CallStays and StepStays have one step for each action.

**GroundProofs** proves of what Ground puts together:

- SegmentIsFound and GranuleIsFound (SegmentFound and GranuleFound): for every bitmap
  or FAT, the loops return what Rbf and Decb allocate by. `Scanned` says of the
  first what is known at a cluster: how many before it are free in a row, in its
  sector of the bitmap, and the first of the longest runs before those; so it
  is that the loop may stop at the length it wants. `Swept` says of the second that all
  granules nearer than the one it looks at are taken: those of the tracks
  between the two ends it has reached, and how many steps that took (`CountBefore`), which
  is why it stops in time and not before all were looked at.
- SectorIsPlaced (SectorPlaced): for every set of free sectors, hint and count, the rounds of
  `_dd_allocate` return what DragonDos allocates by. `SearchInv` says for each phase
  what is known: the tracks passed downwards and upwards have none that could be taken
  (`DownSwept`, `UpSwept`); the run kept is the first of the longest that have
  ended (`ScanSwept`); and of the run chosen, the bits passed in its byte are taken
  (`Skipping`) and those given are free (`Taking`). A byte's bits lie in one
  sector of the bitmap (`MapSector % MapByte = 0`), so a run does not reach into the other.
- ImageWrittenIsRead and ImageChangesOneSector (WrittenIsRead, OneSectorChanges): a raw
  image that several opens read and grow. `ImageInv` says that no LSN has a slot
  between track 0 and the rest, that what is there is zeros, that
  no open knows of more slots than there are, that each slot holds what was last
  written to its LSN (`SlotsHold`), unless half of it was written by an open that did not see
  the rest, and that what a buffer has of a sector is what is in the file unless another
  open wrote it since (`BuffersHold`).
- CopyLeavesNoHalf (FailureLeavesNoHalf), and PlainCopiesAreWhole: what is written
  at each buffer is the source up to its end (`WholeInv`), for copies that do not translate
  or translate CR to LF, which acts on each byte by itself. Of the other translation
  CopyIsWhole is model-checked: what it drops and keeps is a recursive
  selection from a sequence.

**ReadProofs** has SectorIsFound (SectorFound): for every three lists of recorded IDs and
every ID sought, the search of a track image's table returns the first ID recorded with that
number on that track, or none if there is none. `Ordered` says of the track being read that
its entries are the first IDs of each number, by number, up to the ID read next; `Tabled`
that the tracks before are in the table, by track, side and number; `Narrowed` that the
binary search has passed over only keys lower, or higher, than the one it seeks.

It also has FileIsRead (ReadsTheFile). The file is any that one of the libraries can have:
segments or extents of any length, or whole granules with a mark and a count of bytes in
the last; a call begins anywhere in it, asks for any number of bytes, and lines end at
any of its bytes. The invariant, `ReadState`, is about where the segments end: `f[k]` bytes lie
in the first k (`Laid`; that there is such an f is JoinsExist, FlattenIs and
FileBytesAre, an induction over the segments). `Backs` says that the size the library keeps
is that of the segments, or for librbf one byte more; `Reads`, that what was read is a part
of the file from where the call began, with no line end before its last byte;
`Placed`, where the loop is: librbf's has passed over the segments before
`filepos` and counted their bytes in `accum`, libdecb's is in the granule that has `filepos`.
A round copies a piece of one segment, which is what follows in the file (TookIs); for that a
lemma for each library finds the piece: SegmentCopied, GranuleCopied, and SectorCopied, which
rests on SectorIs, that `_dd_sector_lsn` counts through the extents to the one of `filepos`.
ReadsAnswer says that when nothing is left to read, this is what was asked for.

GroundAssumption is what the drivers make sure of: at least one cluster to a bit of the
bitmap and one sector to a track; track 0 has no more sectors than the others; granules
come two to a track, no more than a FAT byte can count. A Dragon DOS disk has two bitmap
sectors of whole bytes and whole tracks at most, and its directory lies where a track begins.
Sectors, granules and segments have bytes, a buffer has room for a sector, and a call asks
for at least one byte. Sector numbers
are naturals. Of the bounds it says only that they are numbers.

Only model-checked:

- that every call returns: liveness is out of the prover's reach;
- that MaxSectors is the sum the code computes (CapacityIsSum in MCRbf): it is a sum over
  a segment list of any length;
- CopyIsWhole where CR LF or LF is translated: what a buffer keeps is a selection from a
  sequence, and that the library's operator for it keeps what it should is an induction;
- VerdictIsRight and RecordedIsRead: not attempted. They need an invariant about dcheck's
  stack, and one about the shape of a tape on which files lie at any bit;
- TypeOK of DragonDos: not attempted yet (see Plan).

## What the code does besides

Where the models follow the code and a property has an exception for it, or
none could be stated:

- `_dd_allocate` does not take "the lowest track found", as its comment says
  (libdragondosbitmap.c:200): it forgets a track when it passes one that is taken
  (line 250), so of single tracks below the directory only track 0 can be
  taken. No file is harmed.
- A copy with translation to an image looks for the kind of line ends in every
  buffer by itself: a CR LF pair that two buffers share is mistranslated when
  the second has no other pair (CutPair in Copy), as is a file of several kinds.
- Copying to the host overwrites without -r (`_native_create` does not look at
  FAM_NOCREATE), and short writes and failing closes there are not reported.
  When the host cannot read its source (a directory, say), `_native_gs_eof`
  pushes back a byte it never read, and the copy may not end. os9.md:79
  promises an exact copy.
- A copy whose close fails leaves what it wrote.
- An interrupted recording has no end block. Reading it ends without an error where
  the tape does (libcocoopen.c:556), or goes on with the next file's header and
  data (libcecbread.c:73); and writes that fail are not noticed
  (libcecbcas.c:88). The option `-p` of cecb copy is not parity, as cecb.md has it,
  but records at the place `-s` gave, over what is there.
- `TSMoveFile` of a directory makes an empty one and deletes the source.
- An open of a raw image that has a sector in its FILE's buffer (4096 bytes, so with up
  to 15 neighbours) does not see that another open has written it, until it writes
  itself or reads elsewhere (libdiskimagetable.c:31, libdiskimageopen.c:31). It reads the old
  sector (Stale in DiskImage), and half a sector it writes puts the old other half back
  (blind). WrittenIsRead says what is promised: every other read is of what was last written.
  Of Rbf with two paths, rbf_shared, this is left out: its paths read the image itself, so
  what it shows needs no buffer.
- An open of a raw image whose write failed while it grew the file counts slots
  but no sectors (Behind in DiskImage): it takes them for missing, and half a
  sector written by it loses the other half (blind).
- diskimage.h:28 says sectors between are filled with $FF; `raw_extend` fills 0.
- A file made larger by ss_size has no clusters there. Reading past its segments
  fails (librbfread.c:147), a read across their end returns what they have and
  says it is all (line 170), and `_os9_readln` looks for a segment past the end of
  the list (librbfreadln.c:84 has `||` where `_os9_read` has `&&`).
- `_os9_makdir` drops the result of its last close (librbfmakdir.c:90). deldir that
  fails because the parent may not be written leaves the directory turned
  into an empty file. deldir of the root clears the root's own attribute. `os9 attr -nd`
  (os9attr.c:108) clears that of a directory that is not empty, and no path leads to what is
  in it; RbfTree's SetAttributes does not do that.

## What is not modelled

The parts listed not_modelled in PROJECT.json. Of librbf: the data of files
while they change (Rbf has none, FileRead is one call on a file at rest), raw paths, times and owners, format's own steps, reads that fail, and
failing writes below the root. Of libdecb: raw paths, disks whose FAT or
directory cannot be read, a disk made with half of it taken (dskini's skitzo
option), several paths at a time, which cocofuse may have open on Disk BASIC and Dragon DOS
images as on OS-9 ones (the FAT is a copy of each path, as the bitmap
is in rbf_shared), and file types. Of libdragondos: raw paths, protected
files, directory track sectors that cannot be read, and several paths at a time.
Of libdiskimage: parsing and writing DMK, SDF, JVC and VDK, and threads inside a call: a
write to a raw image is one step, so that none comes between another's look at the file's size
and its growth. Rbf's root descriptor begins a cluster. Of the tools above:
moving, listing and dsave of libtoolshed, os9 gen, and dcheck's lists of paths.
Of libcecb: WAV images, readln, which loses the last byte before an error, and
tokenizing.

The assemblers, compilers and archivers (mamou, casm, c3, ar2, dis68), makewav and
the tests are most of the repository's lines. They are sequential programs
from bytes to bytes, and no part of the file systems.

## Plan

1. RbfData: FileRead and the data of files as an extension of Rbf, and an
   abstract file store (name to content) it implements when `Exclusive`.
2. Decb and DragonDos with two paths at a time; DragonDos as a
   FileStore.
3. Track images: DMK and SDF tracks as DiskTable's input, writing a sector with
   its CRC.
4. Proofs: TypeOK of DragonDos.

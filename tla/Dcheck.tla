-------------------------------- MODULE Dcheck --------------------------------
(***************************************************************************)
(* os9 dcheck: the tree of an OS-9 disk is walked from its root, what the  *)
(* descriptors say is in use is marked in a second allocation map, sector  *)
(* by sector, and the two maps are compared.  One step is one directory    *)
(* entered, one entry of it, or the comparison; the disk is any, and may   *)
(* be broken.                                                              *)
(***************************************************************************)
EXTENDS Integers, SequencesExt

CONSTANTS
  Total,      \* sectors of the disk (dd_tot), from LSN 0
  Spc,        \* sectors per cluster, divides Total
  Root,       \* LSN of the root directory's descriptor
  Nodes,      \* LSNs of the other descriptors
  RunStarts,  \* LSNs where a run of a file may begin
  Data,       \* LSNs with an entry of a directory, one in each: Root + 1,
              \* Root + 2 and others
  Links       \* LSNs an entry may name; or 0, when it is deleted

VARIABLE
  l  \* fd, entry: the disk; stack: the calls under way, innermost last, with
     \* the directory and its next entry, 0 before it is entered; secondary:
     \* the sectors marked; bitmap: the disk's, read at the end; found: what
     \* was reported; verdict

Lsn == 0 .. (Total - 1)
Cluster == 0 .. (Total \div Spc - 1)

Run(g) == g.lsn .. (g.lsn + g.num - 1)

(* A descriptor has dir and seg, a sequence of runs [lsn, num].  Bounds: a  *)
(* file has two runs at most, of one sector or two, and its first of two    *)
(* begins at the last start but one; a directory has a sector of Data.      *)
Runs == [lsn : RunStarts, num : {1, 2}]
FirstRun == [lsn |-> Max(RunStarts) - 1, num |-> 2]

Files ==
  [dir : {FALSE},
   seg : {<< >>} \cup { << r >> : r \in Runs }
           \cup { << FirstRun, r >> : r \in { g \in Runs : g.num = 1 } }]

Folders == [dir : {TRUE}, seg : { << [lsn |-> x, num |-> 1] >> : x \in Data }]

RootFd == [dir |-> TRUE, seg |-> << [lsn |-> Root + 1, num |-> 2] >>]

(* LSN 0 and the bitmap's. *)
System == {0, 1}

Init ==
  \E fd \in [Nodes -> Files \cup Folders], entry \in [Data -> Links] :
    l = [loop |-> "dcheck",
         fd |-> [n \in Nodes \cup {Root} |-> IF n = Root THEN RootFd ELSE fd[n]],
         entry |-> entry, stack |-> << [lsn |-> Root, pos |-> 0] >>,
         secondary |-> System, bitmap |-> {}, found |-> {}, verdict |-> "none yet"]

(* The segments that do not go past the end of the disk. *)
OnDisk(seg) == { i \in DOMAIN seg : seg[i].lsn + seg[i].num <= Total }

(* Mutant: a segment is only compared with what other descriptors have. *)
TwiceByOthers(seg, map) == \E i \in OnDisk(seg) : Run(seg[i]) \cap map # {}

(* A sector was marked before, or belongs to an earlier segment. *)
Twice(seg, map) ==
  \E i \in OnDisk(seg) :
    Run(seg[i]) \cap (map \cup UNION { Run(seg[j]) : j \in OnDisk(seg) \cap 1 .. (i - 1) }) # {}

(* The descriptor's sector is marked, and then ParseFDSegList. *)
Parsed(lsn) ==
  LET seg == l.fd[lsn].seg  map == l.secondary \cup {lsn} IN
  [l EXCEPT
     !.secondary = map \cup UNION { Run(seg[i]) : i \in OnDisk(seg) },
     !.found = @ \cup { what \in {"twice", "bad"} :
                          IF what = "twice" THEN Twice(seg, map)
                          ELSE OnDisk(seg) # DOMAIN seg }]

Top == Last(l.stack)

(* The sectors of a directory's data, which are its entries. *)
Contents(lsn) ==
  FlattenSeq([i \in DOMAIN l.fd[lsn].seg |->
    LET g == l.fd[lsn].seg[i] IN [k \in 1 .. g.num |-> g.lsn + k - 1]])

EnterDirectory ==
  /\ l.stack # << >> /\ Top.pos = 0
  /\ l' = IF Top.lsn \in l.secondary
            THEN [l EXCEPT !.found = @ \cup {"circular"}, !.stack = Front(@)]
            ELSE [Parsed(Top.lsn) EXCEPT !.stack[Len(l.stack)].pos = 1]

Reading == l.stack # << >> /\ Top.pos \in DOMAIN Contents(Top.lsn)

Link == l.entry[Contents(Top.lsn)[Top.pos]]

Advanced(stack) == [stack EXCEPT ![Len(stack)].pos = @ + 1]

(* A deleted entry, or one that names no LSN there can be. *)
SkipEntry ==
  /\ Reading /\ (Link = 0 \/ Link > Total)
  /\ l' = [l EXCEPT !.stack = Advanced(@)]

(* The file's descriptor is marked whether it was marked before or not. *)
VisitFile ==
  /\ Reading /\ Link \in DOMAIN l.fd
  /\ ~ l.fd[Link].dir
  /\ l' = [Parsed(Link) EXCEPT !.stack = Advanced(@)]

VisitDirectory ==
  /\ Reading /\ Link \in DOMAIN l.fd
  /\ l.fd[Link].dir
  /\ l' = [l EXCEPT !.stack = Append(Advanced(@), [lsn |-> Link, pos |-> 0])]

(* The image has no sector there. *)
ReadFails ==
  /\ Reading /\ Link = Total
  /\ l' = [l EXCEPT !.stack = << >>, !.verdict = "failed"]

Leave ==
  /\ l.stack # << >> /\ Top.pos > Len(Contents(Top.lsn))
  /\ l' = [l EXCEPT !.stack = Front(@)]

-----------------------------------------------------------------------------
(* The LSNs a directory's entries name. *)
Named(lsn) ==
  { l.entry[x] : x \in UNION { Run(l.fd[lsn].seg[i]) : i \in DOMAIN l.fd[lsn].seg } }

(* The nodes some pathname leads to: no more steps than there are nodes. *)
Reached ==
  LET Below(S) == S \cup (Nodes \cap UNION { Named(n) : n \in { m \in S : l.fd[m].dir } })
  IN FoldFunction(LAMBDA n, S : Below(S), {Root}, [n \in Nodes |-> n])

(* The segments of the files and directories there are. *)
Segments ==
  UNION { { [of |-> n, run |-> Run(l.fd[n].seg[i]), index |-> i] : i \in OnDisk(l.fd[n].seg) }
          : n \in Reached }

InSegments == UNION { g.run : g \in Segments }

UsedClusters == { x \div Spc : x \in System \cup Reached \cup InSegments }

-----------------------------------------------------------------------------
(* The bitmap is only read now.  Bound: it is wrong in one cluster at most. *)
Compare ==
  /\ l.stack = << >> /\ l.verdict = "none yet"
  /\ \E used \in {UsedClusters}, wrong \in {{}} \cup { {c} : c \in Cluster } :
       LET bitmap == (used \ wrong) \cup (wrong \ used)
           marked == { x \div Spc : x \in l.secondary }
           found == l.found \cup (IF marked \subseteq bitmap THEN {} ELSE {"unmarked"})
       IN l' = [l EXCEPT !.bitmap = bitmap, !.found = found,
                  !.verdict = IF found \cap {"twice", "bad", "unmarked"} = {}
                                THEN "intact" ELSE "not intact"]

Next ==
  \/ EnterDirectory \/ SkipEntry \/ VisitFile \/ VisitDirectory \/ ReadFails \/ Leave
  \/ Compare

Spec == Init /\ [][Next]_l

-----------------------------------------------------------------------------
(* What dcheck has to find. *)
BadSegment == \E n \in Reached : OnDisk(l.fd[n].seg) # DOMAIN l.fd[n].seg

Unmarked == ~ UsedClusters \subseteq l.bitmap
SharedData ==
  \E g \in Segments :
    g.run \cap System # {} \/ \E h \in Segments \ {g} : g.run \cap h.run # {}

(* A file two entries name. *)
NamedTwice ==
  \E x, y \in { z \in Data : \E m \in Reached : l.fd[m].dir /\ z \in ToSet(Contents(m)) } :
    x # y /\ l.entry[x] = l.entry[y] /\ l.entry[x] \in Nodes

SharedWithFd == Reached \cap InSegments # {}

(* A disk dcheck calls intact has no segment outside it, no cluster in use  *)
(* that the bitmap has free, and no sector that two segments have, unless   *)
(* it reported a circular reference; and one it calls not intact has one of *)
(* these, a descriptor in a segment, or a file with two names.              *)
VerdictIsRight ==
  /\ l.verdict = "intact" /\ "circular" \notin l.found =>
       ~ BadSegment /\ ~ Unmarked /\ ~ SharedData
  /\ l.verdict = "not intact" =>
       BadSegment \/ Unmarked \/ SharedData \/ SharedWithFd \/ NamedTwice

(* What a test of librbf takes for granted: "dcheck is the independent      *)
(* referee that the on-disk structure stays valid."  No sector of a disk it *)
(* calls intact is in a file's segments and a descriptor as well.           *)
IntactSharesNothing ==
  l.verdict = "intact" => ~ SharedData /\ ~ SharedWithFd
=============================================================================

------------------------------ MODULE RbfSafety ------------------------------
(***************************************************************************)
(* The types of Rbf, however many paths are open. Then, that Inv is an     *)
(* invariant of Rbf when one path for writing is open at a time,           *)
(* and what follows from it; and then so is FitInv: a file's segments lie  *)
(* each in one sector of the bitmap and hold its size, and a closed file   *)
(* has no cluster that it could do without.                                *)
(***************************************************************************)
EXTENDS RbfInv, SequenceTheorems, FiniteSetTheorems, TLAPS

-----------------------------------------------------------------------------
(* Descriptors and segment lists. *)

LEMMA NewFdType ==
  ASSUME NEW c \in Cluster
  PROVE  NewFd(c) \in Fd
  <1>1. [start |-> c, n |-> 1] \in Segment
    BY BitmapAssumption DEF Segment
  <1> QED
    BY <1>1 DEF NewFd, Fd

(* A segment with another length, and the numbers in one.                  *)
LEMMA SegmentNumbers ==
  ASSUME NEW x \in Segment
  PROVE  /\ x.start \in Cluster /\ x.n \in 1 .. TotalClusters
         /\ x.start \in Nat /\ x.n \in Nat /\ x.n >= 1
  BY BitmapAssumption DEF Segment, Cluster

LEMMA SegmentOfLength ==
  ASSUME NEW x \in Segment, NEW n \in 1 .. TotalClusters
  PROVE  /\ [x EXCEPT !.n = n] \in Segment
         /\ [x EXCEPT !.n = n].n = n /\ [x EXCEPT !.n = n].start = x.start
  BY DEF Segment

LEMMA GrowLastType ==
  ASSUME NEW bm \in SUBSET Cluster, NEW segs \in Seq(Segment), CanGrowLast(bm, segs)
  PROVE  GrowLast(segs) \in Seq(Segment) /\ NextCluster(segs) \in Cluster \ bm
  <1> DEFINE l == Len(segs)
             g == [segs[l] EXCEPT !.n = @ + 1]
  <1>1. l \in 1 .. Len(segs) /\ segs[l] \in Segment
    BY FdAssumption DEF CanGrowLast
  <1>2. segs[l].n + 1 \in 1 .. TotalClusters
    <2>1. segs[l].start \in Nat /\ segs[l].n \in Nat /\ segs[l].n >= 1
      BY <1>1, SegmentNumbers
    <2>2. segs[l].start + segs[l].n \in 0 .. (TotalClusters - 1)
      BY DEF CanGrowLast, NextCluster, Cluster
    <2>3. TotalClusters \in Nat
      BY BitmapAssumption
    <2> QED
      BY <2>1, <2>2, <2>3
  <1>3. g \in Segment
    BY <1>1, <1>2, SegmentOfLength
  <1>4. [segs EXCEPT ![l] = g] \in Seq(Segment)
    BY <1>1, <1>3, ExceptSeq
  <1>5. GrowLast(segs) = [segs EXCEPT ![l] = g]
    BY DEF GrowLast
  <1> QED
    BY <1>4, <1>5 DEF CanGrowLast

LEMMA CutLastType ==
  ASSUME NEW segs \in Seq(Segment), segs # << >>
  PROVE  CutLast(segs) \in Seq(Segment)
  <1> DEFINE l == Len(segs)
             g == [segs[l] EXCEPT !.n = @ - 1]
  <1>1. l \in 1 .. Len(segs) /\ segs[l] \in Segment
    OBVIOUS
  <1>2. CASE segs[l].n = 1
    <2>1. SubSeq(segs, 1, l - 1) \in Seq(Segment)
      BY <1>1, SubSeqProperties
    <2> QED
      BY <1>2, <2>1 DEF CutLast
  <1>3. CASE segs[l].n # 1
    <2>1. g \in Segment
      <3>1. segs[l].n \in 1 .. TotalClusters
        BY <1>1, SegmentNumbers
      <3>2. segs[l].n - 1 \in 1 .. TotalClusters
        BY <1>3, <3>1, BitmapAssumption
      <3> QED
        BY <1>1, <3>2, SegmentOfLength
    <2>2. [segs EXCEPT ![l] = g] \in Seq(Segment)
      BY <1>1, <2>1, ExceptSeq
    <2>3. CutLast(segs) = [segs EXCEPT ![l] = g]
      BY <1>3 DEF CutLast
    <2> QED
      BY <2>2, <2>3
  <1> QED
    BY <1>2, <1>3

(* A run one cluster longer, and one cluster shorter.                      *)
LEMMA Longer ==
  ASSUME NEW a \in Nat, NEW n \in Nat, n >= 1
  PROVE  /\ a .. (a + (n + 1) - 1) = (a .. (a + n - 1)) \cup {a + n}
         /\ a .. (a + (n - 1) - 1) = (a .. (a + n - 1)) \ {a + n - 1}
         /\ a + n - 1 \in a .. (a + n - 1)
         /\ n = 1 => a .. (a + n - 1) = {a}
  OBVIOUS

LEMMA RunLonger ==
  ASSUME NEW x, NEW y, x.start \in Nat, x.n \in Nat, x.n >= 1,
         y.start = x.start, y.n = x.n + 1
  PROVE  Run(y) = Run(x) \cup {x.start + x.n}
  BY Longer DEF Run

LEMMA RunShorter ==
  ASSUME NEW x, NEW y, x.start \in Nat, x.n \in Nat, x.n >= 1,
         y.start = x.start, y.n = x.n - 1
  PROVE  Run(y) = Run(x) \ {x.start + x.n - 1}
  BY Longer DEF Run

LEMMA SegmentOf ==
  ASSUME NEW segs \in Seq(Segment), NEW i \in DOMAIN segs
  PROVE  /\ segs[i] \in Segment
         /\ segs[i].start \in Nat /\ segs[i].n \in Nat /\ segs[i].n >= 1
  <1>1. i \in 1 .. Len(segs) /\ segs[i] \in Segment
    OBVIOUS
  <1> QED
    BY <1>1, BitmapAssumption DEF Segment, Cluster

(* What GrowLast makes of each segment: the last one is longer by a cluster*)
(* and the others stay.                                                    *)
LEMMA GrowLastRuns ==
  ASSUME NEW bm \in SUBSET Cluster, NEW segs \in Seq(Segment), CanGrowLast(bm, segs)
  PROVE  /\ DOMAIN GrowLast(segs) = DOMAIN segs
         /\ \A i \in DOMAIN segs :
              /\ GrowLast(segs)[i].start = segs[i].start
              /\ segs[i].n <= GrowLast(segs)[i].n
              /\ i # Len(segs) => GrowLast(segs)[i] = segs[i]
         /\ Len(segs) \in DOMAIN segs
         /\ Run(GrowLast(segs)[Len(segs)])
              = Run(segs[Len(segs)]) \cup {NextCluster(segs)}
  <1> DEFINE l == Len(segs)
  <1>1. l \in DOMAIN segs
    BY FdAssumption DEF CanGrowLast
  <1>2. segs[l].start \in Nat /\ segs[l].n \in Nat /\ segs[l].n >= 1 /\ segs[l] \in Segment
    BY <1>1, SegmentOf
  <1>3. /\ DOMAIN GrowLast(segs) = DOMAIN segs
        /\ \A i \in DOMAIN segs : i # l => GrowLast(segs)[i] = segs[i]
        /\ GrowLast(segs)[l].start = segs[l].start
        /\ GrowLast(segs)[l].n = segs[l].n + 1
    <2>1. PICK g : g = [segs[l] EXCEPT !.n = @ + 1]
      OBVIOUS
    <2>2. g.start = segs[l].start /\ g.n = segs[l].n + 1
      BY <1>2, <2>1 DEF Segment
    <2>3. GrowLast(segs) = [segs EXCEPT ![l] = g]
      BY <2>1 DEF GrowLast
    <2> HIDE DEF l
    <2> QED
      BY <1>1, <2>2, <2>3
  <1>4. Run(GrowLast(segs)[l]) = Run(segs[l]) \cup {NextCluster(segs)}
    BY <1>2, <1>3, RunLonger DEF NextCluster
  <1>5. \A i \in DOMAIN segs : segs[i].n \in Nat
    BY SegmentOf
  <1> QED
    BY <1>1, <1>2, <1>3, <1>4, <1>5

(* The clusters of a list whose last segment grew.                         *)
LEMMA GrowLastClusters ==
  ASSUME NEW bm \in SUBSET Cluster, NEW segs \in Seq(Segment), CanGrowLast(bm, segs)
  PROVE  SegClusters(GrowLast(segs)) = SegClusters(segs) \cup {NextCluster(segs)}
  <1> DEFINE new == GrowLast(segs)
             l == Len(segs)
             c == NextCluster(segs)
  <1>1. /\ DOMAIN new = DOMAIN segs /\ l \in DOMAIN segs
        /\ \A i \in DOMAIN segs : i # l => new[i] = segs[i]
        /\ Run(new[l]) = Run(segs[l]) \cup {c}
    BY GrowLastRuns
  <1> HIDE DEF new, c, l
  <1>2. SegClusters(new) = SegClusters(segs) \cup {c}
    BY <1>1 DEF SegClusters
  <1> QED
    BY <1>2 DEF new, c

(* The clusters of a list with one segment more.                           *)
LEMMA AppendClusters ==
  ASSUME NEW segs \in Seq(Segment), NEW g \in Segment
  PROVE  SegClusters(Append(segs, g)) = SegClusters(segs) \cup Run(g)
  <1>1. /\ DOMAIN Append(segs, g) = DOMAIN segs \cup {Len(segs) + 1}
        /\ \A i \in DOMAIN segs : Append(segs, g)[i] = segs[i]
        /\ Append(segs, g)[Len(segs) + 1] = g
    OBVIOUS
  <1> QED
    BY <1>1 DEF SegClusters

(* What CutLast makes of each segment.                                     *)
LEMMA CutLastRuns ==
  ASSUME NEW segs \in Seq(Segment), segs # << >>
  PROVE  /\ Len(segs) \in DOMAIN segs
         /\ DOMAIN CutLast(segs) \subseteq DOMAIN segs
         /\ DOMAIN segs \ {Len(segs)} \subseteq DOMAIN CutLast(segs)
         /\ \A i \in DOMAIN CutLast(segs) :
              /\ CutLast(segs)[i].start = segs[i].start
              /\ i # Len(segs) => CutLast(segs)[i] = segs[i]
              /\ i = Len(segs) =>
                   Run(CutLast(segs)[i]) = Run(segs[i]) \ {LastCluster(segs)}
         /\ Len(segs) \in DOMAIN CutLast(segs) <=> segs[Len(segs)].n # 1
         /\ segs[Len(segs)].n = 1 => Run(segs[Len(segs)]) = {LastCluster(segs)}
         /\ LastCluster(segs) \in Run(segs[Len(segs)])
  <1> DEFINE l == Len(segs)
  <1>1. l \in 1 .. Len(segs) /\ segs[l] \in Segment
    OBVIOUS
  <1>2. segs[l].start \in Nat /\ segs[l].n \in Nat /\ segs[l].n >= 1
    BY <1>1, BitmapAssumption DEF Segment, Cluster
  <1>3. LastCluster(segs) \in Run(segs[l])
    BY <1>2 DEF LastCluster, Run
  <1>4. CASE segs[l].n = 1
    <2>1. CutLast(segs) = SubSeq(segs, 1, l - 1)
      BY <1>4 DEF CutLast
    <2>2. /\ DOMAIN CutLast(segs) = DOMAIN segs \ {l}
          /\ \A i \in DOMAIN CutLast(segs) : CutLast(segs)[i] = segs[i]
      BY <1>1, <2>1
    <2>3. Run(segs[l]) = {LastCluster(segs)}
      BY <1>2, <1>4 DEF LastCluster, Run
    <2> QED
      BY <1>1, <1>3, <1>4, <2>2, <2>3
  <1>5. CASE segs[l].n # 1
    <2>1. CutLast(segs) = [segs EXCEPT ![l].n = @ - 1]
      BY <1>5 DEF CutLast
    <2>2. /\ DOMAIN CutLast(segs) = DOMAIN segs
          /\ \A i \in DOMAIN segs : i # l => CutLast(segs)[i] = segs[i]
          /\ CutLast(segs)[l].start = segs[l].start
          /\ CutLast(segs)[l].n = segs[l].n - 1
      <3>1. PICK g : g = [segs[l] EXCEPT !.n = @ - 1]
        OBVIOUS
      <3>2. g.start = segs[l].start /\ g.n = segs[l].n - 1
        BY <1>1, <3>1 DEF Segment
      <3>3. CutLast(segs) = [segs EXCEPT ![l] = g]
        BY <2>1, <3>1
      <3> HIDE DEF l
      <3> QED
        BY <1>1, <3>2, <3>3
    <2>3. Run(CutLast(segs)[l]) = Run(segs[l]) \ {LastCluster(segs)}
      BY <1>2, <2>2, RunShorter DEF LastCluster
    <2> QED
      BY <1>1, <1>3, <1>5, <2>2, <2>3
  <1> QED
    BY <1>4, <1>5

(* The clusters of a list that was cut by one, if none is named twice.     *)
LEMMA CutLastClusters ==
  ASSUME NEW segs \in Seq(Segment), segs # << >>,
         \A i, j \in DOMAIN segs : i # j => Run(segs[i]) \cap Run(segs[j]) = {}
  PROVE  /\ SegClusters(CutLast(segs)) = SegClusters(segs) \ {LastCluster(segs)}
         /\ LastCluster(segs) \in SegClusters(segs)
  <1>1. LastCluster(segs) \in SegClusters(segs)
    BY CutLastRuns DEF SegClusters
  <1>2. ASSUME NEW x \in SegClusters(CutLast(segs))
        PROVE  x \in SegClusters(segs) \ {LastCluster(segs)}
    BY CutLastRuns DEF SegClusters
  <1>3. ASSUME NEW x \in SegClusters(segs), x # LastCluster(segs)
        PROVE  x \in SegClusters(CutLast(segs))
    <2>1. PICK i \in DOMAIN segs : x \in Run(segs[i])
      BY DEF SegClusters
    <2>2. i \in DOMAIN CutLast(segs)
      <3>1. CASE i = Len(segs)
        <4>1. segs[i].n = 1 => Run(segs[i]) = {LastCluster(segs)}
          BY <3>1, CutLastRuns
        <4>2. segs[i].n # 1
          BY <1>3, <2>1, <4>1
        <4> QED
          BY <3>1, <4>2, CutLastRuns
      <3>2. CASE i # Len(segs)
        <4>1. DOMAIN segs \ {Len(segs)} \subseteq DOMAIN CutLast(segs)
          BY CutLastRuns
        <4> QED
          BY <3>2, <4>1
      <3> QED
        BY <3>1, <3>2
    <2>3. x \in Run(CutLast(segs)[i])
      <3>1. CASE i = Len(segs)
        BY <1>3, <2>1, <2>2, <3>1, CutLastRuns
      <3>2. CASE i # Len(segs)
        <4>1. CutLast(segs)[i] = segs[i]
          BY <2>2, <3>2, CutLastRuns
        <4> QED
          BY <2>1, <4>1
      <3> QED
        BY <3>1, <3>2
    <2> QED
      BY <2>2, <2>3 DEF SegClusters
  <1> QED
    BY <1>1, <1>2, <1>3

-----------------------------------------------------------------------------
(* Types. *)

LEMMA RootIsCluster == Root \in Cluster /\ FirstOfRoot \in Cluster /\ RootN \in 1 .. TotalClusters
  BY BitmapAssumption, RbfAssumption DEF Cluster, FirstOfRoot

LEMMA NoFdType == NoFd \in Fd
  BY DEF NoFd, Fd

LEMMA IdleType == Idle \in Session
  <1>1. DotEntry \in Entry
    BY RootIsCluster DEF DotEntry, Entry
  <1> QED
    BY <1>1, NoFdType, RootIsCluster DEF Idle, Session

LEMMA RootFdType == RootFd \in Fd
  <1>1. [start |-> FirstOfRoot, n |-> RootN] \in Segment
    BY RootIsCluster DEF Segment
  <1> QED
    BY <1>1 DEF RootFd, Fd

LEMMA InitType == Init => TypeOK
  <1> SUFFICES ASSUME Init PROVE TypeOK
    OBVIOUS
  <1>1. dbm \subseteq Cluster
    BY RootIsCluster, BitmapAssumption, RbfAssumption DEF Init, Cluster, FirstOfRoot
  <1>2. fd \in [Cluster -> Fd]
    BY RootFdType, NoFdType DEF Init
  <1>3. DotEntry \in Entry
    BY RootIsCluster DEF DotEntry, Entry
  <1>4. ent \in Seq(Entry)
    BY <1>3 DEF Init
  <1> QED
    BY <1>1, <1>2, <1>4, IdleType DEF Init, TypeOK

LEMMA PutType ==
  ASSUME NEW p \in Paths, NEW r \in Session, s \in [Paths -> Session], Put(p, r)
  PROVE  s' \in [Paths -> Session]
  BY DEF Put

LEMMA OpenedType ==
  ASSUME NEW pc, NEW job, NEW c \in Cluster, NEW n \in Names \cup {NoName},
         Idle \in Session, dbm \subseteq Cluster,
         pc \in {"open", "check", "unlink", "extend"},
         job \in {"file", "create", "recreate", "delete", "rename"}
  PROVE  Opened(pc, job, c, n) \in Session
  BY DEF Opened, Session

LEMMA WritingType ==
  ASSUME NEW r \in Session, NEW f \in Fd, NEW pos \in Nat, NEW k \in Nat
  PROVE  Writing(r, f, pos, k) \in Session
  <1>1. pos + k \in Nat
    OBVIOUS
  <1> QED
    BY <1>1, Zenon DEF Writing, Session

LEMMA WriteFailedType ==
  ASSUME NEW r \in Session, NEW bm \in SUBSET Cluster,
         NEW e \in {"EIO", "EOS_DF", "EOS_SF"}
  PROVE  WriteFailed(r, bm, e) \in Session
  BY ZenonT(120), NoFdType DEF WriteFailed, Session

LEMMA AfterType ==
  ASSUME NEW r \in Session, NEW e
  PROVE  After(r, e) \in Session
  BY IdleType DEF After, Session

LEMMA EntryType ==
  ASSUME TypeOK, NEW i \in Slots
  PROVE  i \in 1 .. Len(ent) /\ ent[i] \in Entry /\ ent[i].at \in Cluster
  <1>1. ent \in Seq(Entry)
    BY DEF TypeOK
  <1>2. i \in 1 .. Len(ent)
    BY <1>1 DEF Slots
  <1>3. ent[i] \in Entry
    BY <1>1, <1>2, ElementOfSeq
  <1> QED
    BY <1>2, <1>3 DEF Entry

LEMMA ByteDown ==
  ASSUME NEW n \in 0 .. 255
  PROVE  (n + 255) % 256 \in 0 .. 255
  OBVIOUS

LEMMA StoredType ==
  ASSUME TypeOK, NEW r \in Session
  PROVE  Stored(r) \in Seq(Entry)
  <1>1. r.entry \in Entry /\ r.pos \in Nat
    BY DEF Session
  <1>2. CASE r.pos < Len(ent)
    <2>1. r.pos + 1 \in 1 .. Len(ent)
      BY <1>1, <1>2 DEF TypeOK
    <2> QED
      BY <1>1, <1>2, <2>1, ExceptSeq DEF Stored, TypeOK
  <1> QED
    BY <1>1, <1>2, AppendProperties DEF Stored, TypeOK

(* Every step of the library keeps the types. *)
LEMMA StepType ==
  ASSUME TypeOK, NEW p \in Paths, Step(p)
  PROVE  TypeOK'
  <1> DEFINE r == s[p]
  <1>r. /\ r \in Session /\ r.at \in Cluster /\ r.new \in Cluster
        /\ r.cur \in Fd /\ r.orig \in Fd /\ r.pos \in Nat /\ r.goal \in Nat
        /\ r.bitmap \in SUBSET Cluster /\ r.name \in Names \cup {NoName}
        /\ r.cur.seg \in Seq(Segment)
        /\ fd[r.at] \in Fd
    <2>1. r \in Session
      BY DEF TypeOK
    <2> HIDE DEF r
    <2>2. /\ r.at \in Cluster /\ r.new \in Cluster
          /\ r.cur \in Fd /\ r.orig \in Fd /\ r.pos \in Nat /\ r.goal \in Nat
          /\ r.bitmap \in SUBSET Cluster /\ r.name \in Names \cup {NoName}
      BY <2>1 DEF Session
    <2>3. r.cur.seg \in Seq(Segment)
      BY <2>2 DEF Fd
    <2>4. fd[r.at] \in Fd
      BY <2>2 DEF TypeOK
    <2> QED
      BY <2>1, <2>2, <2>3, <2>4
  <1> USE <1>r
  <1> HIDE DEF r
  <1>t. /\ dbm \in SUBSET Cluster /\ fd \in [Cluster -> Fd] /\ ent \in Seq(Entry)
        /\ s \in [Paths -> Session]
        /\ lost \in {"nothing", "clusters", "files"}
    BY DEF TypeOK
  <1>q. ASSUME dbm' \in SUBSET Cluster, fd' \in [Cluster -> Fd], ent' \in Seq(Entry),
               lost' \in {"nothing", "clusters", "files"},
               NEW q \in Session, Put(p, q)
        PROVE  TypeOK'
    BY <1>q, <1>t, PutType DEF TypeOK
  <1>1. CASE OpenParent(p)
    <2>1. Opened("check", "create", Root, r.name) \in Session
      BY <1>t, RootIsCluster, OpenedType, IdleType
    <2> QED
      BY <1>1, <1>q, <1>t, <2>1 DEF OpenParent, r
  <1>2. CASE Replace(p)
    <2>1. Opened("unlink", "recreate", Root, r.name) \in Session
      BY <1>t, RootIsCluster, OpenedType, IdleType
    <2> QED
      BY <1>2, <1>q, <1>t, <2>1 DEF Replace, r
  <1>3. CASE AllocateFd(p)
    <2>1. CASE \E c \in Cluster :
                 Put(p, [r EXCEPT !.pc = "newfd", !.new = c, !.bitmap = @ \cup {c},
                                  !.entry = [name |-> r.name, at |-> c]])
      <3>1. PICK c \in Cluster :
                 Put(p, [r EXCEPT !.pc = "newfd", !.new = c, !.bitmap = @ \cup {c},
                                  !.entry = [name |-> r.name, at |-> c]])
        BY <2>1
      <3>2. [name |-> r.name, at |-> c] \in Entry
        BY DEF Entry
      <3>3. [r EXCEPT !.pc = "newfd", !.new = c, !.bitmap = @ \cup {c},
                      !.entry = [name |-> r.name, at |-> c]] \in Session
        BY <3>2 DEF Session
      <3> QED
        BY <1>3, <1>q, <1>t, <3>1, <3>3 DEF AllocateFd
    <2>2. CASE Put(p, [r EXCEPT !.pc = "putmap", !.ec = "EOS_DF"])
      <3>1. [r EXCEPT !.pc = "putmap", !.ec = "EOS_DF"] \in Session
        BY DEF Session
      <3> QED
        BY <1>3, <1>q, <1>t, <2>2, <3>1 DEF AllocateFd
    <2> QED
      BY <1>3, <2>1, <2>2 DEF AllocateFd, r
  <1>4. CASE PutNewFd(p)
    <2>1. CASE /\ fd' = [fd EXCEPT ![r.new] = NewFd(r.new)]
               /\ \E i \in 1 .. (fd[Root].siz + 1) :
                    Put(p, Writing(r, fd[r.at], i - 1, 1))
      <3>1. PICK i \in 1 .. (fd[Root].siz + 1) : Put(p, Writing(r, fd[r.at], i - 1, 1))
        BY <2>1
      <3>2. fd[Root].siz \in Nat
        BY <1>t, RootIsCluster DEF Fd
      <3>3. i - 1 \in Nat
        BY <3>2
      <3>4. Writing(r, fd[r.at], i - 1, 1) \in Session
        BY <3>3, WritingType
      <3>5. fd' \in [Cluster -> Fd]
        BY <2>1, <1>t, NewFdType
      <3> QED
        BY <1>4, <1>q, <1>t, <3>1, <3>4, <3>5 DEF PutNewFd
    <2>2. CASE fd' = fd /\ Put(p, [r EXCEPT !.pc = "putmap", !.ec = "EIO",
                                            !.bitmap = @ \ {r.new}])
      <3>1. [r EXCEPT !.pc = "putmap", !.ec = "EIO", !.bitmap = @ \ {r.new}] \in Session
        BY DEF Session
      <3> QED
        BY <1>4, <1>q, <1>t, <2>2, <3>1 DEF PutNewFd
    <2> QED
      BY <1>4, <2>1, <2>2 DEF PutNewFd, r
  <1>5. CASE Reopen(p)
    <2>1. ASSUME NEW i \in Slots, Put(p, Opened("open", "file", ent[i].at, r.name))
          PROVE  TypeOK'
      <3>1. Opened("open", "file", ent[i].at, r.name) \in Session
        BY <1>t, EntryType, OpenedType, IdleType
      <3> QED
        BY <1>5, <1>q, <1>t, <2>1, <3>1 DEF Reopen
    <2>2. CASE Put(p, Idle)
      BY <1>5, <1>q, <1>t, <2>2, IdleType DEF Reopen
    <2> QED
      BY <1>5, <2>1, <2>2 DEF Reopen, r
  <1>6. CASE NotFound(p)
    <2>1. [r EXCEPT !.pc = "putmap", !.ec = "EOS_PNNF"] \in Session
      BY DEF Session
    <2> QED
      BY <1>6, <1>q, <1>t, <2>1 DEF NotFound, r
  <1>7. CASE Unlink(p)
    <2>1. PICK i \in Slots :
            \/ /\ fd' = [fd EXCEPT ![ent[i].at].lnk = (@ + 255) % 256]
               /\ Put(p, [r EXCEPT !.pc = "release", !.new = ent[i].at, !.pos = i - 1,
                                   !.entry = [name |-> NoName, at |-> ent[i].at]])
            \/ fd' = fd /\ Put(p, [r EXCEPT !.pc = "putmap", !.ec = "EIO"])
      BY <1>7 DEF Unlink, r
    <2>2. CASE /\ fd' = [fd EXCEPT ![ent[i].at].lnk = (@ + 255) % 256]
               /\ Put(p, [r EXCEPT !.pc = "release", !.new = ent[i].at, !.pos = i - 1,
                                   !.entry = [name |-> NoName, at |-> ent[i].at]])
      <3>1. ent[i].at \in Cluster /\ i - 1 \in Nat
        BY EntryType
      <3>2. [name |-> NoName, at |-> ent[i].at] \in Entry
        BY <3>1 DEF Entry
      <3>3. [r EXCEPT !.pc = "release", !.new = ent[i].at, !.pos = i - 1,
                      !.entry = [name |-> NoName, at |-> ent[i].at]] \in Session
        BY <3>1, <3>2 DEF Session
      <3>4. fd[ent[i].at] \in Fd /\ fd[ent[i].at].lnk \in 0 .. 255
        BY <1>t, <3>1 DEF Fd
      <3>5. (fd[ent[i].at].lnk + 255) % 256 \in 0 .. 255
        BY ZenonT(120), <3>4, ByteDown
      <3>6. [fd[ent[i].at] EXCEPT !.lnk = (@ + 255) % 256] \in Fd
        BY ZenonT(120), <3>4, <3>5 DEF Fd
      <3>7. fd' \in [Cluster -> Fd]
        BY <1>t, <2>2, <3>1, <3>6
      <3> QED
        BY <1>7, <1>q, <1>t, <2>2, <3>3, <3>7 DEF Unlink
    <2>3. CASE fd' = fd /\ Put(p, [r EXCEPT !.pc = "putmap", !.ec = "EIO"])
      <3>1. [r EXCEPT !.pc = "putmap", !.ec = "EIO"] \in Session
        BY DEF Session
      <3> QED
        BY <1>7, <1>q, <1>t, <2>3, <3>1 DEF Unlink
    <2> QED
      BY <2>1, <2>2, <2>3
  <1>8. CASE Release(p)
    <2> DEFINE q == IF fd[r.new].lnk < 1
                      THEN [r EXCEPT !.bitmap = @ \ Holds(r.new, fd[r.new])]
                      ELSE r
    <2>1. q \in Session
      BY DEF Session
    <2> HIDE DEF q
    <2>2. Writing(q, fd[r.at], r.pos, 1) \in Session
      BY <2>1, WritingType
    <2>3. Put(p, Writing(q, fd[r.at], r.pos, 1))
      BY <1>8 DEF Release, r, q
    <2> QED
      BY <1>8, <1>q, <1>t, <2>2, <2>3 DEF Release
  <1>9. CASE ExtendLast(p)
    <2>1. CanGrowLast(r.bitmap, r.cur.seg)
      BY <1>9 DEF ExtendLast, r
    <2>a. GrowLast(r.cur.seg) \in Seq(Segment) /\ NextCluster(r.cur.seg) \in Cluster
      BY <2>1, GrowLastType
    <2>2. [r.cur EXCEPT !.seg = GrowLast(r.cur.seg)] \in Fd
      BY <2>a DEF Fd
    <2>3. r.bitmap \cup {NextCluster(r.cur.seg)} \in SUBSET Cluster
      BY <2>a
    <2>4. [r EXCEPT !.cur = [r.cur EXCEPT !.seg = GrowLast(r.cur.seg)],
                    !.bitmap = r.bitmap \cup {NextCluster(r.cur.seg)}] \in Session
      BY <2>2, <2>3 DEF Session
    <2>5. Put(p, [r EXCEPT !.cur = [r.cur EXCEPT !.seg = GrowLast(r.cur.seg)],
                           !.bitmap = r.bitmap \cup {NextCluster(r.cur.seg)}])
      BY <1>9 DEF ExtendLast, r, Session
    <2> QED
      BY <1>9, <1>q, <1>t, <2>4, <2>5 DEF ExtendLast
  <1>10. CASE NewSegment(p)
    <2>1. PICK first \in Cluster, n \in 1 .. TotalClusters :
            /\ IsSasSegment(r.bitmap, ReqClusters, first, n)
            /\ Put(p, [r EXCEPT
                 !.cur.seg = Append(r.cur.seg, [start |-> first, n |-> n]),
                 !.bitmap = @ \cup (first .. (first + n - 1))])
      BY <1>10 DEF NewSegment, r
    <2> DEFINE g == [start |-> first, n |-> n]
               q == [r EXCEPT !.cur = [r.cur EXCEPT !.seg = Append(r.cur.seg, g)],
                              !.bitmap = r.bitmap \cup (first .. (first + n - 1))]
    <2>2. g \in Segment
      BY DEF Segment
    <2>3. Append(r.cur.seg, g) \in Seq(Segment)
      BY <2>2, AppendProperties
    <2>4. [r.cur EXCEPT !.seg = Append(r.cur.seg, g)] \in Fd
      BY <2>3 DEF Fd
    <2>5. first .. (first + n - 1) \subseteq Cluster
      BY <2>1 DEF IsSasSegment, FreeRun
    <2>6. q \in Session
      BY <2>4, <2>5 DEF Session
    <2>7. Put(p, q)
      BY <2>1 DEF Session
    <2> QED
      BY <1>10, <1>q, <1>t, <2>6, <2>7 DEF NewSegment
  <1>11. CASE PutData(p)
    <2> DEFINE n == IF r.goal > r.cur.siz THEN r.goal ELSE r.cur.siz
               q == [r EXCEPT !.pc = "putfd", !.pos = r.goal,
                              !.cur = [r.cur EXCEPT !.siz = n]]
    <2>1. [r.cur EXCEPT !.siz = n] \in Fd
      BY DEF Fd
    <2>2. q \in Session
      BY <2>1 DEF Session
    <2>3. Put(p, q)
      BY <1>11 DEF PutData, r, Session
    <2>4. ent' \in Seq(Entry)
      BY <1>11, StoredType DEF PutData, r
    <2> QED
      BY <1>11, <1>q, <1>t, <2>2, <2>3, <2>4 DEF PutData
  <1>h. Harm("clusters") \/ Harm("files") \/ lost' = lost
          => lost' \in {"nothing", "clusters", "files"}
    BY <1>t DEF Harm
  <1>12. CASE PutDataFails(p)
    <2>1. PICK pos \in r.pos .. (r.goal - 1) :
            Put(p, WriteFailed([r EXCEPT !.pos = pos], r.bitmap, "EIO"))
      BY <1>12 DEF PutDataFails, r
    <2>2. [r EXCEPT !.pos = pos] \in Session
      BY DEF Session
    <2>3. WriteFailed([r EXCEPT !.pos = pos], r.bitmap, "EIO") \in Session
      BY <2>2, WriteFailedType
    <2> QED
      BY <1>12, <1>q, <1>t, <1>h, <2>1, <2>3 DEF PutDataFails
  <1>13. CASE PutFd(p)
    <2>1. CASE fd' = [fd EXCEPT ![r.at] = r.cur]
      <3> DEFINE q == [r EXCEPT !.pc = IF r.job = "file" THEN "open" ELSE "putmap",
                                !.goal = 0, !.cur = NoFd, !.orig = NoFd]
      <3>1. q \in Session
        BY NoFdType DEF Session
      <3>2. fd' \in [Cluster -> Fd]
        BY <1>t, <2>1
      <3>3. WriteFailed(r, r.bitmap, "EIO") \in Session
        BY WriteFailedType
      <3>4. Put(p, q) \/ Put(p, WriteFailed(r, r.bitmap, "EIO"))
        BY <1>13 DEF PutFd, r
      <3> QED
        BY <1>13, <1>q, <1>t, <1>h, <3>1, <3>2, <3>3, <3>4 DEF PutFd
    <2>2. CASE fd' = fd /\ Put(p, WriteFailed(r, r.bitmap, "EIO"))
      <3>1. WriteFailed(r, r.bitmap, "EIO") \in Session
        BY WriteFailedType
      <3> QED
        BY <1>13, <1>q, <1>t, <1>h, <2>2, <3>1 DEF PutFd
    <2> QED
      BY <1>13, <2>1, <2>2 DEF PutFd, r
  <1>14. ASSUME NEW e \in {"EOS_DF", "EOS_SF"}, RollBack(p, e)
         PROVE  TypeOK'
    <2>1. r.bitmap \ Gained(r.orig.seg, r.cur.seg) \in SUBSET Cluster
      OBVIOUS
    <2>2. WriteFailed(r, r.bitmap \ Gained(r.orig.seg, r.cur.seg), e) \in Session
      BY <2>1, WriteFailedType
    <2> QED
      BY <1>14, <1>q, <1>t, <2>2 DEF RollBack, r
  <1>15. CASE Cut(p)
    <2> DEFINE q == [r EXCEPT !.cur = [r.cur EXCEPT !.seg = CutLast(r.cur.seg)],
                              !.bitmap = r.bitmap \ {LastCluster(r.cur.seg)}]
    <2>1. r.cur.seg # << >>
      BY <1>15 DEF Cut, CanCut, r
    <2>2. CutLast(r.cur.seg) \in Seq(Segment)
      BY <2>1, CutLastType
    <2>3. [r.cur EXCEPT !.seg = CutLast(r.cur.seg)] \in Fd
      BY <2>2 DEF Fd
    <2>4. q \in Session
      BY <2>3 DEF Session
    <2>5. Put(p, q)
      BY <1>15 DEF Cut, r, Session
    <2> QED
      BY <1>15, <1>q, <1>t, <2>4, <2>5 DEF Cut
  <1>16. CASE PutCut(p)
    <2>1. [r EXCEPT !.pc = "putmap", !.cur = NoFd, !.orig = NoFd] \in Session
      BY NoFdType DEF Session
    <2>2. [r EXCEPT !.pc = "putmap", !.cur = NoFd, !.orig = NoFd, !.ec = "EIO"] \in Session
      BY NoFdType DEF Session
    <2>3. fd' \in [Cluster -> Fd]
      BY <1>16, <1>t DEF PutCut, r
    <2>4. \/ Put(p, [r EXCEPT !.pc = "putmap", !.cur = NoFd, !.orig = NoFd])
          \/ Put(p, [r EXCEPT !.pc = "putmap", !.cur = NoFd, !.orig = NoFd, !.ec = "EIO"])
      BY <1>16 DEF PutCut, r
    <2> QED
      BY <1>16, <1>q, <1>t, <2>1, <2>2, <2>3, <2>4 DEF PutCut
  <1>17. CASE PutBitmap(p)
    <2>1. dbm' \in SUBSET Cluster
      BY <1>17, <1>t DEF PutBitmap, r
    <2>2. PICK e : Return(p, r, e)
      BY <1>17 DEF PutBitmap, r
    <2> QED
      BY <1>17, <1>q, <1>t, <1>h, <2>1, <2>2, AfterType DEF PutBitmap, Return
  <1> QED
    BY <1>1, <1>2, <1>3, <1>4, <1>5, <1>6, <1>7, <1>8, <1>9, <1>10, <1>11, <1>12,
       <1>13, <1>14, <1>15, <1>16, <1>17 DEF Step

(* A caller's request keeps the types. *)
LEMMA RequestType ==
  ASSUME TypeOK, NEW p \in Paths, Request(p)
  PROVE  TypeOK'
  <1> DEFINE r == s[p]
  <1>r. /\ r \in Session /\ r.at \in Cluster /\ r.pos \in Nat /\ fd[r.at] \in Fd
    BY DEF TypeOK, Session
  <1> USE <1>r
  <1> HIDE DEF r
  <1>t. /\ dbm \in SUBSET Cluster /\ fd \in [Cluster -> Fd] /\ ent \in Seq(Entry)
        /\ s \in [Paths -> Session]
        /\ lost \in {"nothing", "clusters", "files"}
    BY DEF TypeOK
  <1>q. ASSUME dbm' = dbm, fd' = fd, ent' = ent, lost' = lost,
               NEW q \in Session, Put(p, q)
        PROVE  TypeOK'
    BY <1>q, <1>t, PutType DEF TypeOK
  <1>1. ASSUME NEW n \in Names, Open(p, n) PROVE TypeOK'
    <2>1. PICK i \in Slots : Put(p, Opened("open", "file", ent[i].at, n))
      BY <1>1 DEF Open
    <2>2. Opened("open", "file", ent[i].at, n) \in Session
      BY <1>t, EntryType, OpenedType, IdleType
    <2> QED
      BY <1>1, <1>q, <2>1, <2>2 DEF Open
  <1>2. ASSUME NEW n \in Names, Create(p, n) PROVE TypeOK'
    <2>1. [Idle EXCEPT !.pc = "parent", !.name = n] \in Session
      BY IdleType DEF Session
    <2> QED
      BY <1>2, <1>q, <2>1 DEF Create
  <1>3. ASSUME NEW n \in Names, Delete(p, n) PROVE TypeOK'
    <2>1. Opened("unlink", "delete", Root, n) \in Session
      BY <1>t, RootIsCluster, OpenedType, IdleType
    <2> QED
      BY <1>3, <1>q, <2>1 DEF Delete
  <1>4. ASSUME NEW n \in Names, NEW m \in Names, Rename(p, n, m) PROVE TypeOK'
    <2> DEFINE o == Opened("extend", "rename", Root, m)
               q(i) == [o EXCEPT !.new = ent[i].at,
                                 !.entry = [name |-> m, at |-> ent[i].at]]
    <2>1. PICK i \in Slots : Put(p, Writing(q(i), fd[Root], i - 1, 1))
      BY <1>4 DEF Rename
    <2>2. o \in Session
      BY <1>t, RootIsCluster, OpenedType, IdleType
    <2>3. ent[i].at \in Cluster /\ i - 1 \in Nat
      BY EntryType
    <2>4. [name |-> m, at |-> ent[i].at] \in Entry
      BY <2>3 DEF Entry
    <2>5. q(i) \in Session
      <3> HIDE DEF o
      <3> QED
        BY <2>2, <2>3, <2>4 DEF Session
    <2>6. fd[Root] \in Fd
      BY <1>t, RootIsCluster
    <2>7. Writing(q(i), fd[Root], i - 1, 1) \in Session
      <3> HIDE DEF q
      <3> QED
        BY <2>3, <2>5, <2>6, WritingType
    <2> QED
      BY <1>4, <1>q, <2>1, <2>7 DEF Rename
  <1>5. ASSUME NEW pos \in 0 .. MaxSize, Seek(p, pos) PROVE TypeOK'
    <2>1. [r EXCEPT !.pos = pos] \in Session
      BY RbfAssumption DEF Session
    <2> QED
      BY <1>5, <1>q, <2>1 DEF Seek, r
  <1>6. ASSUME NEW siz \in 0 .. MaxSize, SetSize(p, siz) PROVE TypeOK'
    <2>a. siz \in Nat
      BY RbfAssumption
    <2>1. [fd[r.at] EXCEPT !.siz = siz] \in Fd
      BY <2>a DEF Fd
    <2>2. fd' \in [Cluster -> Fd]
      BY <1>6, <1>t, <2>1 DEF SetSize, r
    <2> QED
      BY <1>6, <1>t, <2>2 DEF SetSize, TypeOK
  <1>7. ASSUME NEW k \in WriteSizes, Write(p, k) PROVE TypeOK'
    <2>1. Writing(r, fd[r.at], r.pos, k) \in Session
      BY RbfAssumption, WritingType
    <2> QED
      BY <1>7, <1>q, <2>1 DEF Write, r
  <1>8. CASE Close(p)
    <2>1. [r EXCEPT !.pc = IF fd[r.at].dir THEN "putmap" ELSE "truncate",
                    !.pos = 0, !.cur = fd[r.at], !.orig = fd[r.at]] \in Session
      BY DEF Session
    <2> QED
      BY <1>8, <1>q, <2>1 DEF Close, r
  <1> QED
    BY <1>1, <1>2, <1>3, <1>4, <1>5, <1>6, <1>7, <1>8 DEF Request

LEMMA NextType == TypeOK /\ [Next]_vars => TypeOK'
  <1> SUFFICES ASSUME TypeOK, [Next]_vars PROVE TypeOK'
    OBVIOUS
  <1>1. ASSUME NEW p \in Paths, Request(p) \/ Step(p) PROVE TypeOK'
    BY <1>1, RequestType, StepType
  <1>2. CASE Crash
    <2>1. s' \in [Paths -> Session]
      BY <1>2, IdleType DEF Crash
    <2> QED
      BY <1>2, <2>1 DEF Crash, Harm, TypeOK
  <1>3. CASE UNCHANGED vars
    BY <1>3 DEF vars, TypeOK
  <1> QED
    BY <1>1, <1>2, <1>3 DEF Next

(* Every variable always has its type: no call of any path, on any disk,   *)
(* leaves a descriptor whose segments are not clusters of the disk, a link *)
(* count that is not a byte, or an entry that names no cluster.            *)
THEOREM TypeCorrect == Spec => []TypeOK
  BY InitType, NextType, PTL DEF Spec

-----------------------------------------------------------------------------
(* Segment lists *)

(* A list grown has the old list's clusters, and Gained is the difference. *)
LEMMA GainedClusters ==
  ASSUME NEW old \in Seq(Segment), NEW new \in Seq(Segment), Grown(old, new),
         \A i, j \in DOMAIN new : i # j => Run(new[i]) \cap Run(new[j]) = {}
  PROVE  /\ SegClusters(old) \subseteq SegClusters(new)
         /\ Gained(old, new) = SegClusters(new) \ SegClusters(old)
  <1>1. DOMAIN old \subseteq DOMAIN new /\ \A i \in DOMAIN new : i > Len(old) <=> i \notin DOMAIN old
    BY DEF Grown
  <1> DEFINE more(i) == (old[i].start + old[i].n) .. (new[i].start + new[i].n - 1)
  <1>2. ASSUME NEW i \in DOMAIN old
        PROVE  Run(new[i]) = Run(old[i]) \cup more(i) /\ Run(old[i]) \cap more(i) = {}
    <2>1. i \in DOMAIN new
      BY <1>1
    <2>2. old[i].start = new[i].start /\ old[i].n <= new[i].n
      BY DEF Grown
    <2> DEFINE a == old[i].start
               n == old[i].n
               m == new[i].n
    <2>3. a \in Nat /\ n \in Nat /\ m \in Nat /\ n <= m /\ new[i].start = a
      BY <2>1, <2>2, SegmentOf
    <2> HIDE DEF a, n, m
    <2>4. /\ a .. (a + m - 1) = (a .. (a + n - 1)) \cup ((a + n) .. (a + m - 1))
          /\ (a .. (a + n - 1)) \cap ((a + n) .. (a + m - 1)) = {}
      BY <2>3
    <2> QED
      BY <2>3, <2>4 DEF a, n, m, Run
  <1>3. Gained(old, new) =
          UNION { IF i \notin DOMAIN old THEN Run(new[i]) ELSE more(i) : i \in DOMAIN new }
    BY <1>1 DEF Gained
  <1> HIDE DEF more
  <1>4. SegClusters(old) \subseteq SegClusters(new)
    BY <1>1, <1>2 DEF SegClusters
  <1>5. ASSUME NEW x \in Gained(old, new)
        PROVE  x \in SegClusters(new) \ SegClusters(old)
    <2>1. PICK i \in DOMAIN new : x \in IF i \notin DOMAIN old THEN Run(new[i]) ELSE more(i)
      BY <1>3
    <2>2. x \in Run(new[i]) /\ (i \in DOMAIN old => x \notin Run(old[i]))
      BY <1>2, <2>1
    <2>3. ASSUME NEW j \in DOMAIN old, x \in Run(old[j]) PROVE FALSE
      BY <1>1, <1>2, <2>2, <2>3
    <2> QED
      BY <2>2, <2>3 DEF SegClusters
  <1>6. ASSUME NEW x \in SegClusters(new), x \notin SegClusters(old)
        PROVE  x \in Gained(old, new)
    <2>1. PICK i \in DOMAIN new : x \in Run(new[i])
      BY DEF SegClusters
    <2>2. i \in DOMAIN old => x \in more(i)
      BY <1>2, <1>6, <2>1 DEF SegClusters
    <2> QED
      BY <1>3, <2>1, <2>2
  <1> QED
    BY <1>4, <1>5, <1>6

LEMMA GrownSelf ==
  ASSUME NEW segs \in Seq(Segment)
  PROVE  Grown(segs, segs)
  <1>1. \A i \in DOMAIN segs : segs[i].n \in Nat
    BY SegmentOf
  <1> QED
    BY <1>1 DEF Grown

LEMMA GrownTwice ==
  ASSUME NEW a \in Seq(Segment), NEW b \in Seq(Segment), NEW c \in Seq(Segment),
         Grown(a, b), Grown(b, c)
  PROVE  Grown(a, c)
  <1>1. \A i \in DOMAIN a : i \in DOMAIN b
    BY DEF Grown
  <1>2. \A i \in DOMAIN b : i \in DOMAIN c
    BY DEF Grown
  <1>3. \A i \in DOMAIN a : a[i].n \in Nat /\ b[i].n \in Nat /\ c[i].n \in Nat
    BY <1>1, <1>2, SegmentOf
  <1>4. Len(a) \in Nat /\ Len(b) \in Nat /\ Len(c) \in Nat
    OBVIOUS
  <1> QED
    BY SMTT(60), <1>1, <1>2, <1>3, <1>4 DEF Grown

(* A list's capacity is a number of sectors.                               *)
LEMMA MaxSectorsType ==
  ASSUME NEW segs \in Seq(Segment)
  PROVE  MaxSectors(segs) \in Int
  <1>1. \A i \in DOMAIN segs : Run(segs[i]) \subseteq 0 .. (2 * TotalClusters)
    <2>1. ASSUME NEW i \in DOMAIN segs PROVE Run(segs[i]) \subseteq 0 .. (2 * TotalClusters)
      <3>1. segs[i].start \in 0 .. (TotalClusters - 1) /\ segs[i].n \in 1 .. TotalClusters
        BY SegmentOf DEF Segment, Cluster
      <3> QED
        BY <3>1, BitmapAssumption DEF Run
    <2> QED
      BY <2>1
  <1>2. SegClusters(segs) \subseteq 0 .. (2 * TotalClusters)
    BY <1>1 DEF SegClusters
  <1>3. IsFiniteSet(0 .. (2 * TotalClusters))
    BY BitmapAssumption, FS_Interval
  <1>4. Cardinality(SegClusters(segs)) \in Nat
    BY <1>2, <1>3, FS_Subset, FS_CardinalityType
  <1> QED
    BY <1>4, BitmapAssumption DEF MaxSectors

(* A descriptor whose list grows into free clusters keeps its layout: by   *)
(* one cluster of the last segment,                                        *)
LEMMA LayoutGrowLast ==
  ASSUME NEW bm \in SUBSET Cluster, NEW c \in Cluster, NEW f \in Fd, NEW g \in Fd,
         CanGrowLast(bm, f.seg), g.seg = GrowLast(f.seg),
         Layout(c, f), System \subseteq bm, Holds(c, f) \subseteq bm
  PROVE  /\ Layout(c, g)
         /\ Grown(f.seg, g.seg)
         /\ Holds(c, g) = Holds(c, f) \cup {NextCluster(f.seg)}
         /\ NextCluster(f.seg) \in Cluster \ bm
  <1> DEFINE new == GrowLast(f.seg)
             l == Len(f.seg)
             x == NextCluster(f.seg)
  <1>1. f.seg \in Seq(Segment) /\ g.seg = new /\ new \in Seq(Segment)
    BY DEF Fd
  <1>2. x \in Cluster \ bm
    BY DEF CanGrowLast
  <1>3. /\ DOMAIN new = DOMAIN f.seg /\ l \in DOMAIN f.seg
        /\ \A i \in DOMAIN f.seg : /\ i # l => new[i] = f.seg[i]
                                   /\ new[i].start = f.seg[i].start
                                   /\ f.seg[i].n <= new[i].n
        /\ Run(new[l]) = Run(f.seg[l]) \cup {x}
    BY <1>1, GrowLastRuns
  <1>4. SegClusters(new) = SegClusters(f.seg) \cup {x}
    BY <1>1, GrowLastClusters
  <1> HIDE DEF new, l, x
  <1>5. \A i \in DOMAIN f.seg : x \notin Run(f.seg[i])
    BY <1>2 DEF Holds, SegClusters
  <1>6. ASSUME NEW i \in DOMAIN new, NEW j \in DOMAIN new, i # j
        PROVE  Run(new[i]) \cap Run(new[j]) = {}
    <2>1. Run(f.seg[i]) \cap Run(f.seg[j]) = {}
      BY <1>3, <1>6 DEF Layout
    <2>2. \A k \in {i, j} : Run(new[k]) = Run(f.seg[k]) \/ k = l
      BY <1>3
    <2> QED
      BY <1>3, <1>5, <1>6, <2>1, <2>2
  <1>7. new # << >> /\ (Spc > 1 => new[1].start = c)
    BY <1>1, <1>3 DEF Layout
  <1>8. Holds(c, g) = Holds(c, f) \cup {x}
    BY <1>1, <1>4 DEF Holds
  <1>9. Spc = 1 => c \notin SegClusters(new)
    BY <1>2, <1>4 DEF Layout, Holds
  <1>10. Holds(c, g) \cap System = {}
    BY <1>2, <1>8 DEF Layout
  <1>11. Layout(c, g)
    BY <1>1, <1>6, <1>7, <1>9, <1>10 DEF Layout
  <1>12. Grown(f.seg, g.seg)
    BY <1>1, <1>3 DEF Grown
  <1> QED
    BY <1>2, <1>8, <1>11, <1>12 DEF x, new

(* or by a segment.                                                        *)
LEMMA LayoutAppend ==
  ASSUME NEW bm \in SUBSET Cluster, NEW c \in Cluster, NEW f \in Fd, NEW g \in Fd,
         NEW h \in Segment, Run(h) \subseteq Cluster \ bm, g.seg = Append(f.seg, h),
         Layout(c, f), System \subseteq bm, Holds(c, f) \subseteq bm
  PROVE  /\ Layout(c, g)
         /\ Grown(f.seg, g.seg)
         /\ Holds(c, g) = Holds(c, f) \cup Run(h)
  <1> DEFINE new == Append(f.seg, h)
             l == Len(f.seg) + 1
  <1>1. f.seg \in Seq(Segment) /\ g.seg = new /\ new \in Seq(Segment)
    BY DEF Fd
  <1>2. /\ DOMAIN new = DOMAIN f.seg \cup {l} /\ l \notin DOMAIN f.seg
        /\ \A i \in DOMAIN f.seg : new[i] = f.seg[i]
        /\ new[l] = h /\ Len(f.seg) <= Len(new)
    BY <1>1
  <1>3. SegClusters(new) = SegClusters(f.seg) \cup Run(h)
    BY <1>1, AppendClusters
  <1>4. new # << >> /\ (f.seg # << >> => new[1] = f.seg[1])
    <2>1. Len(new) = Len(f.seg) + 1 /\ Len(f.seg) \in Nat
      BY <1>1
    <2>2. f.seg # << >> => 1 \in DOMAIN f.seg
      BY <1>1
    <2> QED
      BY <1>1, <1>2, <2>1, <2>2
  <1> HIDE DEF new, l
  <1>5. \A i \in DOMAIN f.seg : Run(f.seg[i]) \cap Run(h) = {}
    BY DEF Holds, SegClusters
  <1>6. ASSUME NEW i \in DOMAIN new, NEW j \in DOMAIN new, i # j
        PROVE  Run(new[i]) \cap Run(new[j]) = {}
    BY <1>2, <1>5, <1>6 DEF Layout
  <1>7. Spc > 1 => new[1].start = c
    BY <1>4 DEF Layout
  <1>8. Holds(c, g) = Holds(c, f) \cup Run(h)
    BY <1>1, <1>3 DEF Holds
  <1>9. Spc = 1 => c \notin SegClusters(new)
    BY <1>3 DEF Layout, Holds
  <1>10. Holds(c, g) \cap System = {}
    BY <1>8 DEF Layout
  <1>11. Layout(c, g)
    BY <1>1, <1>4, <1>6, <1>7, <1>9, <1>10 DEF Layout
  <1>12. \A i \in DOMAIN f.seg : f.seg[i].n <= new[i].n
    <2>1. \A i \in DOMAIN f.seg : f.seg[i].n \in Nat
      BY <1>1, SegmentOf
    <2> QED
      BY <1>2, <2>1
  <1>13. Grown(f.seg, g.seg)
    BY <1>1, <1>2, <1>12 DEF Grown
  <1> QED
    BY <1>8, <1>11, <1>13

(* A descriptor whose list is cut where CanCut allows keeps its layout.    *)
LEMMA LayoutCutLast ==
  ASSUME NEW c \in Cluster, NEW f \in Fd, NEW g \in Fd,
         CanCut(f), g.seg = CutLast(f.seg), Layout(c, f)
  PROVE  /\ Layout(c, g)
         /\ Holds(c, g) = Holds(c, f) \ {LastCluster(f.seg)}
         /\ LastCluster(f.seg) \in Holds(c, f)
  <1> DEFINE old == f.seg
             new == CutLast(f.seg)
             l == Len(f.seg)
             x == LastCluster(f.seg)
  <1>1. old \in Seq(Segment) /\ g.seg = new /\ new \in Seq(Segment) /\ old # << >>
    BY DEF Fd, CanCut
  <1>2. /\ l \in DOMAIN old
        /\ DOMAIN new \subseteq DOMAIN old /\ DOMAIN old \ {l} \subseteq DOMAIN new
        /\ \A i \in DOMAIN new :
             /\ new[i].start = old[i].start
             /\ i # l => new[i] = old[i]
             /\ i = l => Run(new[i]) = Run(old[i]) \ {x}
        /\ l \in DOMAIN new <=> old[l].n # 1
        /\ x \in Run(old[l])
        /\ old[l].n = 1 => Run(old[l]) = {x}
    BY <1>1, CutLastRuns
  <1>3. SegClusters(new) = SegClusters(old) \ {x} /\ x \in SegClusters(old)
    BY <1>1, CutLastClusters DEF Layout
  <1>4. 1 \in DOMAIN old /\ (l # 1 => 1 # l)
    BY <1>1
  <1>5. Spc > 1 => 1 \in DOMAIN new
    <2>1. CASE l = 1
      BY <1>2, <2>1 DEF CanCut
    <2>2. CASE l # 1
      <3>1. 1 \in DOMAIN old \ {l}
        BY <1>4, <2>2
      <3> QED
        BY <1>2, <3>1
    <2> QED
      BY <2>1, <2>2
  <1>6. x # c
    <2>1. CASE Spc = 1
      BY <1>3, <2>1 DEF Layout
    <2>2. CASE Spc > 1
      <3>1. old[1].start = c
        BY <2>2 DEF Layout
      <3>2. c \in Run(old[1])
        BY <1>1, <1>4, <3>1, SegmentOf, Longer DEF Run
      <3>3. CASE l # 1
        <4>1. l \in DOMAIN old /\ 1 \in DOMAIN old /\ 1 # l
          BY <1>1, <1>4, <3>3
        <4>2. Run(old[1]) \cap Run(old[l]) = {}
          BY <4>1 DEF Layout
        <4>3. x \in Run(old[l])
          BY <1>2
        <4> HIDE DEF x, old, l
        <4> QED
          BY <3>2, <4>2, <4>3
      <3>4. CASE l = 1
        <4>1. old[1].n # 1
          BY <2>2, <3>4 DEF CanCut
        <4>2. x = c + old[1].n - 1
          BY <3>1, <3>4 DEF LastCluster
        <4>3. old[1].n \in Nat /\ c \in Nat
          BY <1>1, <1>4, <3>1, SegmentOf
        <4>4. \A n \in Nat : n # 1 => c + n - 1 # c
          BY <4>3
        <4> HIDE DEF x, old, l
        <4> QED
          BY <4>1, <4>2, <4>3, <4>4
      <3> QED
        BY <3>3, <3>4
    <2> QED
      BY <2>1, <2>2, BitmapAssumption
  <1> HIDE DEF new, l, x, old
  <1>7. ASSUME NEW i \in DOMAIN new, NEW j \in DOMAIN new, i # j
        PROVE  Run(new[i]) \cap Run(new[j]) = {}
    <2>1. Run(old[i]) \cap Run(old[j]) = {}
      BY <1>2, <1>7 DEF Layout, old
    <2>2. \A k \in {i, j} : Run(new[k]) \subseteq Run(old[k])
      BY <1>2
    <2> QED
      BY <2>1, <2>2
  <1>8. Spc > 1 => new # << >> /\ new[1].start = c
    BY <1>1, <1>2, <1>5 DEF Layout, old
  <1>9. Holds(c, g) = Holds(c, f) \ {x}
    BY <1>1, <1>3, <1>6 DEF Holds, old
  <1>10. Layout(c, g)
    BY <1>1, <1>3, <1>7, <1>8, <1>9 DEF Layout, old
  <1> QED
    BY <1>3, <1>9, <1>10 DEF x, old, Holds

-----------------------------------------------------------------------------
(* What is in use *)

LEMMA LiveType ==
  ASSUME TypeOK
  PROVE  /\ Files \subseteq Cluster /\ Live \subseteq Cluster /\ Root \in Live
         /\ \A c \in Live : fd[c] \in Fd
         /\ Named \subseteq Slots
  <1>1. Files \subseteq Cluster
    BY EntryType DEF Files, Named
  <1>2. fd \in [Cluster -> Fd]
    BY DEF TypeOK
  <1> QED
    BY <1>1, <1>2, RootIsCluster DEF Live, Named

LEMMA InUseOf ==
  ASSUME NEW c \in Live
  PROVE  /\ InUse = Others(c) \cup Holds(c, fd[c])
         /\ System \subseteq Others(c)
         /\ c \in Holds(c, fd[c])
         /\ \A d \in Live : d # c => Holds(d, fd[d]) \subseteq Others(c)
  BY DEF InUse, Others, Holds

LEMMA OthersOfNew ==
  ASSUME NEW c, c \notin Live
  PROVE  Others(c) = InUse
  BY DEF InUse, Others

LEMMA Apart ==
  ASSUME Sound, NEW c \in Live
  PROVE  Others(c) \cap Holds(c, fd[c]) = {}
  BY DEF Sound, Layout, Others

LEMMA FilesAreLive ==
  ASSUME Sound
  PROVE  Root \notin Files /\ \A c \in Live : c # Root => c \in Files
  BY DEF Sound, Files, Live

(* A path that holds all that is in use in its bitmap on the disk covers   *)
(* every file.                                                             *)
LEMMA MarkedCovers ==
  ASSUME NEW r, Marks(dbm, InUse)
  PROVE  Covered(r)
  BY DEF Marks, Covered, InUse

(* What only depends on the entries in use and their segments.             *)
LEMMA SameUse ==
  ASSUME TypeOK, Named' = Named, \A i \in Named : ent'[i].at = ent[i].at,
         \A c \in Live : fd'[c].seg = fd[c].seg
  PROVE  /\ Files' = Files /\ Live' = Live
         /\ \A c \in Live : Holds(c, fd'[c]) = Holds(c, fd[c])
         /\ InUse' = InUse
         /\ \A c \in Cluster : Others(c)' = Others(c)
  <1>1. Files' = Files
    BY DEF Files
  <1>2. Live' = Live
    BY <1>1 DEF Live
  <1>3. \A c \in Live : Holds(c, fd'[c]) = Holds(c, fd[c])
    BY DEF Holds
  <1>4. InUse' = InUse
    BY <1>2, <1>3 DEF InUse
  <1>5. ASSUME NEW c \in Cluster PROVE Others(c)' = Others(c)
    BY <1>2, <1>3 DEF Others
  <1> QED
    BY <1>1, <1>2, <1>3, <1>4, <1>5

LEMMA SameSound ==
  ASSUME TypeOK, Sound,
         Named' = Named, \A i \in Named : ent'[i].at = ent[i].at,
         \A c \in Live : fd'[c].seg = fd[c].seg,
         fd'[Root].siz = fd[Root].siz, fd[Root].siz <= Len(ent')
  PROVE  Sound'
  <1>1. /\ Files' = Files /\ Live' = Live
        /\ \A c \in Live : Holds(c, fd'[c]) = Holds(c, fd[c])
    BY SameUse
  <1>2. \A c \in Live : Layout(c, fd'[c])
    <2>1. ASSUME NEW c \in Live PROVE Layout(c, fd'[c])
      <3>1. Layout(c, fd[c]) /\ fd'[c].seg = fd[c].seg
        BY DEF Sound
      <3> QED
        BY <3>1 DEF Layout, Holds
    <2> QED
      BY <2>1
  <1>3. \A c, d \in Live : c # d => Holds(c, fd'[c]) \cap Holds(d, fd'[d]) = {}
    BY <1>1 DEF Sound
  <1>4. \A i \in Named : ent'[i].at # Root
    BY DEF Sound
  <1>5. \A i, j \in Named : ent'[i].at = ent'[j].at => i = j
    BY DEF Sound
  <1>6. fd'[Root].siz <= MaxSectors(fd'[Root].seg) * Bps
    BY DEF Sound, Live
  <1> QED
    BY <1>1, <1>2, <1>3, <1>4, <1>5, <1>6 DEF Sound

(* A step that changes no image and loses nothing.                         *)
LEMMA Quiet ==
  ASSUME TypeOK, UNCHANGED << dbm, fd, ent, lost >>
  PROVE  /\ Sound => Sound'
         /\ Linked => Linked'
         /\ Marks(dbm, InUse) => Marks(dbm, InUse)'
         /\ \A r \in Session : PathInv(r) => PathInv(r)'
  <1>1. Slots' = Slots /\ Named' = Named
    BY DEF Named, Slots
  <1>2. /\ Files' = Files /\ Live' = Live /\ InUse' = InUse
        /\ \A c \in Cluster : Others(c)' = Others(c)
    BY <1>1, SameUse
  <1>3. Sound => Sound'
    BY <1>1, SameSound DEF Sound
  <1>4. Linked => Linked'
    BY <1>2 DEF Linked
  <1>5. \A bm, X : Marks(bm, X) => Marks(bm, X)'
    BY DEF Marks
  <1>6. ASSUME NEW r \in Session, PathInv(r) PROVE PathInv(r)'
    <2>1. r.at \in Cluster /\ r.new \in Cluster
      BY DEF Session
    <2>2. Covered(r) => Covered(r)'
      BY <1>2 DEF Covered
    <2>3. Extending(r) => Extending(r)'
      BY <1>2, <2>1 DEF Extending
    <2>4. FreshFd(r) => FreshFd(r)'
      BY <1>2, <2>1 DEF FreshFd
    <2>5. \A i : OldEntry(r, i) => OldEntry(r, i)'
      BY <1>1 DEF OldEntry
    <2>6. AtExtend(r) => AtExtend(r)'
      BY <1>1, <1>2, <1>4, <1>5, <2>3, <2>4, <2>5 DEF AtExtend
    <2>7. AtPutFd(r) => AtPutFd(r)'
      BY <1>1, <1>2, <1>4, <1>5, <2>3, <2>4, <2>5 DEF AtPutFd
    <2>8. AtTruncate(r) => AtTruncate(r)'
      BY <1>1, <1>2, <1>4, <1>5, <2>1 DEF AtTruncate
    <2> QED
      BY <1>1, <1>2, <1>4, <1>5, <1>6, <2>2, <2>5, <2>6, <2>7, <2>8 DEF PathInv
  <1> QED
    BY <1>2, <1>3, <1>4, <1>6 DEF Marks

-----------------------------------------------------------------------------
(* One path *)

(* A step moves one path, which was at work or found all others idle.      *)
LEMMA Mover ==
  ASSUME NEW p \in Paths, Request(p) \/ Step(p)
  PROVE  /\ \/ s' = s
            \/ \E q : Put(p, q)
         /\ \/ s[p].pc # "idle"
            \/ Exclusive => \A o \in Paths : s[o].pc = "idle"
  <1>1. CASE Request(p)
    <2>1. ASSUME NEW n \in Names, Open(p, n) \/ Create(p, n) \/ Delete(p, n)
          PROVE  (\E q : Put(p, q)) /\ Begin(p)
      BY <2>1 DEF Open, Create, Delete
    <2>2. ASSUME NEW n \in Names, NEW m \in Names, Rename(p, n, m)
          PROVE  (\E q : Put(p, q)) /\ Begin(p)
      BY <2>2 DEF Rename
    <2>3. ASSUME \/ \E pos \in 0 .. MaxSize : Seek(p, pos)
                 \/ \E k \in WriteSizes : Write(p, k)
                 \/ Close(p)
          PROVE  (\E q : Put(p, q)) /\ s[p].pc = "open"
      BY <2>3 DEF Seek, Write, Close, Called
    <2>4. ASSUME NEW siz \in 0 .. MaxSize, SetSize(p, siz)
          PROVE  s' = s /\ s[p].pc = "open"
      BY <2>4 DEF SetSize, Called
    <2>5. Begin(p) => (Exclusive => \A o \in Paths : s[o].pc = "idle")
      BY DEF Begin
    <2> QED
      BY <1>1, <2>1, <2>2, <2>3, <2>4, <2>5 DEF Request
  <1>2. CASE Step(p)
    <2>1. s[p].pc # "idle"
      BY <1>2 DEF Step, OpenParent, Replace, AllocateFd, PutNewFd, Reopen, NotFound,
           Unlink, Release, ExtendLast, NewSegment, PutData, PutDataFails, PutFd,
           RollBack, Cut, PutCut, PutBitmap
    <2>2. \E q : Put(p, q)
      BY <1>2 DEF Step, OpenParent, Replace, AllocateFd, PutNewFd, Reopen, NotFound,
           Unlink, Release, ExtendLast, NewSegment, PutData, PutDataFails, PutFd,
           RollBack, Cut, PutCut, PutBitmap, Return
    <2> QED
      BY <2>1, <2>2
  <1> QED
    BY <1>1, <1>2

LEMMA OnePathKept ==
  ASSUME Exclusive, TypeOK, OnePath, [Next]_vars
  PROVE  OnePath'
  <1>1. ASSUME NEW p \in Paths, Request(p) \/ Step(p) PROVE OnePath'
    <2>1. \A o \in Paths : o # p => s'[o] = s[o] /\ s[o].pc = "idle"
      <3>1. \A o \in Paths : o # p => s[o].pc = "idle"
        BY <1>1, Mover DEF OnePath
      <3>2. \A o \in Paths : o # p => s'[o] = s[o]
        BY <1>1, Mover DEF Put, TypeOK
      <3> QED
        BY <3>1, <3>2
    <2> QED
      BY <2>1 DEF OnePath
  <1>2. CASE Crash
    BY <1>2 DEF Crash, Idle, OnePath
  <1>3. CASE UNCHANGED vars
    BY <1>3 DEF vars, OnePath
  <1> QED
    BY <1>1, <1>2, <1>3 DEF Next

(* The other paths are idle, so the invariant is about the moved one.      *)
LEMMA Settle ==
  ASSUME TypeOK, NEW p \in Paths, NEW q, Put(p, q),
         \A o \in Paths : o # p => s[o].pc = "idle",
         Sound',
         q.pc = "idle" => Marks(dbm, InUse)' /\ Linked',
         q.pc # "idle" => PathInv(q)'
  PROVE  Good'
  <1>1. s' = [s EXCEPT ![p] = q] /\ s \in [Paths -> Session]
    BY DEF Put, TypeOK
  <1>2. s'[p] = q /\ \A o \in Paths : o # p => s'[o].pc = "idle"
    BY <1>1
  <1>3. \A r \in { s'[o] : o \in Paths } : r.pc # "idle" => r = q
    BY <1>2
  <1>4. (AtRest => Marks(dbm, InUse) /\ Linked)'
    BY <1>2 DEF AtRest
  <1> QED
    BY <1>3, <1>4 DEF Good

LEMMA PutIs ==
  ASSUME TypeOK, TypeOK', NEW p \in Paths, NEW q, Put(p, q)
  PROVE  q \in Session
  <1>1. s'[p] = q /\ s' \in [Paths -> Session]
    BY DEF Put, TypeOK
  <1> QED
    BY <1>1

LEMMA QuietSettle ==
  ASSUME TypeOK, TypeOK', Sound, UNCHANGED << dbm, fd, ent, lost >>,
         NEW p \in Paths, NEW q, Put(p, q),
         \A o \in Paths : o # p => s[o].pc = "idle",
         q.pc = "idle" => Marks(dbm, InUse) /\ Linked,
         q.pc # "idle" => PathInv(q)
  PROVE  Good'
  BY PutIs, Quiet, Settle

(* What is known of a path at work.                                        *)
LEMMA AtWork ==
  ASSUME OnePath, Good, NEW p \in Paths, s[p].pc # "idle"
  PROVE  /\ PathInv(s[p]) /\ Sound
         /\ \A o \in Paths : o # p => s[o].pc = "idle"
  BY DEF OnePath, Good

(* What is known when a call may begin.                                    *)
LEMMA AtBegin ==
  ASSUME Exclusive, Good, NEW p \in Paths, Begin(p)
  PROVE  /\ Marks(dbm, InUse) /\ Linked /\ Sound
         /\ \A o \in Paths : o # p => s[o].pc = "idle"
  BY DEF Good, AtRest, Begin

-----------------------------------------------------------------------------
(* Steps that change no image *)

LEMMA OpenedInv ==
  ASSUME TypeOK, Marks(dbm, InUse), Linked, NEW pc, NEW job, NEW c, NEW n,
         \/ pc = "open" /\ job = "file" /\ c \in Files
         \/ pc = "check" /\ job = "create" /\ c = Root /\ n \in Names
         \/ pc = "unlink" /\ job \in {"delete", "recreate"} /\ c = Root /\ n \in Names
  PROVE  PathInv(Opened(pc, job, c, n))
  <1> DEFINE q == Opened(pc, job, c, n)
  <1>1. /\ q.pc = pc /\ q.job = job /\ q.at = c /\ q.name = n /\ q.ec = "ok"
        /\ q.bitmap = dbm /\ q.saved = dbm
    BY DEF Opened, Idle
  <1>2. Covered(q)
    BY MarkedCovers
  <1> HIDE DEF q
  <1>3. PathInv(q)
    BY <1>1, <1>2 DEF PathInv
  <1> QED
    BY <1>3 DEF q

LEMMA NamedAt ==
  ASSUME NEW n \in Names, NEW i \in Slots, ent[i].name = n
  PROVE  i \in Named /\ ent[i].at \in Files
  BY DEF Named, Files

LEMMA OpenInv ==
  ASSUME Exclusive, TypeOK, TypeOK', Good, NEW p \in Paths, NEW n \in Names, Open(p, n)
  PROVE  Good'
  <1>1. PICK i \in Slots : Found(n, i) /\ Put(p, Opened("open", "file", ent[i].at, n))
    BY DEF Open
  <1>2. ent[i].at \in Files
    BY <1>1, NamedAt DEF Found, IsFirst
  <1>3. Begin(p) /\ UNCHANGED << dbm, fd, ent, lost >>
    BY DEF Open
  <1> DEFINE q == Opened("open", "file", ent[i].at, n)
  <1>4. PathInv(q)
    BY <1>2, <1>3, AtBegin, OpenedInv
  <1>5. q.pc # "idle"
    BY DEF Opened, Idle
  <1> HIDE DEF q
  <1> QED
    BY <1>1, <1>3, <1>4, <1>5, AtBegin, QuietSettle DEF q

LEMMA DeleteInv ==
  ASSUME Exclusive, TypeOK, TypeOK', Good, NEW p \in Paths, NEW n \in Names, Delete(p, n)
  PROVE  Good'
  <1> DEFINE q == Opened("unlink", "delete", Root, n)
  <1>1. Begin(p) /\ UNCHANGED << dbm, fd, ent, lost >> /\ Put(p, q)
    BY DEF Delete
  <1>2. PathInv(q)
    BY <1>1, AtBegin, OpenedInv
  <1>3. q.pc # "idle"
    BY DEF Opened, Idle
  <1> HIDE DEF q
  <1> QED
    BY <1>1, <1>2, <1>3, AtBegin, QuietSettle

(* Between two openings of the directory a path holds no more than a name. *)
LEMMA BetweenInv ==
  ASSUME Marks(dbm, InUse), Linked, NEW pc \in {"parent", "reopen"}, NEW n \in Names
  PROVE  PathInv([Idle EXCEPT !.pc = pc, !.name = n])
  <1> DEFINE q == [Idle EXCEPT !.pc = pc, !.name = n]
  <1>1. q.pc = pc /\ q.job = "none" /\ q.name = n /\ q.ec = "ok"
    BY DEF Idle
  <1>2. Covered(q)
    BY MarkedCovers
  <1> HIDE DEF q
  <1>3. PathInv(q)
    BY <1>1, <1>2 DEF PathInv
  <1> QED
    BY <1>3 DEF q

LEMMA CreateInv ==
  ASSUME Exclusive, TypeOK, TypeOK', Good, NEW p \in Paths, NEW n \in Names, Create(p, n)
  PROVE  Good'
  <1> DEFINE q == [Idle EXCEPT !.pc = "parent", !.name = n]
  <1>1. Begin(p) /\ UNCHANGED << dbm, fd, ent, lost >> /\ Put(p, q)
    BY DEF Create
  <1>2. PathInv(q)
    BY <1>1, AtBegin, BetweenInv
  <1>3. q.pc # "idle"
    BY DEF Idle
  <1> HIDE DEF q
  <1> QED
    BY <1>1, <1>2, <1>3, AtBegin, QuietSettle

LEMMA OpenParentInv ==
  ASSUME TypeOK, TypeOK', OnePath, Good, NEW p \in Paths, OpenParent(p)
  PROVE  Good'
  <1> DEFINE q == Opened("check", "create", Root, s[p].name)
  <1>1. s[p].pc = "parent" /\ UNCHANGED << dbm, fd, ent, lost >> /\ Put(p, q)
    BY DEF OpenParent
  <1>2. Marks(dbm, InUse) /\ Linked /\ s[p].name \in Names
    BY <1>1, AtWork DEF PathInv
  <1>3. PathInv(q)
    BY <1>2, OpenedInv
  <1>4. q.pc # "idle"
    BY DEF Opened, Idle
  <1> HIDE DEF q
  <1> QED
    BY <1>1, <1>3, <1>4, AtWork, QuietSettle

LEMMA ReplaceInv ==
  ASSUME TypeOK, TypeOK', OnePath, Good, NEW p \in Paths, Replace(p)
  PROVE  Good'
  <1> DEFINE q == Opened("unlink", "recreate", Root, s[p].name)
  <1>1. s[p].pc = "check" /\ UNCHANGED << dbm, fd, ent, lost >> /\ Put(p, q)
    BY DEF Replace
  <1>2. Marks(dbm, InUse) /\ Linked /\ s[p].name \in Names
    BY <1>1, AtWork DEF PathInv
  <1>3. PathInv(q)
    BY <1>2, OpenedInv
  <1>4. q.pc # "idle"
    BY DEF Opened, Idle
  <1> HIDE DEF q
  <1> QED
    BY <1>1, <1>3, <1>4, AtWork, QuietSettle

LEMMA ReopenInv ==
  ASSUME TypeOK, TypeOK', OnePath, Good, NEW p \in Paths, Reopen(p)
  PROVE  Good'
  <1> DEFINE n == s[p].name
             q(i) == Opened("open", "file", ent[i].at, n)
  <1>1. s[p].pc = "reopen" /\ UNCHANGED << dbm, fd, ent, lost >>
    BY DEF Reopen
  <1>2. Marks(dbm, InUse) /\ Linked /\ n \in Names
    BY <1>1, AtWork DEF PathInv
  <1>3. ASSUME NEW i \in Slots, Found(n, i), Put(p, q(i)) PROVE Good'
    <2>1. ent[i].at \in Files
      BY <1>2, <1>3, NamedAt DEF Found, IsFirst
    <2>2. PathInv(q(i))
      BY <1>2, <2>1, OpenedInv
    <2>3. q(i).pc # "idle"
      BY DEF Opened, Idle
    <2> HIDE DEF q
    <2> QED
      BY <1>1, <1>3, <2>2, <2>3, AtWork, QuietSettle
  <1>4. ASSUME Put(p, Idle) PROVE Good'
    BY <1>1, <1>2, <1>4, AtWork, QuietSettle DEF Idle
  <1> QED
    BY <1>3, <1>4 DEF Reopen

LEMMA SeekInv ==
  ASSUME TypeOK, TypeOK', OnePath, Good, NEW p \in Paths, NEW pos, Seek(p, pos)
  PROVE  Good'
  <1> DEFINE r == s[p]
             q == [r EXCEPT !.pos = pos]
  <1>1. r.pc = "open" /\ UNCHANGED << dbm, fd, ent, lost >> /\ Put(p, q)
    BY DEF Seek, Called
  <1>2. PathInv(r)
    BY <1>1, AtWork
  <1>3. r \in Session
    BY DEF TypeOK
  <1>4. /\ q.pc = "open" /\ q.job = r.job /\ q.at = r.at /\ q.ec = r.ec
        /\ q.bitmap = r.bitmap /\ q.saved = r.saved /\ q.new = r.new /\ q.name = r.name
    BY <1>1, <1>3 DEF Session
  <1> HIDE DEF q, r
  <1>5. PathInv(q)
    BY <1>1, <1>2, <1>4 DEF PathInv, Covered
  <1> QED
    BY <1>1, <1>4, <1>5, AtWork, QuietSettle DEF r

LEMMA NotFoundInv ==
  ASSUME TypeOK, TypeOK', OnePath, Good, NEW p \in Paths, NotFound(p)
  PROVE  Good'
  <1> DEFINE r == s[p]
             q == [r EXCEPT !.pc = "putmap", !.ec = "EOS_PNNF"]
  <1>1. r.pc = "unlink" /\ UNCHANGED << dbm, fd, ent, lost >> /\ Put(p, q)
    BY DEF NotFound
  <1>2. PathInv(r)
    BY <1>1, AtWork
  <1>3. r \in Session
    BY DEF TypeOK
  <1>4. /\ q.pc = "putmap" /\ q.job = r.job /\ q.at = r.at /\ q.ec = "EOS_PNNF"
        /\ q.bitmap = r.bitmap /\ q.saved = r.saved /\ q.new = r.new /\ q.name = r.name
    BY <1>3 DEF Session
  <1> HIDE DEF q, r
  <1>5. PathInv(q)
    BY <1>1, <1>2, <1>4 DEF PathInv, Covered
  <1> QED
    BY <1>1, <1>4, <1>5, AtWork, QuietSettle DEF r

LEMMA WriteStarts ==
  ASSUME TypeOK, Sound, NEW q, q.at \in Live, q.cur = fd[q.at], q.orig = fd[q.at]
  PROVE  Extending(q)
  <1>1. fd[q.at] \in Fd
    BY LiveType
  <1>2. Grown(q.orig.seg, q.cur.seg)
    BY <1>1, GrownSelf DEF Fd
  <1>3. Layout(q.at, q.cur)
    BY DEF Sound
  <1>4. Holds(q.at, q.cur) \cap Others(q.at) = {}
    BY Apart
  <1> QED
    BY <1>2, <1>3, <1>4 DEF Extending

LEMMA WriteInv ==
  ASSUME TypeOK, TypeOK', OnePath, Good, NEW p \in Paths, NEW k, Write(p, k)
  PROVE  Good'
  <1> DEFINE r == s[p]
             q == Writing(r, fd[r.at], r.pos, k)
  <1>1. r.pc = "open" /\ UNCHANGED << dbm, fd, ent, lost >> /\ Put(p, q)
    BY DEF Write, Called
  <1>2. PathInv(r) /\ Sound
    BY <1>1, AtWork
  <1>3. r \in Session
    BY DEF TypeOK
  <1>4. /\ q.pc = "extend" /\ q.job = r.job /\ q.at = r.at /\ q.ec = r.ec
        /\ q.bitmap = r.bitmap /\ q.saved = r.saved /\ q.new = r.new /\ q.name = r.name
        /\ q.cur = fd[q.at] /\ q.orig = fd[q.at]
    BY <1>3 DEF Session, Writing
  <1> HIDE DEF q, r
  <1>5. r.job = "file" /\ r.at \in Files /\ Marks(r.bitmap, InUse) /\ Linked /\ Covered(r)
    BY <1>1, <1>2 DEF PathInv
  <1>6. q.at \in Live /\ q.at # Root
    BY <1>2, <1>4, <1>5, FilesAreLive DEF Live
  <1>7. Extending(q)
    BY <1>2, <1>4, <1>6, WriteStarts
  <1>8. InUse \cup Holds(q.at, q.cur) = InUse
    BY <1>4, <1>6, InUseOf
  <1>9. AtExtend(q)
    BY <1>4, <1>5, <1>6, <1>7, <1>8 DEF AtExtend
  <1>10. PathInv(q)
    BY <1>1, <1>2, <1>4, <1>9 DEF PathInv, Covered
  <1> QED
    BY <1>1, <1>4, <1>10, AtWork, QuietSettle DEF r

LEMMA CloseInv ==
  ASSUME TypeOK, TypeOK', OnePath, Good, NEW p \in Paths, Close(p)
  PROVE  Good'
  <1> DEFINE r == s[p]
             q == [r EXCEPT !.pc = IF fd[r.at].dir THEN "putmap" ELSE "truncate",
                            !.pos = 0, !.cur = fd[r.at], !.orig = fd[r.at]]
  <1>1. r.pc = "open" /\ UNCHANGED << dbm, fd, ent, lost >> /\ Put(p, q)
    BY DEF Close, Called
  <1>2. PathInv(r) /\ Sound
    BY <1>1, AtWork
  <1>3. r \in Session
    BY DEF TypeOK
  <1>4. /\ q.pc \in {"putmap", "truncate"}
        /\ q.job = r.job /\ q.at = r.at /\ q.ec = r.ec
        /\ q.bitmap = r.bitmap /\ q.saved = r.saved /\ q.new = r.new /\ q.name = r.name
        /\ q.cur = fd[q.at] /\ q.orig = fd[q.at]
    BY <1>3 DEF Session
  <1> HIDE DEF q, r
  <1>5. /\ r.job = "file" /\ r.at \in Files /\ Marks(r.bitmap, InUse) /\ Linked
        /\ Covered(r) /\ r.ec = "ok"
    BY <1>1, <1>2 DEF PathInv
  <1>6. q.at \in Live
    BY <1>4, <1>5 DEF Live
  <1>7. InUse = Others(q.at) \cup Holds(q.at, q.cur)
    BY <1>4, <1>6, InUseOf
  <1>8. Layout(q.at, q.cur)
    BY <1>2, <1>4, <1>6 DEF Sound
  <1>9. AtTruncate(q)
    BY <1>4, <1>5, <1>7, <1>8 DEF AtTruncate
  <1>10. PathInv(q)
    BY <1>1, <1>2, <1>4, <1>5, <1>9 DEF PathInv, Covered
  <1> QED
    BY <1>1, <1>4, <1>10, AtWork, QuietSettle DEF r

LEMMA AllocateFdInv ==
  ASSUME TypeOK, TypeOK', OnePath, Good, NEW p \in Paths, AllocateFd(p)
  PROVE  Good'
  <1> DEFINE r == s[p]
  <1>1. r.pc = "check" /\ UNCHANGED << dbm, fd, ent, lost >>
    BY DEF AllocateFd
  <1>2. PathInv(r) /\ Sound /\ r \in Session
    BY <1>1, AtWork DEF TypeOK
  <1> HIDE DEF r
  <1>3. /\ r.job = "create" /\ r.at = Root /\ r.name \in Names /\ r.ec = "ok"
        /\ Marks(r.bitmap, InUse) /\ Marks(dbm, InUse) /\ Linked /\ r.saved = dbm
    BY <1>1, <1>2 DEF PathInv
  <1>4. ASSUME NEW c \in Cluster, IsFreeBit(r.bitmap, c),
               Put(p, [r EXCEPT !.pc = "newfd", !.new = c, !.bitmap = @ \cup {c},
                                !.entry = [name |-> r.name, at |-> c]])
        PROVE  Good'
    <2> DEFINE q == [r EXCEPT !.pc = "newfd", !.new = c, !.bitmap = @ \cup {c},
                              !.entry = [name |-> r.name, at |-> c]]
    <2>1. /\ q.pc = "newfd" /\ q.job = "create" /\ q.at = Root /\ q.name = r.name
          /\ q.ec = "ok" /\ q.bitmap = r.bitmap \cup {c} /\ q.saved = dbm /\ q.new = c
          /\ q.entry.name = r.name /\ q.entry.at = c
      BY <1>2, <1>3 DEF Session
    <2> HIDE DEF q
    <2>2. c \notin r.bitmap
      BY <1>4 DEF IsFreeBit
    <2>3. c \notin InUse /\ Marks(q.bitmap, InUse \cup {c})
      BY <1>3, <2>1, <2>2 DEF Marks
    <2>4. Covered(q)
      BY <1>3, MarkedCovers
    <2>5. PathInv(q)
      BY <1>3, <2>1, <2>3, <2>4 DEF PathInv
    <2> QED
      BY <1>1, <1>4, <2>1, <2>5, AtWork, QuietSettle DEF r, q
  <1>5. ASSUME Put(p, [r EXCEPT !.pc = "putmap", !.ec = "EOS_DF"])
        PROVE  Good'
    <2> DEFINE q == [r EXCEPT !.pc = "putmap", !.ec = "EOS_DF"]
    <2>1. /\ q.pc = "putmap" /\ q.job = "create" /\ q.name = r.name
          /\ q.ec = "EOS_DF" /\ q.bitmap = r.bitmap /\ q.saved = dbm
      BY <1>2, <1>3 DEF Session
    <2> HIDE DEF q
    <2>2. Covered(q)
      BY <1>3, MarkedCovers
    <2>3. PathInv(q)
      BY <1>3, <2>1, <2>2 DEF PathInv
    <2> QED
      BY <1>1, <1>5, <2>1, <2>3, AtWork, QuietSettle DEF r, q
  <1> QED
    BY <1>4, <1>5 DEF AllocateFd, r

LEMMA ReleaseInv ==
  ASSUME TypeOK, TypeOK', OnePath, Good, NEW p \in Paths, Release(p)
  PROVE  Good'
  <1> DEFINE r == s[p]
             H == Holds(r.new, fd[r.new])
             o == IF fd[r.new].lnk < 1 THEN [r EXCEPT !.bitmap = @ \ H] ELSE r
             q == Writing(o, fd[r.at], r.pos, 1)
  <1>1. r.pc = "release" /\ UNCHANGED << dbm, fd, ent, lost >> /\ Put(p, q)
    BY DEF Release
  <1>2. PathInv(r) /\ Sound /\ r \in Session
    BY <1>1, AtWork DEF TypeOK
  <1>3. /\ o \in Session /\ o.job = r.job /\ o.at = r.at /\ o.ec = r.ec /\ o.name = r.name
        /\ o.saved = r.saved /\ o.new = r.new /\ o.entry = r.entry
        /\ o.bitmap = IF fd[r.new].lnk < 1 THEN r.bitmap \ H ELSE r.bitmap
    BY <1>2 DEF Session
  <1>4. /\ q.pc = "extend" /\ q.job = o.job /\ q.at = o.at /\ q.ec = o.ec
        /\ q.bitmap = o.bitmap /\ q.saved = o.saved /\ q.new = o.new /\ q.name = o.name
        /\ q.entry = o.entry /\ q.pos = r.pos /\ q.goal = r.pos + 1
        /\ q.cur = fd[r.at] /\ q.orig = fd[r.at]
    <2> HIDE DEF o
    <2> QED
      BY <1>3 DEF Session, Writing
  <1> HIDE DEF q, o, r
  <1>5. /\ r.job \in {"delete", "recreate"} /\ r.at = Root /\ r.ec = "ok"
        /\ Marks(r.bitmap, InUse) /\ r.saved = dbm /\ Covered(r)
        /\ OldEntry(r, r.pos + 1) /\ r.entry.name = NoName
        /\ lost = "nothing" =>
             fd[r.new].lnk = 0 /\ \A c \in Files \ {r.new} : fd[c].lnk = 1
        /\ r.name \in Names
    BY <1>1, <1>2 DEF PathInv
  <1>6. Extending(q)
    BY <1>2, <1>3, <1>4, <1>5, LiveType, WriteStarts
  <1>7. Marks(q.bitmap, InUse \ H)
    BY <1>3, <1>4, <1>5 DEF Marks
  <1>8. AtExtend(q)
    BY <1>3, <1>4, <1>5, <1>6, <1>7 DEF AtExtend, OldEntry
  <1>9. Covered(q)
    BY <1>3, <1>4, <1>5 DEF Covered
  <1>10. PathInv(q)
    BY <1>3, <1>4, <1>5, <1>8, <1>9 DEF PathInv
  <1> QED
    BY <1>1, <1>4, <1>10, AtWork, QuietSettle DEF r

LEMMA RenameInv ==
  ASSUME Exclusive, TypeOK, TypeOK', Good,
         NEW p \in Paths, NEW n \in Names, NEW m \in Names, Rename(p, n, m)
  PROVE  Good'
  <1> DEFINE b == Opened("extend", "rename", Root, m)
             o(i) == [b EXCEPT !.new = ent[i].at,
                               !.entry = [name |-> m, at |-> ent[i].at]]
             q(i) == Writing(o(i), fd[Root], i - 1, 1)
  <1>1. PICK i \in Slots : Found(n, i) /\ Put(p, q(i))
    BY DEF Rename
  <1>2. Begin(p) /\ UNCHANGED << dbm, fd, ent, lost >>
    BY DEF Rename
  <1>3. Marks(dbm, InUse) /\ Linked /\ Sound /\ \A a \in Paths : a # p => s[a].pc = "idle"
    BY <1>2, AtBegin
  <1>4. i \in Named
    BY <1>1, NamedAt DEF Found, IsFirst
  <1> DEFINE w == q(i)
  <1>5. /\ w.pc = "extend" /\ w.job = "rename" /\ w.at = Root /\ w.ec = "ok"
        /\ w.bitmap = dbm /\ w.saved = dbm /\ w.new = ent[i].at
        /\ w.entry = [name |-> m, at |-> ent[i].at] /\ w.pos = i - 1
        /\ w.goal = i - 1 + 1 /\ w.cur = fd[Root] /\ w.orig = fd[Root]
    BY DEF Writing, Opened, Idle
  <1>6. Put(p, w)
    BY <1>1
  <1> HIDE DEF q, w
  <1>7. i \in Nat /\ w.goal = w.pos + 1 /\ w.pos + 1 = i
    BY <1>4, <1>5, EntryType DEF Named
  <1>8. Extending(w)
    BY <1>3, <1>5, LiveType, WriteStarts
  <1>9. AtExtend(w)
    BY <1>3, <1>4, <1>5, <1>7, <1>8 DEF AtExtend, OldEntry
  <1>10. PathInv(w)
    BY <1>3, <1>5, <1>9, MarkedCovers DEF PathInv
  <1> QED
    BY <1>2, <1>3, <1>5, <1>6, <1>10, QuietSettle

-----------------------------------------------------------------------------
(* Allocation: still nothing on the image changes                          *)

(* Only a file's write, or a create that adds an entry, allocates.         *)
LEMMA WhoGrows ==
  ASSUME TypeOK, Sound, NEW r \in Session, AtExtend(r), NeedsRoom(r), r.job # "none"
  PROVE  /\ r.job \in {"file", "create"}
         /\ r.job = "create" => ~ (r.goal <= fd[Root].siz)
  <1>1. fd[Root] \in Fd
    BY LiveType
  <1> DEFINE m == MaxSectors(fd[Root].seg)
             z == fd[Root].siz
  <1>2. m \in Int /\ z \in Nat /\ z <= m * Bps
    BY <1>1, MaxSectorsType DEF Sound, Fd
  <1> HIDE DEF m, z
  <1>3. r.job # "file" => ~ (r.goal <= z)
    <2> SUFFICES ASSUME r.job # "file", r.goal <= z PROVE FALSE
      OBVIOUS
    <2>1. r.at = Root /\ r.cur = fd[Root]
      BY DEF AtExtend, Extending, z
    <2>2. m * Bps < r.goal
      BY <2>1 DEF NeedsRoom, m
    <2>3. r.goal \in Nat /\ Bps \in Nat
      BY FdAssumption DEF Session
    <2>4. m * Bps \in Int
      BY <1>2, <2>3
    <2> QED
      BY <1>2, <2>2, <2>3, <2>4
  <1>4. r.job \in {"delete", "recreate", "rename"} => r.goal <= z
    BY DEF AtExtend, OldEntry, Named, Slots, z
  <1> QED
    BY <1>3, <1>4 DEF Session, z

LEMMA ExtendMore ==
  ASSUME TypeOK, TypeOK', OnePath, Good, NEW p \in Paths,
         s[p].pc = "extend", NeedsRoom(s[p]),
         NEW g \in Fd, NEW X \in SUBSET (Cluster \ s[p].bitmap),
         Layout(s[p].at, g), Grown(s[p].cur.seg, g.seg),
         Holds(s[p].at, g) = Holds(s[p].at, s[p].cur) \cup X,
         g.lnk = s[p].cur.lnk, g.siz = s[p].cur.siz,
         Put(p, [s[p] EXCEPT !.cur = g, !.bitmap = @ \cup X]),
         UNCHANGED << dbm, fd, ent, lost >>
  PROVE  Good'
  <1> DEFINE r == s[p]
             q == [r EXCEPT !.cur = g, !.bitmap = @ \cup X]
  <1>1. PathInv(r) /\ Sound /\ r \in Session
    BY AtWork DEF TypeOK
  <1>2. /\ q.pc = "extend" /\ q.job = r.job /\ q.at = r.at /\ q.ec = r.ec
        /\ q.bitmap = r.bitmap \cup X /\ q.saved = r.saved /\ q.new = r.new
        /\ q.name = r.name /\ q.entry = r.entry /\ q.pos = r.pos /\ q.goal = r.goal
        /\ q.cur = g /\ q.orig = r.orig
    BY <1>1 DEF Session
  <1> HIDE DEF q, r
  <1>3. /\ AtExtend(r) /\ r.job # "none" /\ r.saved = dbm /\ r.ec = "ok" /\ Covered(r)
        /\ r.job \in {"create", "recreate", "delete"} => r.name \in Names
    BY <1>1 DEF PathInv, r
  <1>4. /\ r.job \in {"file", "create"}
        /\ r.job = "create" => ~ (r.goal <= fd[Root].siz)
    BY <1>1, <1>3, WhoGrows DEF r
  <1>5. Extending(r)
    BY <1>3 DEF AtExtend
  <1>6. r.orig.seg \in Seq(Segment) /\ r.cur.seg \in Seq(Segment) /\ g.seg \in Seq(Segment)
    BY <1>1 DEF Session, Fd
  <1>7. Grown(q.orig.seg, q.cur.seg)
    BY <1>2, <1>5, <1>6, GrownTwice DEF Extending, r
  <1>8. InUse \subseteq r.bitmap /\ Others(r.at) \subseteq r.bitmap
    <2>1. InUse \subseteq r.bitmap
      BY <1>3, <1>4 DEF AtExtend, Marks
    <2> QED
      BY <1>5, <2>1, InUseOf DEF Extending
  <1>9. Holds(q.at, q.cur) = Holds(r.at, r.cur) \cup X
    BY <1>2 DEF r
  <1>10. Extending(q)
    BY <1>2, <1>5, <1>7, <1>8, <1>9 DEF Extending, r
  <1>11. q.cur.siz = q.orig.siz
    BY <1>2, <1>3 DEF AtExtend, r
  <1>12. r.job = "file" => AtExtend(q)
    <2> SUFFICES ASSUME r.job = "file" PROVE AtExtend(q)
      OBVIOUS
    <2>1. Marks(q.bitmap, InUse \cup Holds(q.at, q.cur))
      BY <1>2, <1>3, <1>9 DEF AtExtend, Marks
    <2> QED
      BY <1>2, <1>3, <1>10, <1>11, <2>1 DEF AtExtend
  <1>13. r.job = "create" => AtExtend(q)
    <2> SUFFICES ASSUME r.job = "create" PROVE AtExtend(q)
      OBVIOUS
    <2>1. /\ r.at = Root /\ FreshFd(r) /\ Marks(r.bitmap, InUse \cup Holds(Root, r.cur) \cup {r.new})
      BY <1>3 DEF AtExtend
    <2>2. Marks(q.bitmap, InUse \cup Holds(Root, q.cur) \cup {q.new})
      BY <1>2, <1>9, <2>1 DEF Marks
    <2>3. FreshFd(q)
      BY <1>2, <1>9, <2>1 DEF FreshFd, Marks, r
    <2> QED
      BY <1>2, <1>3, <1>4, <1>10, <1>11, <2>2, <2>3 DEF AtExtend
  <1>14. Covered(q)
    BY <1>2, <1>3 DEF Covered
  <1>15. PathInv(q)
    BY <1>2, <1>3, <1>4, <1>12, <1>13, <1>14 DEF PathInv
  <1> QED
    BY <1>1, <1>2, <1>15, AtWork, QuietSettle DEF q, r

LEMMA ExtendLastInv ==
  ASSUME TypeOK, TypeOK', OnePath, Good, NEW p \in Paths, ExtendLast(p)
  PROVE  Good'
  <1> DEFINE r == s[p]
             x == NextCluster(r.cur.seg)
             g == [r.cur EXCEPT !.seg = GrowLast(r.cur.seg)]
  <1>1. /\ r.pc = "extend" /\ NeedsRoom(r) /\ CanGrowLast(r.bitmap, r.cur.seg)
        /\ UNCHANGED << dbm, fd, ent, lost >>
    BY DEF ExtendLast
  <1>2. PathInv(r) /\ Sound /\ r \in Session
    BY <1>1, AtWork DEF TypeOK
  <1>3. /\ r.at \in Cluster /\ r.cur \in Fd /\ r.bitmap \in SUBSET Cluster
        /\ r.cur.seg \in Seq(Segment)
    BY <1>2 DEF Session, Fd
  <1>4. Put(p, [r EXCEPT !.cur = g, !.bitmap = @ \cup {x}])
    BY <1>2 DEF ExtendLast, Session
  <1>5. /\ g \in Fd /\ g.seg = GrowLast(r.cur.seg)
        /\ g.lnk = r.cur.lnk /\ g.siz = r.cur.siz
    <2>1. GrowLast(r.cur.seg) \in Seq(Segment)
      BY <1>1, <1>3, GrowLastType
    <2> HIDE DEF r
    <2> QED
      BY <1>3, <2>1 DEF Fd
  <1> HIDE DEF g, r
  <1>6. AtExtend(r) /\ r.job # "none"
    BY <1>1, <1>2 DEF PathInv
  <1>7. r.job \in {"file", "create"}
    BY <1>1, <1>2, <1>6, WhoGrows
  <1>8. /\ System \subseteq r.bitmap /\ Holds(r.at, r.cur) \subseteq r.bitmap
        /\ Layout(r.at, r.cur)
    BY <1>6, <1>7 DEF AtExtend, Extending, Marks, InUse
  <1>9. /\ Layout(r.at, g) /\ Grown(r.cur.seg, g.seg)
        /\ Holds(r.at, g) = Holds(r.at, r.cur) \cup {x}
        /\ x \in Cluster \ r.bitmap
    <2>1. Layout(r.at, g)
      BY <1>1, <1>3, <1>5, <1>8, LayoutGrowLast
    <2>2. Grown(r.cur.seg, g.seg)
      BY ZenonT(120), <1>1, <1>3, <1>5, <1>8, LayoutGrowLast
    <2>3. Holds(r.at, g) = Holds(r.at, r.cur) \cup {x}
      <3>1. SegClusters(g.seg) = SegClusters(r.cur.seg) \cup {x}
        BY <1>1, <1>3, <1>5, GrowLastClusters
      <3> QED
        BY <3>1 DEF Holds
    <2>4. x \in Cluster \ r.bitmap
      BY <1>1 DEF CanGrowLast
    <2> QED
      BY <2>1, <2>2, <2>3, <2>4
  <1> HIDE DEF x
  <1> QED
    <2>1. {x} \in SUBSET (Cluster \ r.bitmap)
      BY <1>9
    <2> QED
      BY <1>1, <1>4, <1>5, <1>9, <2>1, ExtendMore DEF r

LEMMA NewSegmentInv ==
  ASSUME TypeOK, TypeOK', OnePath, Good, NEW p \in Paths, NewSegment(p)
  PROVE  Good'
  <1> DEFINE r == s[p]
  <1>1. /\ r.pc = "extend" /\ NeedsRoom(r)
        /\ UNCHANGED << dbm, fd, ent, lost >>
    BY DEF NewSegment
  <1>2. PICK first \in Cluster, n \in 1 .. TotalClusters :
          /\ IsSasSegment(r.bitmap, ReqClusters, first, n)
          /\ Put(p, [r EXCEPT
               !.cur.seg = Append(r.cur.seg, [start |-> first, n |-> n]),
               !.bitmap = @ \cup (first .. (first + n - 1))])
    BY DEF NewSegment
  <1> DEFINE h == [start |-> first, n |-> n]
             g == [r.cur EXCEPT !.seg = Append(r.cur.seg, h)]
  <1>3. PathInv(r) /\ Sound /\ r \in Session
    BY <1>1, AtWork DEF TypeOK
  <1>4. /\ r.at \in Cluster /\ r.cur \in Fd /\ r.bitmap \in SUBSET Cluster
        /\ r.cur.seg \in Seq(Segment)
    BY <1>3 DEF Session, Fd
  <1>5. h \in Segment /\ Run(h) = first .. (first + n - 1)
    BY DEF Segment, Run
  <1>6. Run(h) \subseteq Cluster \ r.bitmap
    BY <1>2, <1>5 DEF IsSasSegment, FreeRun
  <1>7. Put(p, [r EXCEPT !.cur = g, !.bitmap = @ \cup Run(h)])
    BY <1>2, <1>3, <1>5 DEF Session
  <1> HIDE DEF h
  <1>8. /\ g \in Fd /\ g.seg = Append(r.cur.seg, h)
        /\ g.lnk = r.cur.lnk /\ g.siz = r.cur.siz
    BY <1>4, <1>5, AppendProperties DEF Fd
  <1> HIDE DEF g, r
  <1>9. AtExtend(r) /\ r.job # "none"
    BY <1>1, <1>3 DEF PathInv
  <1>10. r.job \in {"file", "create"}
    BY <1>1, <1>3, <1>9, WhoGrows
  <1>11. /\ System \subseteq r.bitmap /\ Holds(r.at, r.cur) \subseteq r.bitmap
         /\ Layout(r.at, r.cur)
    BY <1>9, <1>10 DEF AtExtend, Extending, Marks, InUse
  <1>12. /\ Layout(r.at, g) /\ Grown(r.cur.seg, g.seg)
         /\ Holds(r.at, g) = Holds(r.at, r.cur) \cup Run(h)
    <2>1. Layout(r.at, g)
      BY ZenonT(120), <1>4, <1>5, <1>6, <1>8, <1>11, LayoutAppend
    <2>2. Grown(r.cur.seg, g.seg)
      BY <1>4, <1>5, <1>6, <1>8, <1>11, LayoutAppend
    <2>3. Holds(r.at, g) = Holds(r.at, r.cur) \cup Run(h)
      <3>1. SegClusters(g.seg) = SegClusters(r.cur.seg) \cup Run(h)
        BY <1>4, <1>5, <1>8, AppendClusters
      <3> QED
        BY <3>1 DEF Holds
    <2> QED
      BY <2>1, <2>2, <2>3
  <1> QED
    BY <1>1, <1>6, <1>7, <1>8, <1>12, ExtendMore DEF r

(* A write that ran out of clusters or of segments takes its path's bitmap *)
(* back to what is in use.                                                 *)
LEMMA RollBackInv ==
  ASSUME TypeOK, TypeOK', OnePath, Good, NEW p \in Paths,
         NEW e \in {"EOS_DF", "EOS_SF"}, RollBack(p, e)
  PROVE  Good'
  <1> DEFINE r == s[p]
             G == Gained(r.orig.seg, r.cur.seg)
             q == WriteFailed(r, r.bitmap \ G, e)
  <1>1. /\ r.pc = "extend" /\ NeedsRoom(r) /\ Put(p, q)
        /\ UNCHANGED << dbm, fd, ent, lost >>
    BY DEF RollBack
  <1>2. PathInv(r) /\ Sound /\ r \in Session
    BY <1>1, AtWork DEF TypeOK
  <1>3. /\ AtExtend(r) /\ r.job # "none" /\ r.saved = dbm /\ r.ec = "ok" /\ Covered(r)
        /\ r.job \in {"create", "recreate", "delete"} => r.name \in Names
    BY <1>1, <1>2 DEF PathInv
  <1>4. r.job \in {"file", "create"}
    BY <1>1, <1>2, <1>3, WhoGrows
  <1>5. r.orig.seg \in Seq(Segment) /\ r.cur.seg \in Seq(Segment)
    BY <1>2 DEF Session, Fd
  <1>6. r.job = "file" =>
          /\ q.pc = "open" /\ q.job = "file" /\ q.at = r.at /\ q.ec = "ok"
          /\ q.bitmap = r.bitmap \ G /\ q.saved = r.saved /\ q.new = r.new
    BY <1>2, <1>3 DEF Session, WriteFailed
  <1>7. r.job = "create" =>
          /\ q.pc = "putmap" /\ q.job = "create" /\ q.at = r.at /\ q.ec = e
          /\ q.bitmap = (r.bitmap \ G) \ {r.new} /\ q.saved = r.saved /\ q.new = r.new
          /\ q.name = r.name
    BY <1>2, <1>3 DEF Session, WriteFailed
  <1> HIDE DEF q, r, G
  <1>8. Extending(r)
    BY <1>3 DEF AtExtend
  <1>9. /\ SegClusters(r.orig.seg) \subseteq SegClusters(r.cur.seg)
        /\ G = SegClusters(r.cur.seg) \ SegClusters(r.orig.seg)
    <2> DEFINE a == r.orig.seg
               b == r.cur.seg
    <2>1. /\ a \in Seq(Segment) /\ b \in Seq(Segment) /\ Grown(a, b) /\ G = Gained(a, b)
          /\ \A i, j \in DOMAIN b : i # j => Run(b[i]) \cap Run(b[j]) = {}
      BY <1>5, <1>8 DEF Extending, Layout, G
    <2> HIDE DEF a, b
    <2>2. SegClusters(a) \subseteq SegClusters(b)
      BY <2>1, GainedClusters
    <2>3. Gained(a, b) = SegClusters(b) \ SegClusters(a)
      BY <2>1, GainedClusters
    <2> QED
      BY <2>1, <2>2, <2>3 DEF a, b
  <1>10. Others(r.at) \cap Holds(r.at, fd[r.at]) = {} /\ InUse = Others(r.at) \cup Holds(r.at, fd[r.at])
    BY <1>2, <1>8, InUseOf, Apart DEF Extending
  <1>11. /\ Holds(r.at, r.orig) \cup G = Holds(r.at, r.cur)
         /\ Holds(r.at, r.orig) \cap G = {}
    <2>1. Spc = 1 => r.at \notin SegClusters(r.cur.seg)
      BY <1>8 DEF Extending, Layout
    <2>2. Spc > 1 => r.at \in SegClusters(r.orig.seg)
      <3> SUFFICES ASSUME Spc > 1 PROVE r.at \in SegClusters(r.orig.seg)
        OBVIOUS
      <3>1. r.orig.seg # << >> /\ r.orig.seg[1].start = r.at
        BY <1>2, <1>8 DEF Extending, Sound, Layout
      <3>2. 1 \in DOMAIN r.orig.seg
        BY <1>5, <3>1
      <3>3. r.at \in Run(r.orig.seg[1])
        BY <1>5, <3>1, <3>2, SegmentOf DEF Run
      <3> QED
        BY <3>2, <3>3 DEF SegClusters
    <2>3. Spc = 1 \/ Spc > 1
      BY BitmapAssumption
    <2> QED
      BY <1>9, <2>1, <2>2, <2>3 DEF Holds
  <1>12. r.orig = fd[r.at] /\ Holds(r.at, r.cur) \cap Others(r.at) = {}
    BY <1>8 DEF Extending
  <1>13. G \cap InUse = {} /\ InUse \cup Holds(r.at, r.cur) = InUse \cup G
    BY <1>10, <1>11, <1>12
  <1>14. CASE r.job = "file"
    <2>1. Marks(r.bitmap, InUse \cup G) /\ r.at \in Files /\ Linked
      BY <1>2, <1>3, <1>8, <1>13, <1>14, FilesAreLive DEF AtExtend, Extending
    <2>2. Marks(q.bitmap, InUse)
      BY <1>6, <1>13, <1>14, <2>1 DEF Marks
    <2>3. Covered(q)
      BY <1>3, <1>6, <1>14 DEF Covered
    <2>4. PathInv(q)
      BY <1>3, <1>6, <1>14, <2>1, <2>2, <2>3 DEF PathInv
    <2> QED
      BY <1>1, <1>2, <1>6, <1>14, <2>4, AtWork, QuietSettle DEF r
  <1>15. CASE r.job = "create"
    <2>1. /\ r.at = Root /\ Marks(r.bitmap, InUse \cup G \cup {r.new})
          /\ Marks(dbm, InUse) /\ Linked
          /\ r.new \notin Live /\ r.new \notin Others(r.new)
      BY <1>3, <1>13, <1>15 DEF AtExtend, FreshFd
    <2>2. r.new \notin InUse
      BY <2>1, OthersOfNew
    <2>3. Marks(q.bitmap, InUse)
      BY <1>7, <1>13, <1>15, <2>1, <2>2 DEF Marks
    <2>4. Covered(q)
      BY <2>1, MarkedCovers
    <2>5. PathInv(q)
      BY <1>3, <1>7, <1>15, <2>1, <2>3, <2>4 DEF PathInv
    <2> QED
      BY <1>1, <1>2, <1>7, <1>15, <2>5, AtWork, QuietSettle DEF r
  <1> QED
    BY <1>4, <1>14, <1>15

LEMMA CutInv ==
  ASSUME TypeOK, TypeOK', OnePath, Good, NEW p \in Paths, Cut(p)
  PROVE  Good'
  <1> DEFINE r == s[p]
             x == LastCluster(r.cur.seg)
             g == [r.cur EXCEPT !.seg = CutLast(r.cur.seg)]
             q == [r EXCEPT !.cur = g, !.bitmap = @ \ {x}]
  <1>1. /\ r.pc = "truncate" /\ CanCut(r.cur)
        /\ UNCHANGED << dbm, fd, ent, lost >>
    BY DEF Cut
  <1>2. PathInv(r) /\ Sound /\ r \in Session
    BY <1>1, AtWork DEF TypeOK
  <1>3. r.at \in Cluster /\ r.cur \in Fd /\ r.cur.seg \in Seq(Segment)
    BY <1>2 DEF Session, Fd
  <1>4. Put(p, q)
    BY <1>2 DEF Cut, Session
  <1>5. /\ q.pc = "truncate" /\ q.job = r.job /\ q.at = r.at /\ q.ec = r.ec
        /\ q.bitmap = r.bitmap \ {x} /\ q.saved = r.saved /\ q.new = r.new
        /\ q.name = r.name /\ q.cur = g /\ q.orig = r.orig
    BY <1>1, <1>2 DEF Session
  <1>6. g \in Fd /\ g.seg = CutLast(r.cur.seg) /\ g.lnk = r.cur.lnk
    <2>1. CutLast(r.cur.seg) \in Seq(Segment)
      BY <1>1, <1>3, CutLastType DEF CanCut
    <2> HIDE DEF r
    <2> QED
      BY <1>3, <2>1 DEF Fd
  <1> HIDE DEF g, q, r, x
  <1>7. AtTruncate(r) /\ Covered(r) /\ r.ec = "ok" /\ r.saved = dbm
    BY <1>1, <1>2 DEF PathInv
  <1>8. Layout(r.at, r.cur)
    BY <1>7 DEF AtTruncate
  <1>9. /\ Layout(r.at, g)
        /\ Holds(r.at, g) = Holds(r.at, r.cur) \ {x}
        /\ x \in Holds(r.at, r.cur)
    <2> DEFINE c == r.at
               f == r.cur
    <2>1. c \in Cluster /\ f \in Fd /\ CanCut(f) /\ g.seg = CutLast(f.seg) /\ Layout(c, f)
      BY <1>1, <1>3, <1>6, <1>8
    <2> HIDE DEF c, f
    <2>2. /\ Layout(c, g)
          /\ Holds(c, g) = Holds(c, f) \ {LastCluster(f.seg)}
          /\ LastCluster(f.seg) \in Holds(c, f)
      BY <1>6, <2>1, LayoutCutLast
    <2> QED
      BY <2>2 DEF c, f, x
  <1>10. r.at \in Live /\ r.orig = fd[r.at] /\ Holds(r.at, r.cur) \subseteq Holds(r.at, r.orig)
    BY <1>7 DEF AtTruncate, Live
  <1>11. x \notin Others(r.at)
    BY <1>2, <1>9, <1>10, Apart
  <1>12. Marks(q.bitmap, Others(q.at) \cup Holds(q.at, q.cur))
    BY <1>5, <1>7, <1>9, <1>11 DEF AtTruncate, Marks
  <1>13. AtTruncate(q)
    BY <1>5, <1>6, <1>7, <1>9, <1>10, <1>12 DEF AtTruncate
  <1>14. Covered(q)
    BY <1>5, <1>7 DEF Covered
  <1>15. PathInv(q)
    BY <1>5, <1>7, <1>13, <1>14 DEF PathInv, AtTruncate
  <1> QED
    BY <1>1, <1>2, <1>4, <1>5, <1>15, AtWork, QuietSettle DEF r

-----------------------------------------------------------------------------
(* Steps that write the image                                              *)

(* The disk's bitmap covers what it covered if no file's clusters changed. *)
LEMMA CoveredKept ==
  ASSUME TypeOK, Live' = Live, \A c \in Live : Holds(c, fd'[c]) = Holds(c, fd[c]), dbm' = dbm
  PROVE  \A r : Covered(r) => Covered(r)'
  BY DEF Covered

LEMMA SetSizeInv ==
  ASSUME TypeOK, TypeOK', OnePath, Good, NEW p \in Paths, NEW siz \in Nat, SetSize(p, siz)
  PROVE  Good'
  <1>1. PICK q : q = s[p]
    OBVIOUS
  <1>2. /\ q.pc = "open" /\ fd' = [fd EXCEPT ![q.at].siz = siz]
        /\ dbm' = dbm /\ ent' = ent /\ s' = s /\ lost' = lost
    BY <1>1 DEF SetSize, Called
  <1>3. Put(p, q)
    BY <1>1, <1>2 DEF Put, TypeOK
  <1>4. PathInv(q) /\ Sound /\ q \in Session
    BY <1>1, <1>2, AtWork DEF TypeOK
  <1>5. /\ Marks(q.bitmap, InUse) /\ Linked /\ Covered(q) /\ q.job = "file"
        /\ q.at \in Files /\ q.saved = dbm /\ q.ec = "ok"
    BY <1>2, <1>4 DEF PathInv
  <1>6. q.at # Root /\ q.at \in Cluster
    BY <1>4, <1>5, FilesAreLive, LiveType
  <1>7. /\ \A c \in Live : fd'[c].seg = fd[c].seg /\ fd'[c].lnk = fd[c].lnk
        /\ fd'[Root] = fd[Root]
    <2>1. q.at # Root /\ fd \in [Cluster -> Fd] /\ Live \subseteq Cluster /\ Root \in Cluster
      BY <1>6, LiveType, RootIsCluster DEF TypeOK
    <2>2. \A c \in Cluster : c # q.at => fd'[c] = fd[c]
      BY <1>2, <2>1
    <2>3. fd'[q.at] = [fd[q.at] EXCEPT !.siz = siz] /\ fd[q.at] \in Fd
      BY <1>2, <1>6, <2>1
    <2>4. fd'[q.at].seg = fd[q.at].seg /\ fd'[q.at].lnk = fd[q.at].lnk
      BY <2>3 DEF Fd
    <2> QED
      BY <2>1, <2>2, <2>4
  <1>8. Slots' = Slots /\ Named' = Named
    BY <1>2, <1>7 DEF Slots, Named
  <1>9. /\ Files' = Files /\ Live' = Live /\ InUse' = InUse
        /\ \A c \in Live : Holds(c, fd'[c]) = Holds(c, fd[c])
    BY <1>2, <1>7, <1>8, SameUse
  <1>10. Sound'
    BY <1>2, <1>4, <1>7, <1>8, SameSound DEF Sound
  <1>11. Linked'
    BY <1>2, <1>5, <1>7, <1>9 DEF Linked, Live
  <1>12. Covered(q)'
    BY <1>2, <1>5, <1>9, CoveredKept
  <1>13. PathInv(q)'
    BY <1>2, <1>5, <1>9, <1>11, <1>12 DEF PathInv, Marks
  <1> QED
    BY <1>1, <1>2, <1>3, <1>10, <1>13, AtWork, Settle

(* A failing image write whose error is kept for the end of the call.      *)
LEMMA EioInv ==
  ASSUME TypeOK, TypeOK', OnePath, Good, NEW p \in Paths, s[p].pc # "idle",
         NEW q, Put(p, q), q.pc = "putmap", q.ec = "EIO", q.job = s[p].job,
         q.job # "none", q.at = s[p].at, q.new = s[p].new,
         q.saved = s[p].saved, q.name = s[p].name,
         UNCHANGED << dbm, fd, ent, lost >>
  PROVE  Good'
  <1>1. PathInv(s[p]) /\ Sound
    BY AtWork
  <1>2. Covered(q)
    BY <1>1 DEF PathInv, Covered
  <1>3. PathInv(q)
    BY <1>1, <1>2 DEF PathInv
  <1> QED
    BY <1>1, <1>3, AtWork, QuietSettle

LEMMA UnlinkInv ==
  ASSUME TypeOK, TypeOK', OnePath, Good, NEW p \in Paths, Unlink(p)
  PROVE  Good'
  <1>1. PICK r : r = s[p]
    OBVIOUS
  <1>2. r.pc = "unlink" /\ dbm' = dbm /\ ent' = ent /\ lost' = lost
    BY <1>1 DEF Unlink
  <1>3. PathInv(r) /\ Sound /\ r \in Session
    BY <1>1, <1>2, AtWork DEF TypeOK
  <1>4. /\ Marks(r.bitmap, InUse) /\ Marks(dbm, InUse) /\ Linked /\ Covered(r)
        /\ r.job \in {"delete", "recreate"} /\ r.at = Root /\ r.name \in Names
        /\ r.saved = dbm /\ r.ec = "ok"
    BY <1>2, <1>3 DEF PathInv
  <1>5. PICK i \in Slots :
          /\ Found(r.name, i)
          /\ \/ /\ fd' = [fd EXCEPT ![ent[i].at].lnk = (@ + 255) % 256]
                /\ Put(p, [r EXCEPT !.pc = "release", !.new = ent[i].at, !.pos = i - 1,
                                    !.entry = [name |-> NoName, at |-> ent[i].at]])
             \/ fd' = fd /\ Put(p, [r EXCEPT !.pc = "putmap", !.ec = "EIO"])
    BY ZenonT(120), <1>1 DEF Unlink
  <1>6. i \in Named /\ ent[i].at \in Files /\ i \in Nat
    BY <1>4, <1>5, NamedAt, EntryType DEF Found, IsFirst
  <1>7. PICK c : c = ent[i].at
    OBVIOUS
  <1>8. c \in Files /\ c # Root /\ c \in Cluster /\ c \in Live
    BY <1>3, <1>6, <1>7, FilesAreLive, LiveType DEF Live
  <1>9. ASSUME fd' = [fd EXCEPT ![c].lnk = (@ + 255) % 256],
               Put(p, [r EXCEPT !.pc = "release", !.new = c, !.pos = i - 1,
                                !.entry = [name |-> NoName, at |-> c]])
        PROVE  Good'
    <2>1. PICK q : q = [r EXCEPT !.pc = "release", !.new = c, !.pos = i - 1,
                                 !.entry = [name |-> NoName, at |-> c]]
      OBVIOUS
    <2>2. /\ q.pc = "release" /\ q.job = r.job /\ q.at = Root /\ q.ec = "ok"
          /\ q.bitmap = r.bitmap /\ q.saved = dbm /\ q.new = c /\ q.name = r.name
          /\ q.pos + 1 = i /\ q.entry.name = NoName
      BY <1>3, <1>4, <1>6, <2>1 DEF Session
    <2>3. /\ \A d \in Live : fd'[d].seg = fd[d].seg
          /\ \A d \in Live : d # c => fd'[d] = fd[d]
          /\ fd'[Root] = fd[Root]
          /\ fd'[c].lnk = (fd[c].lnk + 255) % 256
      <3>1. fd \in [Cluster -> Fd] /\ Live \subseteq Cluster /\ Root \in Cluster
        BY LiveType, RootIsCluster DEF TypeOK
      <3>2. \A d \in Cluster : d # c => fd'[d] = fd[d]
        BY <1>9, <3>1
      <3>3. fd'[c] = [fd[c] EXCEPT !.lnk = (fd[c].lnk + 255) % 256] /\ fd[c] \in Fd
        BY <1>8, <1>9, <3>1
      <3>4. fd'[c].seg = fd[c].seg /\ fd'[c].lnk = (fd[c].lnk + 255) % 256
        BY <3>3 DEF Fd
      <3> QED
        BY <1>8, <3>1, <3>2, <3>4
    <2>4. Slots' = Slots /\ Named' = Named
      BY <1>2, <2>3 DEF Slots, Named
    <2>5. /\ Files' = Files /\ Live' = Live /\ InUse' = InUse
          /\ \A d \in Live : Holds(d, fd'[d]) = Holds(d, fd[d])
      BY <1>2, <2>3, <2>4, SameUse
    <2>6. Sound'
      BY <1>2, <1>3, <2>3, <2>4, SameSound DEF Sound
    <2>7. Covered(q)'
      BY <1>2, <1>4, <2>5, MarkedCovers, CoveredKept
    <2>8. OldEntry(q, i)'
      BY <1>2, <1>6, <1>7, <2>2, <2>4 DEF OldEntry
    <2>9. lost' = "nothing" =>
            fd'[c].lnk = 0 /\ \A d \in Files \ {c} : fd'[d].lnk = 1
      <3> SUFFICES ASSUME lost = "nothing"
                   PROVE  fd'[c].lnk = 0 /\ \A d \in Files \ {c} : fd'[d].lnk = 1
        BY <1>2
      <3>1. \A d \in Files : fd[d].lnk = 1
        BY <1>4 DEF Linked
      <3> QED
        BY <1>8, <2>3, <3>1 DEF Live
    <2>10. PathInv(q)'
      BY <1>2, <1>4, <2>2, <2>5, <2>7, <2>8, <2>9 DEF PathInv, Marks
    <2> QED
      BY <1>1, <1>2, <1>9, <2>1, <2>2, <2>6, <2>10, AtWork, Settle
  <1>10. ASSUME fd' = fd, Put(p, [r EXCEPT !.pc = "putmap", !.ec = "EIO"])
         PROVE  Good'
    <2> DEFINE q == [r EXCEPT !.pc = "putmap", !.ec = "EIO"]
    <2>1. /\ q.pc = "putmap" /\ q.ec = "EIO" /\ q.job = r.job /\ q.at = r.at
          /\ q.new = r.new /\ q.saved = r.saved /\ q.name = r.name
      BY <1>3 DEF Session
    <2> HIDE DEF q
    <2> QED
      BY <1>1, <1>2, <1>4, <1>10, <2>1, EioInv DEF q
  <1> QED
    BY <1>5, <1>7, <1>9, <1>10

LEMMA PutNewFdInv ==
  ASSUME TypeOK, TypeOK', OnePath, Good, NEW p \in Paths, PutNewFd(p)
  PROVE  Good'
  <1>1. PICK r : r = s[p]
    OBVIOUS
  <1>2. r.pc = "newfd" /\ dbm' = dbm /\ ent' = ent /\ lost' = lost
    BY <1>1 DEF PutNewFd
  <1>3. PathInv(r) /\ Sound /\ r \in Session /\ r.new \in Cluster
    BY <1>1, <1>2, AtWork DEF TypeOK, Session
  <1>4. /\ Marks(r.bitmap, InUse \cup {r.new}) /\ Marks(dbm, InUse) /\ Linked
        /\ r.job = "create" /\ r.at = Root /\ r.name \in Names
        /\ r.saved = dbm /\ r.ec = "ok" /\ r.new \notin InUse
        /\ r.entry.name \in Names /\ r.entry.at = r.new
    BY <1>2, <1>3 DEF PathInv
  <1>5. r.new \notin Live
    BY <1>4, InUseOf
  <1>6. ASSUME NEW i \in 1 .. (fd[Root].siz + 1), IsFreeSlot(i),
               fd' = [fd EXCEPT ![r.new] = NewFd(r.new)],
               Put(p, Writing(r, fd[Root], i - 1, 1))
        PROVE  Good'
    <2>1. PICK q : q = Writing(r, fd[Root], i - 1, 1)
      OBVIOUS
    <2>2. fd[Root].siz \in Nat /\ i \in Nat
      BY LiveType DEF Fd
    <2>3. /\ q.pc = "extend" /\ q.job = "create" /\ q.at = Root /\ q.ec = "ok"
          /\ q.bitmap = r.bitmap /\ q.saved = dbm /\ q.new = r.new /\ q.name = r.name
          /\ q.entry = r.entry /\ q.pos = i - 1 /\ q.goal = q.pos + 1 /\ q.pos + 1 = i
          /\ q.cur = fd[Root] /\ q.orig = fd[Root]
      BY <1>3, <1>4, <2>1, <2>2 DEF Session, Writing
    <2>4. \A d \in Live : fd'[d] = fd[d]
      BY <1>5, <1>6, LiveType DEF TypeOK
    <2>5. fd'[Root] = fd[Root]
      BY <2>4, LiveType
    <2>6. Slots' = Slots /\ Named' = Named
      BY <1>2, <2>5 DEF Slots, Named
    <2>7. /\ Files' = Files /\ Live' = Live /\ InUse' = InUse
          /\ \A d \in Live : Holds(d, fd'[d]) = Holds(d, fd[d])
          /\ \A c \in Cluster : Others(c)' = Others(c)
      BY <1>2, <2>4, <2>6, SameUse
    <2>8. Sound'
      BY <1>2, <1>3, <2>4, <2>5, <2>6, SameSound DEF Sound
    <2>9. Linked'
      BY <1>2, <1>4, <2>4, <2>7 DEF Linked, Live
    <2>10. Covered(q)'
      BY <1>2, <1>4, <2>7, MarkedCovers, CoveredKept
    <2>11. Extending(q)'
      <3>1. Extending(q)
        BY <1>3, <2>3, LiveType, WriteStarts
      <3> QED
        BY <2>3, <2>5, <2>7, <3>1, RootIsCluster DEF Extending
    <2>12. Holds(Root, q.cur) \subseteq InUse
      BY <2>3, LiveType, InUseOf
    <2>13. FreshFd(q)'
      <3>1. fd'[q.new] = NewFd(q.new)
        BY <1>3, <1>6, <2>3 DEF TypeOK
      <3>2. q.new \notin Others(q.new)'
        BY <1>3, <1>4, <1>5, <2>3, <2>7, OthersOfNew
      <3> QED
        BY <1>4, <2>3, <2>12, <3>1, <3>2 DEF FreshFd
    <2>14. i \in Slots => ent[i].name = NoName
      BY <1>6, <2>2 DEF IsFreeSlot, IsFirst, Slots
    <2>15. q.pos <= fd[Root].siz
      BY <2>2, <2>3
    <2>16. Marks(q.bitmap, InUse \cup Holds(Root, q.cur) \cup {q.new})'
      BY <1>2, <1>4, <2>3, <2>7, <2>12 DEF Marks
    <2>17. AtExtend(q)'
      BY <1>2, <1>4, <1>5, <2>3, <2>5, <2>6, <2>7, <2>9, <2>11, <2>13, <2>14, <2>15, <2>16
         DEF AtExtend, Marks
    <2>18. PathInv(q)'
      BY <1>2, <1>4, <2>3, <2>9, <2>10, <2>17 DEF PathInv
    <2> QED
      BY <1>1, <1>2, <1>6, <2>1, <2>3, <2>8, <2>18, AtWork, Settle
  <1>7. ASSUME fd' = fd, Put(p, [r EXCEPT !.pc = "putmap", !.ec = "EIO",
                                          !.bitmap = @ \ {r.new}])
        PROVE  Good'
    <2> DEFINE q == [r EXCEPT !.pc = "putmap", !.ec = "EIO", !.bitmap = @ \ {r.new}]
    <2>1. /\ q.pc = "putmap" /\ q.ec = "EIO" /\ q.job = r.job /\ q.at = r.at
          /\ q.new = r.new /\ q.saved = r.saved /\ q.name = r.name
      BY <1>3 DEF Session
    <2> HIDE DEF q
    <2> QED
      BY <1>1, <1>2, <1>4, <1>7, <2>1, EioInv DEF q
  <1> QED
    BY <1>1, <1>4, <1>6, <1>7 DEF PutNewFd

(* A file's write that fails on the image, after it allocated.             *)
LEMMA FileWriteFails ==
  ASSUME TypeOK, TypeOK', OnePath, Good, NEW p \in Paths, NEW q, Put(p, q),
         s[p].pc # "idle", s[p].job = "file", s[p].at \in Live, s[p].at # Root,
         InUse \subseteq s[p].bitmap,
         q.pc = "open", q.job = "file", q.at = s[p].at, q.new = s[p].new, q.ec = s[p].ec,
         q.bitmap = s[p].bitmap, q.saved = s[p].saved,
         s[p].ec = "ok", s[p].saved = dbm, Covered(s[p]),
         lost' # "nothing", dbm' = dbm, fd' = fd, ent' = ent
  PROVE  Good'
  <1>1. Sound
    BY AtWork
  <1>2. Slots' = Slots /\ Named' = Named
    BY DEF Slots, Named
  <1>3. /\ Files' = Files /\ Live' = Live /\ InUse' = InUse
        /\ \A d \in Live : Holds(d, fd'[d]) = Holds(d, fd[d])
    BY <1>2, SameUse
  <1>4. Sound'
    BY <1>1, <1>2, SameSound DEF Sound
  <1>5. Covered(q)
    BY DEF Covered
  <1>6. Covered(q)'
    BY <1>3, <1>5, CoveredKept
  <1>7. q.at \in Files
    BY <1>1, FilesAreLive
  <1>8. PathInv(q)'
    BY <1>3, <1>6, <1>7 DEF PathInv, Marks, Linked
  <1> QED
    BY <1>4, <1>8, AtWork, Settle

(* What WriteFailed makes of a path.                                       *)
LEMMA WriteFailedIs ==
  ASSUME NEW r \in Session, NEW bm, NEW e
  PROVE  LET q == WriteFailed(r, bm, e) IN
         /\ q.job = r.job /\ q.at = r.at /\ q.new = r.new /\ q.saved = r.saved
         /\ q.name = r.name
         /\ r.job = "file" => q.pc = "open" /\ q.ec = r.ec /\ q.bitmap = bm
         /\ r.job # "file" => q.pc = "putmap" /\ q.ec = e
  BY DEF WriteFailed, Session

LEMMA PutDataFailsInv ==
  ASSUME TypeOK, TypeOK', OnePath, Good, NEW p \in Paths, PutDataFails(p)
  PROVE  Good'
  <1> DEFINE r == s[p]
  <1>1. /\ r.pc = "extend" /\ dbm' = dbm /\ ent' = ent /\ fd' = fd
        /\ IF r.job = "file" THEN Harm("clusters") ELSE lost' = lost
    BY DEF PutDataFails
  <1>2. PathInv(r) /\ r \in Session
    BY <1>1, AtWork DEF TypeOK
  <1>3. PICK pos \in r.pos .. (r.goal - 1) :
          Put(p, WriteFailed([r EXCEPT !.pos = pos], r.bitmap, "EIO"))
    BY DEF PutDataFails
  <1> DEFINE o == [r EXCEPT !.pos = pos]
             q == WriteFailed(o, r.bitmap, "EIO")
  <1>4. r.pos \in Nat /\ r.goal \in Nat
    BY <1>2 DEF Session
  <1>5. pos \in Nat
    BY <1>3, <1>4
  <1>6. /\ o \in Session /\ o.job = r.job /\ o.at = r.at /\ o.new = r.new
        /\ o.saved = r.saved /\ o.ec = r.ec /\ o.name = r.name
    BY <1>2, <1>5 DEF Session
  <1>7. Put(p, q)
    BY <1>3
  <1> HIDE DEF o
  <1>8. /\ q.job = r.job /\ q.at = r.at /\ q.new = r.new /\ q.saved = r.saved
        /\ q.name = r.name
        /\ r.job = "file" => q.pc = "open" /\ q.ec = r.ec /\ q.bitmap = r.bitmap
        /\ r.job # "file" => q.pc = "putmap" /\ q.ec = "EIO"
    BY <1>6, WriteFailedIs
  <1> HIDE DEF q, r
  <1>9. AtExtend(r) /\ r.job # "none" /\ r.saved = dbm /\ r.ec = "ok" /\ Covered(r)
    BY <1>1, <1>2 DEF PathInv
  <1>10. CASE r.job = "file"
    <2>1. r.at \in Live /\ r.at # Root /\ InUse \subseteq r.bitmap
      BY <1>9, <1>10 DEF AtExtend, Extending, Marks
    <2>2. lost' # "nothing"
      BY <1>1, <1>10 DEF Harm
    <2> QED
      BY <1>1, <1>7, <1>8, <1>9, <1>10, <2>1, <2>2, FileWriteFails DEF r
  <1>11. CASE r.job # "file"
    BY <1>1, <1>7, <1>8, <1>9, <1>11, EioInv DEF r
  <1> QED
    BY <1>10, <1>11

LEMMA NewFdLayout ==
  ASSUME NEW c \in Cluster, c \notin System
  PROVE  Holds(c, NewFd(c)) = {c} /\ Layout(c, NewFd(c)) /\ NewFd(c).lnk = 1
  <1> DEFINE g == [start |-> c, n |-> 1]
  <1>1. Run(g) = {c}
    BY DEF Run, Cluster
  <1>2. CASE Spc > 1
    <2>1. NewFd(c).seg = << g >>
      BY <1>2 DEF NewFd
    <2> HIDE DEF g
    <2>2. SegClusters(NewFd(c).seg) = {c}
      BY <1>1, <2>1 DEF SegClusters
    <2> QED
      BY <1>2, <2>1, <2>2 DEF Holds, Layout, NewFd, g
  <1>3. CASE ~ (Spc > 1)
    <2>1. NewFd(c).seg = << >>
      BY <1>3 DEF NewFd
    <2>2. SegClusters(NewFd(c).seg) = {}
      BY <2>1 DEF SegClusters
    <2> QED
      BY <1>3, <2>1, <2>2 DEF Holds, Layout, NewFd
  <1> QED
    BY <1>2, <1>3

(* An entry comes to name a new descriptor n, and the directory's own      *)
(* descriptor may have grown to f.                                         *)
LEMMA FileAdded ==
  ASSUME TypeOK, Sound, NEW f, NEW n \in Cluster, NEW j,
         Named' = Named \cup {j}, \A i \in Named : ent'[i].at = ent[i].at,
         ent'[j].at = n, n \notin InUse, n \notin Holds(Root, f), fd'[n] = NewFd(n),
         fd'[Root] = f, \A d \in Files : fd'[d] = fd[d],
         Layout(Root, f), Holds(Root, f) \cap Others(Root) = {},
         Holds(Root, fd[Root]) \subseteq Holds(Root, f),
         f.siz <= Len(ent'), f.siz <= MaxSectors(f.seg) * Bps
  PROVE  /\ Files' = Files \cup {n} /\ Live' = Live \cup {n}
         /\ InUse' = InUse \cup Holds(Root, f) \cup {n}
         /\ Others(Root)' = Others(Root) \cup {n}
         /\ Others(n)' = InUse \cup Holds(Root, f)
         /\ Sound'
  <1>1. Files' = Files \cup {n}
    BY DEF Files
  <1>2. Live' = Live \cup {n}
    BY <1>1 DEF Live
  <1>3. Holds(n, fd'[n]) = {n} /\ Layout(n, fd'[n])
    BY NewFdLayout DEF InUse
  <1>4. Root \in Live /\ Root \notin Files /\ n \notin Live /\ n # Root
        /\ InUse = Others(Root) \cup Holds(Root, fd[Root])
    BY FilesAreLive, LiveType, InUseOf
  <1>5. Others(Root) = System \cup UNION { Holds(d, fd[d]) : d \in Files }
    BY <1>4 DEF Others, Live
  <1>6. \A d \in Files : Holds(d, fd'[d]) = Holds(d, fd[d])
    OBVIOUS
  <1>7. Others(Root)' = Others(Root) \cup {n}
    <2>1. Live' \ {Root} = Files \cup {n}
      BY <1>2, <1>4 DEF Live
    <2> QED
      BY <1>3, <1>5, <1>6, <2>1 DEF Others
  <1>8. Others(n)' = InUse \cup Holds(Root, f)
    <2>1. Live' \ {n} = Files \cup {Root}
      BY <1>2, <1>4 DEF Live
    <2>2. Others(n)' = System \cup UNION { Holds(d, fd'[d]) : d \in Files \cup {Root} }
      BY <2>1 DEF Others
    <2>3. UNION { Holds(d, fd'[d]) : d \in Files \cup {Root} }
            = (UNION { Holds(d, fd[d]) : d \in Files }) \cup Holds(Root, f)
      BY <1>6
    <2> QED
      BY <1>4, <1>5, <2>2, <2>3
  <1>9. InUse' = InUse \cup Holds(Root, f) \cup {n}
    <2>1. InUse' = Others(n)' \cup Holds(n, fd'[n])
      BY <1>2 DEF InUse, Others
    <2> QED
      BY <1>3, <1>8, <2>1
  <1>10. \A c \in Live' : Layout(c, fd'[c])
    BY <1>2, <1>3 DEF Sound, Live
  <1>11. \A c, d \in Live' : c # d => Holds(c, fd'[c]) \cap Holds(d, fd'[d]) = {}
    <2>1. \A d \in Files : Holds(Root, f) \cap Holds(d, fd[d]) = {}
      BY <1>5
    <2>2. \A c, d \in Files : c # d => Holds(c, fd[c]) \cap Holds(d, fd[d]) = {}
      BY DEF Sound, Live
    <2>3. \A d \in Files : n \notin Holds(d, fd[d])
      BY <1>4, <1>5
    <2> QED
      BY SMTT(60), <1>2, <1>3, <1>6, <2>1, <2>2, <2>3 DEF Live
  <1>12. \A i \in Named' : ent'[i].at # Root
    BY <1>4 DEF Sound
  <1>13. \A i, k \in Named' : ent'[i].at = ent'[k].at => i = k
    <2>1. \A i \in Named : ent[i].at # n
      BY <1>4 DEF Live, Files
    <2> QED
      BY <2>1 DEF Sound
  <1>14. Sound'
    BY <1>10, <1>11, <1>12, <1>13 DEF Sound
  <1> QED
    BY <1>1, <1>2, <1>7, <1>8, <1>9, <1>14

(* An entry's name is cleared.                                             *)
LEMMA FileRemoved ==
  ASSUME TypeOK, Sound, NEW i \in Named, Named' = Named \ {i},
         \A k \in Named : k # i => ent'[k].at = ent[k].at,
         fd' = fd, fd[Root].siz <= Len(ent')
  PROVE  LET c == ent[i].at IN
         /\ Files' = Files \ {c} /\ Live' = Live \ {c}
         /\ InUse' = InUse \ Holds(c, fd[c])
         /\ Others(Root)' \subseteq Others(Root)
         /\ Sound'
  <1> DEFINE c == ent[i].at
  <1>1. c \in Files /\ c # Root /\ c \in Live
    BY DEF Sound, Files, Live
  <1>2. Files' = Files \ {c}
    BY DEF Files, Sound
  <1>3. Live' = Live \ {c}
    BY <1>1, <1>2 DEF Live
  <1>4. InUse' = Others(c)
    BY <1>3 DEF InUse, Others
  <1>5. InUse' = InUse \ Holds(c, fd[c])
    BY <1>1, <1>4, Apart, InUseOf
  <1>6. Others(Root)' \subseteq Others(Root)
    BY <1>3 DEF Others
  <1>7. Sound'
    <2>1. \A d \in Live' : Layout(d, fd'[d])
      BY <1>3 DEF Sound
    <2>2. \A d, e \in Live' : d # e => Holds(d, fd'[d]) \cap Holds(e, fd'[e]) = {}
      BY <1>3 DEF Sound
    <2>3. \A k \in Named' : ent'[k].at # Root
      BY DEF Sound
    <2>4. \A k, l \in Named' : ent'[k].at = ent'[l].at => k = l
      BY DEF Sound
    <2>5. fd'[Root].siz <= Len(ent') /\ fd'[Root].siz <= MaxSectors(fd'[Root].seg) * Bps
      BY DEF Sound
    <2> QED
      BY <2>1, <2>2, <2>3, <2>4, <2>5 DEF Sound
  <1> QED
    BY <1>2, <1>3, <1>5, <1>6, <1>7

(* One file's descriptor changes to f.                                     *)
LEMMA FileChanged ==
  ASSUME TypeOK, Sound, NEW c \in Files, NEW f,
         fd' = [fd EXCEPT ![c] = f], ent' = ent,
         Layout(c, f), Holds(c, f) \cap Others(c) = {}
  PROVE  /\ Files' = Files /\ Live' = Live /\ c \in Live
         /\ fd'[c] = f /\ \A d \in Live : d # c => fd'[d] = fd[d]
         /\ InUse' = Others(c) \cup Holds(c, f)
         /\ Sound'
  <1>1. c # Root /\ c \in Live /\ c \in Cluster /\ Root \in Live
    BY FilesAreLive, LiveType DEF Live
  <1>2. fd'[c] = f /\ \A d \in Live : d # c => fd'[d] = fd[d]
    BY <1>1, LiveType DEF TypeOK
  <1>3. Named' = Named
    BY <1>1, <1>2 DEF Named, Slots
  <1>4. Files' = Files
    BY <1>3 DEF Files
  <1>5. Live' = Live
    BY <1>4 DEF Live
  <1>6. Others(c)' = Others(c)
    BY <1>2, <1>5 DEF Others
  <1>7. InUse' = Others(c) \cup Holds(c, f)
    <2>1. InUse' = Others(c)' \cup Holds(c, fd'[c])
      BY <1>1, <1>5 DEF InUse, Others
    <2> QED
      BY <1>2, <1>6, <2>1
  <1>8. \A d \in Live : d # c => Holds(c, f) \cap Holds(d, fd[d]) = {}
    BY <1>1, InUseOf
  <1>9. \A d, e \in Live : d # e => Holds(d, fd'[d]) \cap Holds(e, fd'[e]) = {}
    BY <1>2, <1>8 DEF Sound
  <1>10. \A d \in Live : Layout(d, fd'[d])
    BY <1>2 DEF Sound
  <1>11. Sound'
    BY <1>1, <1>2, <1>3, <1>5, <1>9, <1>10 DEF Sound
  <1> QED
    BY <1>1, <1>2, <1>4, <1>5, <1>7, <1>11

(* What storing an entry changes in the directory's data.                  *)
LEMMA StoredAt ==
  ASSUME TypeOK, NEW r \in Session, r.job # "file", r.pos <= Len(ent)
  PROVE  /\ DOMAIN Stored(r) = DOMAIN ent \cup {r.pos + 1}
         /\ Len(Stored(r)) >= Len(ent)
         /\ Stored(r)[r.pos + 1] = r.entry
         /\ \A i \in DOMAIN ent : i # r.pos + 1 => Stored(r)[i] = ent[i]
  <1>1. r.pos \in Nat /\ ent \in Seq(Entry) /\ r.entry \in Entry
    BY DEF TypeOK, Session
  <1>2. CASE r.pos < Len(ent)
    <2>1. Stored(r) = [ent EXCEPT ![r.pos + 1] = r.entry]
      BY <1>2 DEF Stored
    <2>2. r.pos + 1 \in DOMAIN ent
      BY <1>1, <1>2
    <2>3. Len(Stored(r)) = Len(ent)
      BY <1>1, <2>1, <2>2, ExceptSeq
    <2> QED
      BY <1>1, <2>1, <2>2, <2>3
  <1>3. CASE ~ (r.pos < Len(ent))
    <2>1. r.pos = Len(ent) /\ Stored(r) = Append(ent, r.entry)
      BY <1>1, <1>3 DEF Stored
    <2> QED
      BY <1>1, <2>1
  <1> QED
    BY <1>2, <1>3

(* The steps between PutData and PutFd keep the path's invariant. *)
LEMMA PutDataInv ==
  ASSUME TypeOK, TypeOK', OnePath, Good, NEW p \in Paths, PutData(p)
  PROVE  Good'
  <1>1. PICK r : r = s[p]
    OBVIOUS
  <1>2. /\ r.pc = "extend" /\ ~ NeedsRoom(r) /\ ent' = Stored(r)
        /\ dbm' = dbm /\ fd' = fd /\ lost' = lost
    BY <1>1 DEF PutData
  <1>3. PathInv(r) /\ Sound /\ r \in Session
    BY <1>1, <1>2, AtWork DEF TypeOK
  <1>4. PICK z : z = IF r.goal > r.cur.siz THEN r.goal ELSE r.cur.siz
    OBVIOUS
  <1>5. PICK q : q = [r EXCEPT !.pc = "putfd", !.pos = r.goal, !.cur.siz = z]
    OBVIOUS
  <1>6. Put(p, q)
    BY <1>1, <1>4, <1>5 DEF PutData, Session
  <1>7. /\ q.pc = "putfd" /\ q.job = r.job /\ q.at = r.at /\ q.ec = r.ec
        /\ q.bitmap = r.bitmap /\ q.saved = r.saved /\ q.new = r.new
        /\ q.name = r.name /\ q.entry = r.entry /\ q.orig = r.orig /\ q.goal = r.goal
        /\ q.cur = [r.cur EXCEPT !.siz = z]
    BY <1>3, <1>5 DEF Session
  <1>8. q.cur.seg = r.cur.seg /\ q.cur.lnk = r.cur.lnk /\ q.cur.siz = z
        /\ (z = r.cur.siz => q.cur = r.cur)
    BY <1>3, <1>7 DEF Session, Fd
  <1>9. /\ AtExtend(r) /\ Extending(r) /\ r.job # "none" /\ r.saved = dbm /\ r.ec = "ok"
        /\ Covered(r) /\ r.at \in Cluster /\ r.new \in Cluster
        /\ r.job \in {"create", "recreate", "delete"} => r.name \in Names
    BY <1>2, <1>3 DEF PathInv, AtExtend, Session
  <1>10. /\ Holds(q.at, q.cur) = Holds(r.at, r.cur) /\ Layout(q.at, q.cur)
         /\ Grown(q.orig.seg, q.cur.seg)
    <2>1. Holds(q.at, q.cur) = Holds(r.at, r.cur)
      BY <1>7, <1>8 DEF Holds
    <2>2. Layout(r.at, r.cur) /\ Grown(r.orig.seg, r.cur.seg)
      BY <1>9 DEF Extending
    <2>3. Layout(q.at, q.cur)
      BY <1>7, <1>8, <2>1, <2>2 DEF Layout
    <2> QED
      BY <1>7, <1>8, <2>1, <2>2, <2>3
  <1>11. ASSUME Sound', Linked', AtPutFd(q)', Covered(q)' PROVE Good'
    <2>1. PathInv(q)'
      BY <1>2, <1>7, <1>9, <1>11 DEF PathInv
    <2> QED
      BY <1>1, <1>2, <1>6, <1>7, <1>11, <2>1, AtWork, Settle
  <1>12. CASE r.job = "file"
    <2>1. ent' = ent
      BY <1>2, <1>12 DEF Stored
    <2>2. Slots' = Slots /\ Named' = Named
      BY <1>2, <2>1 DEF Slots, Named
    <2>3. /\ Files' = Files /\ Live' = Live /\ InUse' = InUse
          /\ \A d \in Live : Holds(d, fd'[d]) = Holds(d, fd[d])
          /\ \A c \in Cluster : Others(c)' = Others(c)
      BY <1>2, <2>1, <2>2, SameUse
    <2>4. Sound'
      BY <1>2, <1>3, <2>1, <2>2, SameSound DEF Sound
    <2>5. Linked'
      BY <1>2, <1>9, <1>12, <2>3 DEF Linked, AtExtend
    <2>6. Covered(q)'
      <3>1. Covered(q)
        BY <1>7, <1>9 DEF Covered
      <3> QED
        BY <1>2, <2>3, <3>1, CoveredKept
    <2>7. Extending(q)'
      BY <1>2, <1>7, <1>8, <1>9, <1>10, <2>3 DEF Extending
    <2>8. Marks(q.bitmap, InUse \cup Holds(q.at, q.cur))'
      BY <1>2, <1>7, <1>9, <1>10, <1>12, <2>3 DEF AtExtend, Marks
    <2>9. AtPutFd(q)'
      BY <1>7, <1>9, <1>12, <2>5, <2>7, <2>8 DEF AtPutFd, AtExtend
    <2> QED
      BY <1>11, <2>4, <2>5, <2>6, <2>9
  <1>13. CASE r.job # "file"
    <2>1. /\ r.at = Root /\ r.goal = r.pos + 1 /\ r.pos \in Nat
          /\ r.goal <= fd[Root].siz => r.cur = r.orig
      BY <1>3, <1>9, <1>13 DEF AtExtend, Session
    <2>2. /\ fd[Root] \in Fd /\ fd[Root].siz \in Nat /\ fd[Root].siz <= Len(ent)
          /\ Len(ent) \in Nat /\ DOMAIN ent = 1 .. Len(ent) /\ Root \in Cluster
      BY SMTT(60), <1>3, LiveType, RootIsCluster DEF Sound, Fd, TypeOK
    <2>3. r.job \in {"delete", "recreate", "rename"} => r.goal \in Named /\ ent[r.goal].at = r.new
      BY <1>9, <2>1 DEF AtExtend, OldEntry
    <2>4. r.job \in {"create", "delete", "recreate", "rename"}
      BY <1>3, <1>9, <1>13 DEF Session
    <2>5. r.pos <= fd[Root].siz
      <3>1. r.job = "create" => r.pos <= fd[Root].siz
        BY <1>9 DEF AtExtend
      <3>2. r.goal \in Named => r.goal <= fd[Root].siz
        BY DEF Named, Slots
      <3> QED
        BY <2>1, <2>2, <2>3, <2>4, <3>1, <3>2
    <2>6. /\ DOMAIN ent' = DOMAIN ent \cup {r.goal} /\ Len(ent') >= Len(ent)
          /\ ent'[r.goal] = r.entry
          /\ \A i \in DOMAIN ent : i # r.goal => ent'[i] = ent[i]
      <3>1. r.pos <= Len(ent)
        BY <2>1, <2>2, <2>5
      <3>2. DOMAIN Stored(r) = DOMAIN ent \cup {r.pos + 1}
        BY <1>3, <1>13, <3>1, StoredAt, Zenon
      <3>3. /\ Len(Stored(r)) >= Len(ent) /\ Stored(r)[r.pos + 1] = r.entry
            /\ \A i \in DOMAIN ent : i # r.pos + 1 => Stored(r)[i] = ent[i]
        BY <1>3, <1>13, <3>1, StoredAt, Zenon
      <3> QED
        BY <1>2, <2>1, <3>2, <3>3
    <2>7. Slots' = Slots
      BY <1>2, <2>1, <2>2, <2>6 DEF Slots
    <2>8. r.goal <= fd[Root].siz <=> r.goal \in Slots
      BY <2>1, <2>2 DEF Slots
    <2>9. Len(ent') \in Nat /\ fd[Root].siz <= Len(ent')
      BY <2>2, <2>6 DEF TypeOK
    <2>10. \A i \in Named : i \in DOMAIN ent
      BY DEF Named, Slots
    <2>11. r.goal <= fd[Root].siz => z = r.cur.siz /\ q.cur = q.orig
      <3>1. r.cur.siz = r.orig.siz /\ r.orig = fd[Root]
        BY <1>9, <2>1 DEF AtExtend, Extending
      <3> QED
        BY <1>4, <1>7, <1>8, <2>1, <2>2, <3>1
    <2>12. Extending(q)' <=> Root \in Live' /\ Holds(Root, q.cur) \cap Others(Root)' = {}
      BY <1>2, <1>7, <1>8, <1>9, <1>10, <2>1 DEF Extending
    <2>13. Holds(Root, q.cur) \cap Others(Root) = {}
      BY <1>7, <1>9, <1>10, <2>1 DEF Extending
    <2>14. CASE r.job = "create"
      <3>1. /\ FreshFd(r) /\ r.new \notin Live /\ Marks(dbm, InUse)
            /\ r.pos + 1 \in Slots => ent[r.pos + 1].name = NoName
            /\ Marks(r.bitmap, InUse \cup Holds(Root, r.cur) \cup {r.new}) /\ Linked
        BY <1>9, <2>14 DEF AtExtend
      <3>2. r.new \notin InUse
        BY <3>1, OthersOfNew DEF FreshFd
      <3>3. /\ fd[r.new] = NewFd(r.new) /\ r.new \notin Holds(Root, r.cur)
            /\ r.entry.name \in Names /\ r.entry.at = r.new
        BY <3>1 DEF FreshFd
      <3>4. r.goal \in DOMAIN ent' /\ r.goal \in 1 .. Len(ent')
        <4>1. DOMAIN ent' = 1 .. Len(ent')
          BY DEF TypeOK
        <4> QED
          BY <2>6, <4>1
      <3>5. CASE r.goal \in Slots
        <4>1. Named' = Named \cup {r.goal} /\ r.goal \notin Named
          BY <2>1, <2>6, <2>7, <2>10, <3>1, <3>3, <3>5, RbfAssumption DEF Named, Slots
        <4>2. \A i \in Named : ent'[i].at = ent[i].at
          BY <2>6, <2>10, <4>1
        <4>3. q.cur = fd[Root] /\ q.orig = fd[Root] /\ r.cur = fd[Root]
          BY <1>7, <1>9, <2>1, <2>8, <2>11, <3>5 DEF Extending
        <4>4. PICK f : f = fd[Root]
          OBVIOUS
        <4>5. PICK n : n = r.new
          OBVIOUS
        <4>6. /\ n \in Cluster /\ ent'[r.goal].at = n /\ n \notin InUse
              /\ n \notin Holds(Root, f) /\ fd'[n] = NewFd(n) /\ fd'[Root] = f
              /\ Layout(Root, f) /\ Holds(Root, f) \cap Others(Root) = {}
              /\ f.siz <= Len(ent') /\ f.siz <= MaxSectors(f.seg) * Bps
              /\ Holds(Root, fd[Root]) \subseteq Holds(Root, f)
              /\ \A d \in Files : fd'[d] = fd[d]
          BY <1>2, <1>3, <1>9, <2>6, <2>9, <2>13, <3>2, <3>3, <4>3, <4>4, <4>5, LiveType
             DEF Sound
        <4>7. /\ Files' = Files \cup {n} /\ Live' = Live \cup {n}
              /\ InUse' = InUse \cup Holds(Root, f) \cup {n}
              /\ Others(Root)' = Others(Root) \cup {n}
              /\ Others(n)' = InUse \cup Holds(Root, f)
              /\ Sound'
          BY <1>3, <4>1, <4>2, <4>6, FileAdded
        <4>8. Linked'
          <5>1. fd[n].lnk = 1
            BY <3>3, <4>5 DEF NewFd
          <5> QED
            BY <1>2, <3>1, <4>7, <5>1 DEF Linked
        <4>9. Covered(q)'
          <5>1. Covered(q)
            BY <3>1, MarkedCovers
          <5> QED
            BY <1>2, <1>7, <2>14, <4>5, <4>7, <5>1 DEF Covered
        <4>10. Extending(q)'
          BY <2>12, <4>3, <4>4, <4>6, <4>7, LiveType
        <4>11. FreshFd(q)'
          BY <1>2, <1>7, <3>3, <4>3, <4>4, <4>5, <4>6, <4>7 DEF FreshFd
        <4>12. Marks(q.bitmap, InUse \cup Holds(Root, q.cur) \cup {q.new})'
          BY <1>2, <1>7, <3>1, <4>3, <4>4, <4>5, <4>7 DEF Marks
        <4>13. AtPutFd(q)'
          BY <1>2, <1>7, <2>1, <2>6, <2>8, <2>14, <3>4, <3>5, <4>3, <4>4, <4>6, <4>8, <4>10, <4>11, <4>12
             DEF AtPutFd
        <4> QED
          BY <1>11, <4>7, <4>8, <4>9, <4>13
      <3>6. CASE r.goal \notin Slots
        <4>1. \A i \in Slots : i \in DOMAIN ent /\ i # r.goal
          BY <3>6 DEF Slots
        <4>2. Named' = Named /\ \A i \in Named : ent'[i].at = ent[i].at
          BY <2>6, <2>7, <4>1 DEF Named
        <4>3. /\ Files' = Files /\ Live' = Live /\ InUse' = InUse
              /\ \A d \in Live : Holds(d, fd'[d]) = Holds(d, fd[d])
              /\ \A c \in Cluster : Others(c)' = Others(c)
          BY <1>2, <4>2, SameUse
        <4>4. Sound'
          BY <1>2, <1>3, <2>9, <4>2, SameSound
        <4>5. Linked'
          BY <1>2, <3>1, <4>3 DEF Linked
        <4>6. Covered(q)'
          BY <1>2, <3>1, <4>3, MarkedCovers, CoveredKept
        <4>7. Extending(q)'
          BY <2>2, <2>12, <2>13, <4>3, LiveType
        <4>8. FreshFd(q)'
          BY <1>2, <1>7, <1>9, <1>10, <2>1, <3>1, <4>3 DEF FreshFd
        <4>9. Marks(q.bitmap, InUse \cup Holds(Root, q.cur) \cup {q.new})'
          BY <1>2, <1>7, <1>10, <2>1, <3>1, <4>3 DEF Marks
        <4>10. r.goal = fd[Root].siz + 1
          BY <2>1, <2>2, <2>5, <2>8, <3>6
        <4>11. z = r.goal
          <5>1. r.cur.siz = fd[Root].siz
            BY <1>9, <2>1 DEF AtExtend, Extending
          <5> QED
            BY <1>4, <2>1, <2>2, <4>10, <5>1
        <4>12. q.cur.siz <= MaxSectors(q.cur.seg) * Bps
          <5>1. PICK m : m = MaxSectors(q.cur.seg)
            OBVIOUS
          <5>2. m \in Int
            BY <1>3, <1>8, <5>1, MaxSectorsType DEF Session, Fd
          <5>3. ~ (m * Bps < r.goal)
            BY <1>2, <1>8, <5>1 DEF NeedsRoom
          <5>4. r.goal \in Nat /\ m * Bps \in Int
            BY <2>1, <5>2, FdAssumption
          <5> QED
            BY <1>8, <4>11, <5>1, <5>3, <5>4
        <4>13. AtPutFd(q)'
          BY <1>2, <1>7, <1>8, <2>1, <2>6, <2>14, <3>1, <3>4, <4>3, <4>5, <4>7, <4>8, <4>9, <4>10, <4>11, <4>12
             DEF AtPutFd
        <4> QED
          BY <1>11, <4>4, <4>5, <4>6, <4>13
      <3> QED
        BY <3>5, <3>6
    <2>15. CASE r.job \in {"delete", "recreate"}
      <3>1. /\ r.goal \in Named /\ ent[r.goal].at = r.new /\ r.entry.name = NoName
            /\ Marks(r.bitmap, InUse \ Holds(r.new, fd[r.new]))
            /\ lost = "nothing" => \A c \in Files \ {r.new} : fd[c].lnk = 1
        BY <1>9, <2>3, <2>15 DEF AtExtend
      <3>2. Named' = Named \ {r.goal}
        BY <2>6, <2>7, <2>10, <3>1, RbfAssumption DEF Named, Slots
      <3>3. \A k \in Named : k # r.goal => ent'[k].at = ent[k].at
        BY <2>6, <2>10
      <3>4. /\ Files' = Files \ {r.new} /\ Live' = Live \ {r.new}
            /\ InUse' = InUse \ Holds(r.new, fd[r.new])
            /\ Others(Root)' \subseteq Others(Root)
            /\ Sound'
        BY <1>2, <1>3, <2>9, <3>1, <3>2, <3>3, FileRemoved
      <3>5. Linked'
        BY <1>2, <3>1, <3>4 DEF Linked
      <3>6. Covered(q)'
        BY <1>2, <1>7, <1>9, <3>4 DEF Covered
      <3>7. Extending(q)'
        BY <2>12, <2>13, <3>1, <3>4, LiveType, <1>3 DEF Sound
      <3>8. Marks(q.bitmap, InUse)'
        BY <1>2, <1>7, <3>1, <3>4 DEF Marks
      <3>9. q.cur = q.orig
        BY <2>8, <2>11, <3>1 DEF Named
      <3>10. AtPutFd(q)'
        BY <1>7, <2>1, <2>15, <3>5, <3>7, <3>8, <3>9 DEF AtPutFd
      <3> QED
        BY <1>11, <3>4, <3>5, <3>6, <3>10
    <2>16. CASE r.job = "rename"
      <3>1. /\ r.goal \in Named /\ ent[r.goal].at = r.new
            /\ r.entry.name \in Names /\ r.entry.at = r.new
            /\ Marks(r.bitmap, InUse) /\ Linked
        BY <1>9, <2>3, <2>16 DEF AtExtend
      <3>2. Named' = Named
        BY <2>6, <2>7, <2>10, <3>1 DEF Named, Slots
      <3>3. \A k \in Named : ent'[k].at = ent[k].at
        BY <2>6, <2>10, <3>1
      <3>4. /\ Files' = Files /\ Live' = Live /\ InUse' = InUse
            /\ \A d \in Live : Holds(d, fd'[d]) = Holds(d, fd[d])
            /\ \A c \in Cluster : Others(c)' = Others(c)
        BY <1>2, <3>2, <3>3, SameUse
      <3>5. Sound'
        BY <1>2, <1>3, <2>9, <3>2, <3>3, SameSound
      <3>6. Linked'
        BY <1>2, <3>1, <3>4 DEF Linked
      <3>7. Covered(q)'
        BY <1>2, <3>4, <1>7, <1>9, CoveredKept DEF Covered
      <3>8. Extending(q)'
        BY <2>2, <2>12, <2>13, <3>4, LiveType
      <3>9. Marks(q.bitmap, InUse)'
        BY <1>2, <1>7, <3>1, <3>4 DEF Marks
      <3>10. q.cur = q.orig
        BY <2>8, <2>11, <3>1 DEF Named
      <3>11. AtPutFd(q)'
        BY <1>7, <2>1, <2>16, <3>6, <3>8, <3>9, <3>10 DEF AtPutFd
      <3> QED
        BY <1>11, <3>5, <3>6, <3>7, <3>11
    <2> QED
      BY <2>4, <2>14, <2>15, <2>16
  <1> QED
    BY <1>12, <1>13

(* A file's descriptor is written after its data; and after it was cut.    *)
LEMMA PutFdFileInv ==
  ASSUME TypeOK, TypeOK', OnePath, Good, NEW p \in Paths, PutFd(p), s[p].job = "file"
  PROVE  Good'
  <1>1. PICK r : r = s[p]
    OBVIOUS
  <1>2. r.pc = "putfd" /\ r.job = "file" /\ dbm' = dbm /\ ent' = ent
    BY <1>1 DEF PutFd
  <1>3. PathInv(r) /\ Sound /\ r \in Session
    BY <1>1, <1>2, AtWork DEF TypeOK
  <1>4. /\ AtPutFd(r) /\ Extending(r) /\ r.saved = dbm /\ r.ec = "ok" /\ Covered(r)
    BY <1>2, <1>3 DEF PathInv, AtPutFd
  <1>5. /\ r.at # Root /\ Linked /\ r.at \in Live /\ r.orig = fd[r.at]
        /\ Marks(r.bitmap, InUse \cup Holds(r.at, r.cur))
        /\ Layout(r.at, r.cur) /\ Holds(r.at, r.cur) \cap Others(r.at) = {}
        /\ Grown(r.orig.seg, r.cur.seg) /\ r.cur.lnk = r.orig.lnk
    BY <1>2, <1>4 DEF AtPutFd, Extending
  <1>6. r.at \in Files
    BY <1>3, <1>5, FilesAreLive
  <1>7. ASSUME fd' = [fd EXCEPT ![r.at] = r.cur], lost' = lost,
               Put(p, [r EXCEPT !.pc = "open", !.goal = 0, !.cur = NoFd, !.orig = NoFd])
        PROVE  Good'
    <2>1. PICK q : q = [r EXCEPT !.pc = "open", !.goal = 0, !.cur = NoFd, !.orig = NoFd]
      OBVIOUS
    <2>2. /\ q.pc = "open" /\ q.job = "file" /\ q.at = r.at /\ q.ec = "ok"
          /\ q.bitmap = r.bitmap /\ q.saved = dbm /\ q.new = r.new
      BY <1>2, <1>3, <1>4, <2>1 DEF Session
    <2>3. PICK c : c = r.at
      OBVIOUS
    <2>4. PICK f : f = r.cur
      OBVIOUS
    <2>5. /\ Files' = Files /\ Live' = Live /\ c \in Live
          /\ fd'[c] = f /\ \A d \in Live : d # c => fd'[d] = fd[d]
          /\ InUse' = Others(c) \cup Holds(c, f)
          /\ Sound'
      BY ZenonT(120), <1>2, <1>3, <1>5, <1>6, <1>7, <2>3, <2>4, FileChanged
    <2>6. Holds(c, fd[c]) \subseteq Holds(c, f)
      <3>1. r.orig.seg \in Seq(Segment) /\ r.cur.seg \in Seq(Segment)
        BY <1>3 DEF Session, Fd
      <3>2. \A i, j \in DOMAIN r.cur.seg : i # j => Run(r.cur.seg[i]) \cap Run(r.cur.seg[j]) = {}
        BY <1>5 DEF Layout
      <3>3. SegClusters(r.orig.seg) \subseteq SegClusters(r.cur.seg)
        <4> DEFINE a == r.orig.seg
                   b == r.cur.seg
        <4>1. /\ a \in Seq(Segment) /\ b \in Seq(Segment) /\ Grown(a, b)
              /\ \A i, j \in DOMAIN b : i # j => Run(b[i]) \cap Run(b[j]) = {}
          BY <1>5, <3>1, <3>2
        <4> HIDE DEF a, b
        <4>2. SegClusters(a) \subseteq SegClusters(b)
          BY <4>1, GainedClusters
        <4> QED
          BY <4>2 DEF a, b
      <3> QED
        BY <1>5, <2>3, <2>4, <3>3 DEF Holds
    <2>7. InUse = Others(c) \cup Holds(c, fd[c])
      BY <2>5, InUseOf
    <2>8. Marks(q.bitmap, InUse)'
      BY <1>5, <1>7, <2>2, <2>3, <2>4, <2>5, <2>6, <2>7 DEF Marks
    <2>9. Linked'
      BY <1>5, <1>7, <2>3, <2>4, <2>5 DEF Linked, Live
    <2>10. Covered(q)'
      BY <1>2, <1>4, <2>2, <2>3, <2>5 DEF Covered
    <2>11. PathInv(q)'
      BY <1>2, <1>6, <2>2, <2>5, <2>8, <2>9, <2>10 DEF PathInv
    <2> QED
      BY <1>1, <1>2, <1>7, <2>1, <2>2, <2>5, <2>11, AtWork, Settle
  <1>8. ASSUME fd' = fd, Harm("clusters"), Put(p, WriteFailed(r, r.bitmap, "EIO"))
        PROVE  Good'
    <2> DEFINE q == WriteFailed(r, r.bitmap, "EIO")
    <2>1. /\ q.job = r.job /\ q.at = r.at /\ q.new = r.new /\ q.saved = r.saved
          /\ q.pc = "open" /\ q.ec = r.ec /\ q.bitmap = r.bitmap
      BY <1>2, <1>3, WriteFailedIs
    <2> HIDE DEF q
    <2>2. InUse \subseteq r.bitmap
      BY <1>5 DEF Marks
    <2>3. lost' # "nothing"
      BY <1>8 DEF Harm
    <2> QED
      BY <1>1, <1>2, <1>4, <1>5, <1>8, <2>1, <2>2, <2>3, FileWriteFails DEF q
  <1> QED
    BY <1>1, <1>2, <1>7, <1>8 DEF PutFd

LEMMA PutFdDirInv ==
  ASSUME TypeOK, TypeOK', OnePath, Good, NEW p \in Paths, PutFd(p), s[p].job # "file"
  PROVE  Good'
  <1>1. PICK r : r = s[p]
    OBVIOUS
  <1>2. r.pc = "putfd" /\ r.job # "file" /\ dbm' = dbm /\ ent' = ent /\ lost' = lost
    BY <1>1 DEF PutFd
  <1>3. PathInv(r) /\ Sound /\ r \in Session
    BY <1>1, <1>2, AtWork DEF TypeOK
  <1>4. /\ AtPutFd(r) /\ Extending(r) /\ r.saved = dbm /\ r.ec = "ok" /\ Covered(r)
        /\ r.job # "none"
        /\ r.job \in {"create", "recreate", "delete"} => r.name \in Names
    BY <1>2, <1>3 DEF PathInv, AtPutFd
  <1>5. /\ r.at = Root /\ Linked /\ r.orig = fd[Root]
        /\ Layout(Root, r.cur) /\ Holds(Root, r.cur) \cap Others(Root) = {}
        /\ Grown(r.orig.seg, r.cur.seg) /\ r.cur.lnk = r.orig.lnk
    BY <1>2, <1>4 DEF AtPutFd, Extending
  <1>6. Root \in Cluster /\ fd \in [Cluster -> Fd]
    BY RootIsCluster DEF TypeOK
  <1>7. ASSUME fd' = [fd EXCEPT ![Root] = r.cur],
               Put(p, [r EXCEPT !.pc = "putmap", !.goal = 0, !.cur = NoFd, !.orig = NoFd])
        PROVE  Good'
    <2>1. PICK q : q = [r EXCEPT !.pc = "putmap", !.goal = 0, !.cur = NoFd, !.orig = NoFd]
      OBVIOUS
    <2>2. /\ q.pc = "putmap" /\ q.job = r.job /\ q.at = Root /\ q.ec = "ok"
          /\ q.bitmap = r.bitmap /\ q.saved = dbm /\ q.new = r.new /\ q.name = r.name
      BY <1>3, <1>4, <1>5, <2>1 DEF Session
    <2>3. ASSUME Sound', Linked', Marks(q.bitmap, InUse)', Covered(q)' PROVE Good'
      <3>1. PathInv(q)'
        BY <1>2, <1>4, <2>2, <2>3 DEF PathInv
      <3> QED
        BY <1>1, <1>2, <1>7, <2>1, <2>2, <2>3, <3>1, AtWork, Settle
    <2>4. CASE r.cur = r.orig
      <3>1. fd' = fd
        BY <1>5, <1>6, <1>7, <2>4
      <3>2. Slots' = Slots /\ Named' = Named
        BY <1>2, <3>1 DEF Slots, Named
      <3>3. /\ Files' = Files /\ Live' = Live /\ InUse' = InUse
            /\ \A d \in Live : Holds(d, fd'[d]) = Holds(d, fd[d])
        BY <1>2, <3>1, <3>2, SameUse
      <3>4. Sound'
        BY <1>2, <1>3, <3>1, <3>2, SameSound DEF Sound
      <3>5. Linked'
        BY <1>2, <1>5, <3>1, <3>3 DEF Linked
      <3>6. Covered(q)'
        <4>1. Covered(q)
          BY <1>4, <1>5, <2>2 DEF Covered
        <4> QED
          BY <1>2, <3>3, <4>1, CoveredKept
      <3>7. Marks(r.bitmap, InUse)
        <4>1. CASE r.job = "create"
          <5>1. fd[Root].siz \in Nat
            BY <1>6 DEF Fd
          <5>2. /\ r.goal \in 1 .. Len(ent) /\ ent[r.goal] = r.entry
                /\ Marks(r.bitmap, InUse \cup Holds(Root, r.cur) \cup {r.new}) /\ FreshFd(r)
                /\ r.goal <= fd[Root].siz
            BY <1>4, <1>5, <2>4, <4>1, <5>1 DEF AtPutFd
          <5>3. r.goal \in Named /\ ent[r.goal].at = r.new
            BY <5>2 DEF FreshFd, Named, Slots, TypeOK
          <5>4. r.new \in Live
            BY <5>3 DEF Live, Files
          <5>5. r.new \in InUse
            BY <5>4, InUseOf
          <5>6. Holds(Root, r.cur) \subseteq InUse
            BY <1>5, <2>4, LiveType, InUseOf
          <5> QED
            BY <5>2, <5>5, <5>6 DEF Marks
        <4>2. CASE r.job # "create"
          BY <1>2, <1>3, <1>4, <4>2 DEF AtPutFd, Session
        <4> QED
          BY <4>1, <4>2
      <3>8. Marks(q.bitmap, InUse)'
        BY <1>2, <2>2, <3>3, <3>7 DEF Marks
      <3> QED
        BY <2>3, <3>4, <3>5, <3>6, <3>8
    <2>5. CASE r.cur # r.orig
      <3>1. r.job = "create"
        BY <1>2, <1>3, <1>4, <2>5 DEF AtPutFd, Session
      <3>2. /\ FreshFd(r) /\ r.goal \in 1 .. Len(ent) /\ ent[r.goal] = r.entry
            /\ r.goal = fd[Root].siz + 1 /\ r.cur.siz = r.goal /\ r.new \notin Live
            /\ r.cur.siz <= MaxSectors(r.cur.seg) * Bps
            /\ Marks(r.bitmap, InUse \cup Holds(Root, r.cur) \cup {r.new})
        BY <1>4, <2>5, <3>1 DEF AtPutFd
      <3>3. PICK n : n = r.new
        OBVIOUS
      <3>4. PICK f : f = r.cur
        OBVIOUS
      <3>5. PICK j : j = r.goal
        OBVIOUS
      <3>6. /\ n \in Cluster /\ n # Root /\ fd'[Root] = f
            /\ \A d \in Cluster : d # Root => fd'[d] = fd[d]
        BY <1>3, <1>6, <1>7, <3>2, <3>3, <3>4, LiveType DEF Session
      <3>7. n \notin InUse
        BY <3>2, <3>3, OthersOfNew DEF FreshFd
      <3>8. /\ ent'[j].at = n /\ ent[j].name \in Names /\ fd'[n] = NewFd(n)
            /\ n \notin Holds(Root, f)
        BY <1>2, <3>2, <3>3, <3>4, <3>5, <3>6 DEF FreshFd
      <3>9. Named' = Named \cup {j} /\ \A i \in Named : ent'[i].at = ent[i].at
        <4>1. fd[Root].siz \in Nat /\ DOMAIN ent = 1 .. Len(ent) /\ Len(ent) \in Nat
          BY <1>6 DEF Fd, TypeOK
        <4>2. f.siz = fd[Root].siz + 1 /\ j = f.siz
          BY <3>2, <3>4, <3>5
        <4>3. Slots' = Slots \cup {j}
          BY <1>2, <3>2, <3>5, <3>6, <4>1, <4>2 DEF Slots
        <4> QED
          BY <1>2, <3>8, <4>3 DEF Named
      <3>10. Holds(Root, fd[Root]) \subseteq Holds(Root, f)
        <4> DEFINE a == r.orig.seg
                   b == r.cur.seg
        <4>1. /\ a \in Seq(Segment) /\ b \in Seq(Segment) /\ Grown(a, b)
              /\ \A i, k \in DOMAIN b : i # k => Run(b[i]) \cap Run(b[k]) = {}
          BY <1>3, <1>5 DEF Session, Fd, Layout
        <4> HIDE DEF a, b
        <4>2. SegClusters(a) \subseteq SegClusters(b)
          BY <4>1, GainedClusters
        <4> QED
          BY <1>5, <3>4, <4>2 DEF Holds, a, b
      <3>11. /\ Layout(Root, f) /\ Holds(Root, f) \cap Others(Root) = {}
             /\ f.siz <= Len(ent') /\ f.siz <= MaxSectors(f.seg) * Bps
             /\ \A d \in Files : fd'[d] = fd[d]
        <4>1. \A d \in Files : d \in Cluster /\ d # Root
          BY <1>3, FilesAreLive, LiveType
        <4> QED
          BY <1>2, <1>5, <3>2, <3>4, <3>6, <4>1
      <3>12. /\ Files' = Files \cup {n} /\ Live' = Live \cup {n}
             /\ InUse' = InUse \cup Holds(Root, f) \cup {n}
             /\ Sound'
        BY <1>3, <3>6, <3>7, <3>8, <3>9, <3>10, <3>11, FileAdded
      <3>13. Linked'
        <4>1. fd'[n].lnk = 1
          BY <3>8 DEF NewFd
        <4> QED
          BY <1>2, <1>5, <3>11, <3>12, <4>1 DEF Linked
      <3>14. Marks(q.bitmap, InUse)'
        BY <1>2, <2>2, <3>2, <3>3, <3>4, <3>12 DEF Marks
      <3>15. Covered(q)'
        BY <1>2, <1>4, <1>5, <2>2, <3>1, <3>3, <3>11, <3>12 DEF Covered, Live
      <3> QED
        BY <2>3, <3>12, <3>13, <3>14, <3>15
    <2> QED
      BY <2>4, <2>5
  <1>8. ASSUME fd' = fd, Put(p, WriteFailed(r, r.bitmap, "EIO"))
        PROVE  Good'
    <2> DEFINE q == WriteFailed(r, r.bitmap, "EIO")
    <2>1. /\ q.job = r.job /\ q.at = r.at /\ q.new = r.new /\ q.saved = r.saved
          /\ q.name = r.name /\ q.pc = "putmap" /\ q.ec = "EIO"
      BY <1>2, <1>3, WriteFailedIs
    <2> HIDE DEF q
    <2> QED
      BY <1>1, <1>2, <1>4, <1>8, <2>1, EioInv DEF q
  <1> QED
    BY <1>1, <1>2, <1>5, <1>7, <1>8 DEF PutFd

LEMMA PutCutInv ==
  ASSUME TypeOK, TypeOK', OnePath, Good, NEW p \in Paths, PutCut(p)
  PROVE  Good'
  <1>1. PICK r : r = s[p]
    OBVIOUS
  <1>2. r.pc = "truncate" /\ dbm' = dbm /\ ent' = ent /\ lost' = lost
    BY <1>1 DEF PutCut
  <1>3. PathInv(r) /\ Sound /\ r \in Session
    BY <1>1, <1>2, AtWork DEF TypeOK
  <1>4. /\ AtTruncate(r) /\ r.saved = dbm /\ r.ec = "ok" /\ Covered(r)
    BY <1>2, <1>3 DEF PathInv
  <1>5. /\ r.job = "file" /\ r.at \in Files /\ r.orig = fd[r.at] /\ r.cur.lnk = r.orig.lnk
        /\ Layout(r.at, r.cur) /\ Holds(r.at, r.cur) \subseteq Holds(r.at, r.orig)
        /\ Marks(r.bitmap, Others(r.at) \cup Holds(r.at, r.cur)) /\ Linked
    BY <1>4 DEF AtTruncate
  <1>6. r.at \in Live /\ Holds(r.at, r.cur) \cap Others(r.at) = {}
    <2>1. r.at \in Live
      BY <1>5 DEF Live
    <2> QED
      BY <1>3, <1>5, <2>1, Apart
  <1>7. ASSUME fd' = IF r.cur = r.orig THEN fd ELSE [fd EXCEPT ![r.at] = r.cur],
               Put(p, [r EXCEPT !.pc = "putmap", !.cur = NoFd, !.orig = NoFd])
        PROVE  Good'
    <2>1. PICK q : q = [r EXCEPT !.pc = "putmap", !.cur = NoFd, !.orig = NoFd]
      OBVIOUS
    <2>2. /\ q.pc = "putmap" /\ q.job = "file" /\ q.at = r.at /\ q.ec = "ok"
          /\ q.bitmap = r.bitmap /\ q.saved = dbm /\ q.new = r.new
      BY <1>3, <1>4, <1>5, <2>1 DEF Session
    <2>3. PICK c : c = r.at
      OBVIOUS
    <2>4. PICK f : f = r.cur
      OBVIOUS
    <2>5. fd' = [fd EXCEPT ![c] = f]
      BY <1>5, <1>7, <2>3, <2>4 DEF TypeOK
    <2>6. /\ Files' = Files /\ Live' = Live /\ c \in Live
          /\ fd'[c] = f /\ \A d \in Live : d # c => fd'[d] = fd[d]
          /\ InUse' = Others(c) \cup Holds(c, f)
          /\ Sound'
      BY ZenonT(120), <1>2, <1>3, <1>5, <1>6, <2>3, <2>4, <2>5, FileChanged
    <2>7. Marks(q.bitmap, InUse)'
      BY <1>2, <1>5, <2>2, <2>3, <2>4, <2>6 DEF Marks
    <2>8. Linked'
      BY <1>2, <1>5, <2>3, <2>4, <2>6 DEF Linked, Live
    <2>9. Covered(q)'
      BY <1>2, <1>4, <1>5, <2>2, <2>3, <2>6 DEF Covered
    <2>10. PathInv(q)'
      BY <1>2, <2>2, <2>7, <2>8, <2>9 DEF PathInv
    <2> QED
      BY <1>1, <1>2, <1>7, <2>1, <2>2, <2>6, <2>10, AtWork, Settle
  <1>8. ASSUME fd' = fd, Put(p, [r EXCEPT !.pc = "putmap", !.cur = NoFd, !.orig = NoFd,
                                          !.ec = "EIO"])
        PROVE  Good'
    <2> DEFINE q == [r EXCEPT !.pc = "putmap", !.cur = NoFd, !.orig = NoFd, !.ec = "EIO"]
    <2>1. /\ q.pc = "putmap" /\ q.ec = "EIO" /\ q.job = r.job /\ q.at = r.at
          /\ q.new = r.new /\ q.saved = r.saved /\ q.name = r.name
      BY <1>3 DEF Session
    <2> HIDE DEF q
    <2> QED
      BY <1>1, <1>2, <1>5, <1>8, <2>1, EioInv DEF q
  <1> QED
    BY <1>1, <1>7, <1>8 DEF PutCut

(* The bitmap is written: from here on the disk is as the path left it.    *)
LEMMA PutBitmapInv ==
  ASSUME TypeOK, TypeOK', OnePath, Good, NEW p \in Paths, PutBitmap(p), lost' # "files"
  PROVE  Good'
  <1>1. PICK r : r = s[p]
    OBVIOUS
  <1>2. r.pc = "putmap" /\ fd' = fd /\ ent' = ent
    BY <1>1 DEF PutBitmap
  <1>3. PathInv(r) /\ Sound /\ r \in Session
    BY <1>1, <1>2, AtWork DEF TypeOK
  <1>4. PICK e : /\ Return(p, r, e)
                 /\ \/ dbm' = (IF r.bitmap = r.saved THEN dbm ELSE r.bitmap) /\ e = r.ec
                    \/ dbm' = dbm /\ e = IF r.ec = "ok" THEN "EIO" ELSE r.ec
    BY <1>1 DEF PutBitmap
  <1>5. e # "EIO" /\ lost' = lost
    BY <1>4 DEF Return, Harm
  <1>6. /\ r.saved = dbm /\ Linked
        /\ r.ec # "EIO" => Marks(r.bitmap, InUse)
        /\ r.ec \notin {"ok", "EIO"} => Marks(dbm, InUse)
        /\ r.job \in {"create", "recreate", "delete"} => r.name \in Names
    BY <1>2, <1>3, <1>4, <1>5 DEF PathInv
  <1>7. Marks(dbm', InUse)
    <2>1. r.ec # "EIO"
      BY <1>4, <1>5
    <2>2. CASE dbm' = (IF r.bitmap = r.saved THEN dbm ELSE r.bitmap)
      <3>1. dbm' = r.bitmap
        BY <1>6, <2>2
      <3> QED
        BY <1>6, <2>1, <3>1
    <2>3. CASE dbm' = dbm /\ e = IF r.ec = "ok" THEN "EIO" ELSE r.ec
      BY <1>5, <1>6, <2>1, <2>3
    <2> QED
      BY <1>4, <2>2, <2>3
  <1>8. Slots' = Slots /\ Named' = Named
    BY <1>2 DEF Slots, Named
  <1>9. /\ Files' = Files /\ Live' = Live /\ InUse' = InUse
        /\ \A d \in Live : Holds(d, fd'[d]) = Holds(d, fd[d])
    BY <1>2, <1>8, SameUse
  <1>10. Sound'
    BY <1>2, <1>3, <1>8, SameSound DEF Sound
  <1>11. Linked' /\ Marks(dbm, InUse)'
    BY <1>2, <1>5, <1>6, <1>7, <1>9 DEF Linked, Marks
  <1>12. PICK q : q = After(r, e)
    OBVIOUS
  <1>13. Covered(q)'
    BY <1>2, <1>7, <1>9 DEF Covered, Marks, InUse
  <1>14. \/ q = Idle
         \/ \E pc \in {"parent", "reopen"} :
              q = [Idle EXCEPT !.pc = pc, !.name = r.name] /\ r.job \in {"create", "recreate"}
    BY <1>12 DEF After
  <1>15. CASE q = Idle
    BY <1>1, <1>2, <1>4, <1>10, <1>11, <1>12, <1>15, AtWork, Settle DEF Return, Idle
  <1>16. ASSUME NEW pc \in {"parent", "reopen"}, r.job \in {"create", "recreate"},
                q = [Idle EXCEPT !.pc = pc, !.name = r.name]
         PROVE  Good'
    <2>1. q.pc = pc /\ q.job = "none" /\ q.name = r.name /\ q.ec = "ok"
      BY <1>16 DEF Idle
    <2>2. PathInv(q)'
      BY <1>6, <1>11, <1>13, <1>16, <2>1 DEF PathInv
    <2> QED
      BY <1>1, <1>2, <1>4, <1>10, <1>12, <2>1, <2>2, AtWork, Settle DEF Return
  <1> QED
    BY <1>14, <1>15, <1>16

LEMMA CrashInv ==
  ASSUME TypeOK, OnePath, Good, Crash, lost' # "files"
  PROVE  Good'
  <1>1. PICK p \in Paths : s[p].pc # "idle"
    BY DEF Crash
  <1>2. /\ \A o \in Paths : Removing(s[o]) /\ s'[o] = Idle
        /\ lost' # "nothing" /\ dbm' = dbm /\ fd' = fd /\ ent' = ent
    BY DEF Crash, Harm
  <1>3. PathInv(s[p]) /\ Sound
    BY <1>1, AtWork
  <1>4. InUse \subseteq dbm
    BY <1>2, <1>3 DEF PathInv, Covered, Removing, InUse
  <1>5. Slots' = Slots /\ Named' = Named
    BY <1>2 DEF Slots, Named
  <1>6. InUse' = InUse
    BY <1>2, <1>5, SameUse
  <1>7. Sound'
    BY <1>2, <1>3, <1>5, SameSound DEF Sound
  <1>8. Marks(dbm, InUse)' /\ Linked'
    BY <1>2, <1>4, <1>6 DEF Marks, Linked
  <1>9. \A r \in { s'[o] : o \in Paths } : r.pc = "idle"
    BY <1>2 DEF Idle
  <1> QED
    BY <1>7, <1>8, <1>9 DEF Good

-----------------------------------------------------------------------------
(* The freshly formatted disk.                                             *)

LEMMA RootRun ==
  /\ SegClusters(RootFd.seg) = FirstOfRoot .. (FirstOfRoot + RootN - 1)
  /\ Holds(Root, RootFd) = Root .. (FirstOfRoot + RootN - 1)
  <1>1. SegClusters(RootFd.seg) = FirstOfRoot .. (FirstOfRoot + RootN - 1)
    <2>1. DOMAIN RootFd.seg = {1} /\ RootFd.seg[1] = [start |-> FirstOfRoot, n |-> RootN]
      BY DEF RootFd
    <2>2. SegClusters(RootFd.seg) = Run(RootFd.seg[1])
      BY <2>1 DEF SegClusters
    <2> QED
      BY <2>1, <2>2 DEF Run
  <1>2. /\ Root \in Nat /\ RootN \in Nat \ {0} /\ FirstOfRoot \in Nat
        /\ FirstOfRoot \in {Root, Root + 1}
    BY RootIsCluster, RbfAssumption DEF FirstOfRoot, Cluster
  <1>3. {Root} \cup FirstOfRoot .. (FirstOfRoot + RootN - 1) = Root .. (FirstOfRoot + RootN - 1)
    BY <1>2
  <1> QED
    BY <1>1, <1>3 DEF Holds

(* The root directory's two entries fit into its first segment.            *)
LEMMA RootFits == 2 <= MaxSectors(RootFd.seg) * Bps
  <1> DEFINE a == FirstOfRoot
             m == MaxSectors(RootFd.seg)
  <1>1. a \in Nat /\ RootN \in Nat /\ RootN >= 1 /\ Spc \in Nat /\ Spc >= 1
    BY RootIsCluster, RbfAssumption, BitmapAssumption DEF Cluster
  <1>2. Cardinality(a .. (a + RootN - 1)) = RootN
    BY <1>1, FS_Interval
  <1>3. m = Spc * RootN - (IF Spc > 1 THEN 1 ELSE 0)
    BY <1>2, RootRun DEF MaxSectors, RootFd
  <1>4. Spc * RootN \in Int /\ Spc * RootN >= Spc
    BY <1>1
  <1>5. m \in Nat /\ m >= 1
    BY <1>1, <1>3, <1>4
  <1>6. Bps \in Nat /\ Bps >= 2
    BY FdAssumption
  <1> HIDE DEF m
  <1>7. m * Bps >= Bps
    BY <1>5, <1>6
  <1> QED
    BY <1>5, <1>6, <1>7 DEF m

LEMMA InitInv == ASSUME Init PROVE Inv
  <1>1. \A p \in Paths : s[p] = Idle
    BY DEF Init
  <1>2. fd[Root] = RootFd
    BY RootIsCluster DEF Init
  <1>3. Named = {} /\ Files = {} /\ Live = {Root}
    <2>1. \A i \in Slots : ent[i].name = Dot
      BY DEF Init, Slots, DotEntry
    <2> QED
      BY <2>1, RbfAssumption DEF Named, Files, Live
  <1>4. Holds(Root, fd[Root]) = Root .. (FirstOfRoot + RootN - 1)
    BY <1>2, RootRun
  <1>5. InUse = 0 .. (FirstOfRoot + RootN - 1)
    <2>1. InUse = System \cup (Root .. (FirstOfRoot + RootN - 1))
      BY <1>3, <1>4 DEF InUse
    <2>2. Root \in Nat /\ RootN \in Nat /\ RootN >= 1 /\ FirstOfRoot \in Nat
          /\ FirstOfRoot >= Root
      BY RootIsCluster, RbfAssumption DEF FirstOfRoot, Cluster
    <2> QED
      BY <2>1, <2>2 DEF System
  <1>6. Marks(dbm, InUse) /\ Linked
    BY <1>3, <1>5 DEF Init, Marks, Linked
  <1>7. Layout(Root, fd[Root])
    <2>1. Holds(Root, fd[Root]) \cap System = {}
      BY <1>4, RbfAssumption DEF System
    <2>2. DOMAIN fd[Root].seg = {1} /\ fd[Root].seg[1].start = FirstOfRoot /\ fd[Root].seg # << >>
      BY <1>2 DEF RootFd
    <2>3. Spc = 1 => Root \notin SegClusters(fd[Root].seg)
      BY <1>2, RootRun, RbfAssumption DEF FirstOfRoot
    <2>4. Spc > 1 => FirstOfRoot = Root
      BY DEF FirstOfRoot
    <2> QED
      BY <2>1, <2>2, <2>3, <2>4 DEF Layout
  <1>8. Sound
    <2>1. fd[Root].siz = 2 /\ Len(ent) = 2
      BY <1>2 DEF RootFd, Init
    <2>2. fd[Root].siz <= MaxSectors(fd[Root].seg) * Bps
      BY <1>2, <2>1, RootFits
    <2> QED
      BY <1>3, <1>7, <2>1, <2>2 DEF Sound
  <1>9. OnePath
    BY <1>1 DEF OnePath, Idle
  <1>10. \A r \in { s[p] : p \in Paths } : r.pc = "idle"
    BY <1>1 DEF Idle
  <1> QED
    BY <1>6, <1>8, <1>9, <1>10 DEF Inv, Good

-----------------------------------------------------------------------------
(* Every step keeps Inv.                                                   *)

(* What has cost files once has done so for good.                          *)
LEMMA LostForGood ==
  ASSUME [Next]_vars, lost = "files"
  PROVE  lost' = "files"
  BY ZenonT(120) DEF Next, Request, Step, vars, Open, Seek, SetSize, Write, ExtendLast, NewSegment,
         RollBack, PutData, PutDataFails, PutFd, Close, Cut, PutCut, Return, PutBitmap,
         Create, OpenParent, Replace, AllocateFd, PutNewFd, Reopen, Delete, NotFound,
         Unlink, Release, Rename, Crash, Harm

LEMMA StutterInv ==
  ASSUME TypeOK, Good, UNCHANGED vars
  PROVE  Good'
  <1>1. /\ UNCHANGED << dbm, fd, ent, lost >> /\ s' = s
    BY DEF vars
  <1>2. Sound'
    BY <1>1, Quiet DEF Good
  <1>3. AtRest' => Marks(dbm, InUse)' /\ Linked'
    BY <1>1, Quiet DEF Good, AtRest
  <1>4. ASSUME NEW r \in { s'[p] : p \in Paths }, r.pc # "idle"
        PROVE  PathInv(r)'
    <2>1. r \in Session /\ r \in { s[p] : p \in Paths }
      BY <1>1 DEF TypeOK
    <2>2. PathInv(r)
      BY <1>4, <2>1 DEF Good
    <2> QED
      BY <1>1, <2>1, <2>2, Quiet
  <1> QED
    BY <1>2, <1>3, <1>4 DEF Good

LEMMA RequestInv ==
  ASSUME Exclusive, TypeOK, TypeOK', OnePath, Good, NEW p \in Paths, Request(p)
  PROVE  Good'
  <1>1. ASSUME NEW siz \in 0 .. MaxSize, SetSize(p, siz) PROVE Good'
    BY <1>1, SetSizeInv
  <1> QED
    BY <1>1, OpenInv, CreateInv, DeleteInv, RenameInv, SeekInv, WriteInv, CloseInv DEF Request

LEMMA StepInv ==
  ASSUME TypeOK, TypeOK', OnePath, Good, NEW p \in Paths, Step(p), lost' # "files"
  PROVE  Good'
  BY OpenParentInv, ReplaceInv, AllocateFdInv, PutNewFdInv, ReopenInv, NotFoundInv,
     UnlinkInv, ReleaseInv, ExtendLastInv, NewSegmentInv, PutDataInv, PutDataFailsInv,
     PutFdFileInv, PutFdDirInv, RollBackInv, CutInv, PutCutInv, PutBitmapInv DEF Step

LEMMA InvNext ==
  ASSUME Exclusive, TypeOK, TypeOK', Inv, [Next]_vars
  PROVE  Inv'
  <1>1. OnePath'
    BY OnePathKept DEF Inv
  <1>2. ASSUME lost' # "files" PROVE Good'
    <2>1. OnePath /\ Good
      BY <1>2, LostForGood DEF Inv
    <2>2. CASE UNCHANGED vars
      BY <2>1, <2>2, StutterInv
    <2>3. ASSUME NEW p \in Paths, Request(p) PROVE Good'
      BY <2>1, <2>3, RequestInv
    <2>4. ASSUME NEW p \in Paths, Step(p) PROVE Good'
      BY <1>2, <2>1, <2>4, StepInv
    <2>5. CASE Crash
      BY <1>2, <2>1, <2>5, CrashInv
    <2> QED
      BY <2>2, <2>3, <2>4, <2>5 DEF Next
  <1> QED
    BY <1>1, <1>2 DEF Inv

-----------------------------------------------------------------------------
(* The theorems                                                            *)

(* When one path for writing is open at a time, the invariant holds at     *)
(* every step of every operation, whatever write fails and wherever the    *)
(* process ends: the bitmaps in memory and on the disk, the descriptors    *)
(* and the directory fit together as librbf's steps assume.                *)
THEOREM InvariantHolds == ASSUME Exclusive PROVE Spec => []Inv
  <1>1. Init => Inv
    BY InitInv
  <1>2. TypeOK /\ TypeOK' /\ Inv /\ [Next]_vars => Inv'
    BY InvNext
  <1>3. Spec => []TypeOK
    BY TypeCorrect
  <1> QED
    BY <1>1, <1>2, <1>3, PTL DEF Spec

(* No two files share a cluster, none holds one of the system area, and no *)
(* two entries name one descriptor.                                        *)
THEOREM NothingShared == ASSUME Exclusive PROVE Spec => []NoSharedCluster
  <1>1. Inv => NoSharedCluster
    <2>1. Sound => \A c \in Live :
            /\ Holds(c, fd[c]) \cap System = {}
            /\ \A i, j \in DOMAIN fd[c].seg :
                 i # j => Run(fd[c].seg[i]) \cap Run(fd[c].seg[j]) = {}
      BY DEF Sound, Layout
    <2> QED
      BY <2>1 DEF Inv, Good, Sound, NoSharedCluster
  <1> QED
    BY <1>1, InvariantHolds, PTL

(* With no path open and no failure, the bitmap on the disk is exactly the *)
(* clusters in use.                                                        *)
THEOREM ExactAtRest == ASSUME Exclusive PROVE Spec => []AtRestExact
  <1>1. Inv => AtRestExact
    BY DEF Inv, Good, AtRestExact, Marks
  <1> QED
    BY <1>1, InvariantHolds, PTL

(* With no failure, an open path's bitmap is exactly the clusters in use   *)
(* between two calls, also after a write that was refused half way.        *)
THEOREM ExactWhileOpen == ASSUME Exclusive PROVE Spec => []OpenExact
  <1>1. Inv => OpenExact
    BY DEF Inv, Good, OpenExact, PathInv, Marks
  <1> QED
    BY <1>1, InvariantHolds, PTL

(* A failed write to a file, or the end of the process while one is        *)
(* removed or renamed, leaves no cluster of a file unmarked.               *)
THEOREM FailuresOnlyLeak == ASSUME Exclusive PROVE Spec => []FailureOnlyLeaks
  <1>1. Inv => FailureOnlyLeaks
    BY DEF Inv, Good, FailureOnlyLeaks, PathInv, Marks
  <1> QED
    BY <1>1, InvariantHolds, PTL

(* At every step the disk's bitmap covers every file but the one written   *)
(* to, or the one being created and its directory.                         *)
THEOREM GrowthOnlyIsExposed == ASSUME Exclusive PROVE Spec => []OnlyGrowthIsExposed
  <1>1. ASSUME Inv, TypeOK, lost # "files", AtRest PROVE OnlyGrowthIsExposed
    BY <1>1 DEF Inv, Good, OnlyGrowthIsExposed, Marks, InUse
  <1>2. ASSUME Inv, TypeOK, lost # "files", NEW p \in Paths, s[p].pc # "idle"
        PROVE  OnlyGrowthIsExposed
    <2>1. PathInv(s[p])
      BY <1>2 DEF Inv, Good
    <2> QED
      BY <1>2, <2>1 DEF PathInv, Covered, OnlyGrowthIsExposed
  <1>3. Inv /\ TypeOK => OnlyGrowthIsExposed
    BY <1>1, <1>2 DEF AtRest, OnlyGrowthIsExposed
  <1> QED
    BY <1>3, InvariantHolds, TypeCorrect, PTL

-----------------------------------------------------------------------------
(* Sectors and segments *)

(* Division keeps the order. *)
LEMMA DivMono ==
  ASSUME NEW a \in Int, NEW b \in Int, a <= b, NEW m \in Nat \ {0}
  PROVE  a \div m \in Int /\ b \div m \in Int /\ a \div m <= b \div m
  OBVIOUS

(* The sectors of a size are those whose bytes suffice. *)
LEMMA NeededAre ==
  ASSUME NEW siz \in Nat, NEW n \in Int
  PROVE  siz <= n * Bps => SectorsNeeded(siz) <= n
  <1> DEFINE k == (siz + Bps - 1) \div Bps
  <1>1. Bps \in Nat /\ Bps >= 2
    BY FdAssumption
  <1>2. k \in Int /\ Bps * k <= siz + Bps - 1
    BY <1>1
  <1>3. SUFFICES ASSUME siz <= n * Bps, n + 1 <= k PROVE FALSE
    BY <1>2 DEF SectorsNeeded
  <1> HIDE DEF k
  <1>4. Bps * (n + 1) <= Bps * k
    BY <1>1, <1>2, <1>3
  <1>5. Bps * (n + 1) = n * Bps + Bps
    BY <1>1
  <1>6. n * Bps \in Int /\ Bps * k \in Int
    BY <1>1, <1>2
  <1> QED
    BY <1>1, <1>2, <1>3, <1>4, <1>5, <1>6

LEMMA NeededMono ==
  ASSUME NEW a \in Nat, NEW b \in Nat, a <= b
  PROVE  /\ SectorsNeeded(a) \in Int /\ SectorsNeeded(b) \in Int
         /\ SectorsNeeded(a) <= SectorsNeeded(b)
  <1>1. Bps \in Nat \ {0}
    BY FdAssumption
  <1> QED
    BY <1>1, DivMono DEF SectorsNeeded

(* The clusters of a list are finitely many. *)
LEMMA ClustersFinite ==
  ASSUME NEW segs \in Seq(Segment)
  PROVE  IsFiniteSet(SegClusters(segs))
  <1>1. ASSUME NEW i \in DOMAIN segs PROVE Run(segs[i]) \subseteq 0 .. (2 * TotalClusters)
    <2>1. segs[i].start \in 0 .. (TotalClusters - 1) /\ segs[i].n \in 1 .. TotalClusters
      BY SegmentOf DEF Segment, Cluster
    <2> QED
      BY <2>1, BitmapAssumption DEF Run
  <1>2. SegClusters(segs) \subseteq 0 .. (2 * TotalClusters)
    BY <1>1 DEF SegClusters
  <1>3. IsFiniteSet(0 .. (2 * TotalClusters))
    BY BitmapAssumption, FS_Interval
  <1> QED
    BY <1>2, <1>3, FS_Subset

(* A list with more clusters has no smaller capacity. *)
LEMMA MoreSectors ==
  ASSUME NEW old \in Seq(Segment), NEW new \in Seq(Segment), new # << >>,
         SegClusters(old) \subseteq SegClusters(new),
         old = << >> => SegClusters(new) # {}
  PROVE  MaxSectors(old) <= MaxSectors(new)
  <1> DEFINE a == Cardinality(SegClusters(old))
             b == Cardinality(SegClusters(new))
  <1>1. IsFiniteSet(SegClusters(old)) /\ IsFiniteSet(SegClusters(new))
    BY ClustersFinite
  <1>2. a \in Nat /\ b \in Nat /\ a <= b
    BY <1>1, FS_Subset, FS_CardinalityType
  <1>3. old = << >> => a = 0 /\ b >= 1
    <2>1. old = << >> => SegClusters(old) = {}
      BY DEF SegClusters
    <2> QED
      BY <1>1, <1>2, <2>1, FS_EmptySet
  <1>4. Spc \in Nat /\ Spc >= 1
    BY BitmapAssumption
  <1> HIDE DEF a, b
  <1>5. Spc * a <= Spc * b /\ Spc * a \in Int /\ Spc * b \in Int
    BY <1>2, <1>4
  <1>6. old = << >> => Spc * a = 0 /\ Spc * b >= Spc
    BY <1>2, <1>3, <1>4
  <1>7. MaxSectors(old) = Spc * a - (IF old # << >> /\ Spc > 1 THEN 1 ELSE 0)
    BY DEF MaxSectors, a
  <1>8. MaxSectors(new) = Spc * b - (IF Spc > 1 THEN 1 ELSE 0)
    BY DEF MaxSectors, b
  <1> QED
    BY <1>4, <1>5, <1>6, <1>7, <1>8

(* A list cut by a cluster has a cluster's sectors less, or is empty.      *)
LEMMA CutSectors ==
  ASSUME NEW segs \in Seq(Segment), segs # << >>,
         \A i, j \in DOMAIN segs : i # j => Run(segs[i]) \cap Run(segs[j]) = {},
         ~ (Len(segs) = 1 /\ Spc > 1 /\ segs[1].n = 1)
  PROVE  MaxSectors(CutLast(segs)) = MaxSectors(segs) - Spc
  <1> DEFINE cut == CutLast(segs)
             a == Cardinality(SegClusters(segs))
             b == Cardinality(SegClusters(cut))
  <1>1. IsFiniteSet(SegClusters(segs))
    BY ClustersFinite
  <1>2. /\ SegClusters(cut) = SegClusters(segs) \ {LastCluster(segs)}
        /\ LastCluster(segs) \in SegClusters(segs)
    BY CutLastClusters
  <1>3. a \in Nat /\ b = a - 1 /\ b \in Nat
    BY <1>1, <1>2, FS_RemoveElement, FS_CardinalityType, FS_Subset
  <1>4. cut = << >> => Len(segs) = 1 /\ segs[1].n = 1
    <2> SUFFICES ASSUME cut = << >> PROVE Len(segs) = 1 /\ segs[1].n = 1
      OBVIOUS
    <2>1. DOMAIN segs \ {Len(segs)} \subseteq DOMAIN cut /\ Len(segs) \in DOMAIN segs
          /\ (Len(segs) \in DOMAIN cut <=> segs[Len(segs)].n # 1)
      BY CutLastRuns
    <2>2. DOMAIN cut = {}
      OBVIOUS
    <2>3. 1 \in DOMAIN segs
      OBVIOUS
    <2>4. Len(segs) = 1
      <3> HIDE DEF cut
      <3> QED
        BY <2>1, <2>2, <2>3
    <2> QED
      BY <2>1, <2>2, <2>4
  <1>5. Spc \in Nat /\ Spc >= 1
    BY BitmapAssumption
  <1> HIDE DEF cut, a, b
  <1>6. Spc * b = Spc * a - Spc /\ Spc * a \in Int
    BY <1>3, <1>5
  <1>7. MaxSectors(cut) = Spc * b - (IF cut # << >> /\ Spc > 1 THEN 1 ELSE 0)
    BY DEF MaxSectors, b
  <1>8. MaxSectors(segs) = Spc * a - (IF Spc > 1 THEN 1 ELSE 0)
    BY DEF MaxSectors, a
  <1>9. MaxSectors(cut) = MaxSectors(segs) - Spc
    BY <1>4, <1>5, <1>6, <1>7, <1>8
  <1> QED
    BY <1>9 DEF cut

(* A segment that grows, is added or is cut stays in its map sector.       *)
LEMMA GrowLastOneMap ==
  ASSUME NEW bm \in SUBSET Cluster, NEW segs \in Seq(Segment),
         CanGrowLast(bm, segs), OneMapSector(segs)
  PROVE  OneMapSector(GrowLast(segs))
  <1> DEFINE new == GrowLast(segs)
             l == Len(segs)
  <1>1. /\ DOMAIN new = DOMAIN segs /\ l \in DOMAIN segs
        /\ \A i \in DOMAIN segs : i # l => new[i] = segs[i]
        /\ new[l].start = segs[l].start
    BY GrowLastRuns
  <1>2. new[l].n = segs[l].n + 1 /\ new[l].n \in Nat
    <2>1. segs[l].n \in Nat /\ segs[l] \in Segment
      BY <1>1, SegmentOf
    <2>2. new[l] = [segs[l] EXCEPT !.n = @ + 1]
      BY <1>1 DEF GrowLast
    <2> QED
      BY <2>1, <2>2 DEF Segment
  <1>3. segs[l].start \in Nat /\ segs[l].n \in Nat
    BY <1>1, SegmentOf
  <1>4. (segs[l].start + segs[l].n) \div MapSector = segs[l].start \div MapSector
    BY DEF CanGrowLast, NextCluster
  <1> HIDE DEF new, l
  <1>5. new[l].start + new[l].n - 1 = segs[l].start + segs[l].n
    BY <1>1, <1>2, <1>3
  <1>6. OneMapSector(new)
    BY <1>1, <1>4, <1>5 DEF OneMapSector
  <1> QED
    BY <1>6 DEF new

LEMMA AppendOneMap ==
  ASSUME NEW segs \in Seq(Segment), NEW g \in Segment, OneMapSector(segs),
         g.start \div MapSector = (g.start + g.n - 1) \div MapSector
  PROVE  OneMapSector(Append(segs, g))
  <1>1. /\ DOMAIN Append(segs, g) = DOMAIN segs \cup {Len(segs) + 1}
        /\ \A i \in DOMAIN segs : Append(segs, g)[i] = segs[i]
        /\ Append(segs, g)[Len(segs) + 1] = g
    OBVIOUS
  <1> QED
    BY <1>1 DEF OneMapSector

LEMMA CutLastOneMap ==
  ASSUME NEW segs \in Seq(Segment), segs # << >>, OneMapSector(segs)
  PROVE  OneMapSector(CutLast(segs))
  <1> DEFINE l == Len(segs)
             cut == CutLast(segs)
  <1>1. l \in DOMAIN segs /\ segs[l].start \in Nat /\ segs[l].n \in Nat /\ segs[l].n >= 1
        /\ segs[l] \in Segment
    BY SegmentOf
  <1>2. CASE segs[l].n = 1
    <2>1. cut = SubSeq(segs, 1, l - 1)
      BY <1>2 DEF CutLast
    <2>2. DOMAIN cut \subseteq DOMAIN segs /\ \A i \in DOMAIN cut : cut[i] = segs[i]
      BY <1>1, <2>1
    <2> HIDE DEF cut
    <2> QED
      BY <2>2 DEF OneMapSector, cut
  <1>3. CASE segs[l].n # 1
    <2>1. PICK g : g = [segs[l] EXCEPT !.n = @ - 1]
      OBVIOUS
    <2>2. g.start = segs[l].start /\ g.n = segs[l].n - 1
      BY <1>1, <2>1 DEF Segment
    <2>3. cut = [segs EXCEPT ![l] = g]
      BY <1>3, <2>1 DEF CutLast
    <2>4. DOMAIN cut = DOMAIN segs /\ cut[l] = g /\ \A i \in DOMAIN segs : i # l => cut[i] = segs[i]
      BY <1>1, <2>3
    <2> DEFINE x == segs[l].start
               n == segs[l].n
    <2>5. x \in Int /\ n \in Int /\ n >= 2
      BY <1>1, <1>3
    <2>6. x \div MapSector = (x + n - 1) \div MapSector
      BY <1>1 DEF OneMapSector
    <2> HIDE DEF x, n
    <2>7. x \div MapSector <= (x + n - 2) \div MapSector
      BY <2>5, BitmapAssumption, DivMono
    <2>8. (x + n - 2) \div MapSector <= (x + n - 1) \div MapSector
      BY <2>5, BitmapAssumption, DivMono
    <2>9. x \div MapSector = (x + n - 2) \div MapSector
      <3>1. x \div MapSector \in Int /\ (x + n - 2) \div MapSector \in Int
        BY <2>5, BitmapAssumption, DivMono
      <3> QED
        BY <2>6, <2>7, <2>8, <3>1
    <2>10. g.start = x /\ g.start + g.n - 1 = x + n - 2
      BY <2>2, <2>5 DEF x, n
    <2> HIDE DEF cut, l
    <2>11. OneMapSector(cut)
      BY <2>4, <2>9, <2>10 DEF OneMapSector
    <2> QED
      BY <2>11 DEF cut
  <1> QED
    BY <1>2, <1>3

-----------------------------------------------------------------------------
(* Descriptors *)

LEMMA NewFdProper ==
  ASSUME NEW c \in Cluster
  PROVE  Proper(NewFd(c)) /\ ~ CanCut(NewFd(c))
  <1> DEFINE g == [start |-> c, n |-> 1]
  <1>1. SegClusters(NewFd(c).seg) = IF Spc > 1 THEN {c} ELSE {}
    <2>1. Run(g) = {c}
      BY DEF Run, Cluster
    <2> HIDE DEF g
    <2>2. NewFd(c).seg = IF Spc > 1 THEN << g >> ELSE << >>
      BY DEF NewFd, g
    <2> QED
      BY <2>1, <2>2 DEF SegClusters
  <1>2. MaxSectors(NewFd(c).seg) >= 0 /\ MaxSectors(NewFd(c).seg) \in Int
    <2>1. Spc > 1 => Cardinality(SegClusters(NewFd(c).seg)) = 1
      BY <1>1, FS_Singleton
    <2>2. ~ (Spc > 1) => Cardinality(SegClusters(NewFd(c).seg)) = 0
      BY <1>1, FS_EmptySet
    <2> QED
      BY <2>1, <2>2, BitmapAssumption DEF MaxSectors, NewFd
  <1>3. SectorsNeeded(NewFd(c).siz) = 0
    BY FdAssumption DEF SectorsNeeded, NewFd
  <1>4. OneMapSector(NewFd(c).seg)
    BY DEF OneMapSector, NewFd, Cluster
  <1>5. ~ NewFd(c).dir
    BY DEF NewFd
  <1>6. ~ CanCut(NewFd(c))
    BY DEF CanCut, NewFd
  <1> QED
    BY <1>2, <1>3, <1>4, <1>5, <1>6 DEF Proper, Fits

LEMMA ProperType ==
  ASSUME NEW f \in Fd
  PROVE  /\ f.seg \in Seq(Segment) /\ f.siz \in Nat
         /\ MaxSectors(f.seg) \in Int /\ SectorsNeeded(f.siz) \in Int
  <1>1. f.seg \in Seq(Segment) /\ f.siz \in Nat
    BY DEF Fd
  <1> QED
    BY <1>1, MaxSectorsType, NeededMono

LEMMA GrowLastProper ==
  ASSUME NEW bm \in SUBSET Cluster, NEW f \in Fd, NEW g \in Fd,
         CanGrowLast(bm, f.seg), g.seg = GrowLast(f.seg),
         g.siz = f.siz, g.dir = f.dir, Proper(f)
  PROVE  Proper(g)
  <1>1. f.seg \in Seq(Segment) /\ g.seg \in Seq(Segment)
    BY ProperType
  <1>2. OneMapSector(g.seg)
    BY <1>1, GrowLastOneMap DEF Proper
  <1>3. SegClusters(g.seg) = SegClusters(f.seg) \cup {NextCluster(f.seg)}
    BY <1>1, GrowLastClusters
  <1>4. g.seg # << >>
    <2>1. SegClusters(<< >>) = {}
      BY DEF SegClusters
    <2> QED
      BY <1>3, <2>1
  <1>5. MaxSectors(f.seg) <= MaxSectors(g.seg)
    BY <1>1, <1>3, <1>4, MoreSectors
  <1> QED
    BY <1>2, <1>5, ProperType DEF Proper, Fits

LEMMA AppendProper ==
  ASSUME NEW f \in Fd, NEW g \in Fd, NEW h \in Segment, g.seg = Append(f.seg, h),
         h.start \div MapSector = (h.start + h.n - 1) \div MapSector,
         g.siz = f.siz, g.dir = f.dir, Proper(f)
  PROVE  Proper(g)
  <1>1. f.seg \in Seq(Segment) /\ g.seg \in Seq(Segment)
    BY ProperType
  <1>2. OneMapSector(g.seg)
    BY <1>1, AppendOneMap DEF Proper
  <1>3. SegClusters(g.seg) = SegClusters(f.seg) \cup Run(h)
    BY <1>1, AppendClusters
  <1>4. Run(h) # {}
    BY SegmentNumbers DEF Run
  <1>5. g.seg # << >>
    BY <1>3, <1>4 DEF SegClusters
  <1>6. MaxSectors(f.seg) <= MaxSectors(g.seg)
    BY <1>1, <1>3, <1>4, <1>5, MoreSectors
  <1>7. /\ MaxSectors(f.seg) \in Int /\ MaxSectors(g.seg) \in Int
        /\ SectorsNeeded(f.siz) \in Int
    BY ProperType
  <1>8. Fits(f) => Fits(g)
    BY <1>6, <1>7 DEF Fits
  <1> QED
    BY <1>2, <1>8 DEF Proper

LEMMA CutLastProper ==
  ASSUME NEW c, NEW f \in Fd, NEW g \in Fd, CanCut(f), Layout(c, f),
         g.seg = CutLast(f.seg), g.siz = f.siz, g.dir = f.dir, Proper(f)
  PROVE  Proper(g)
  <1>1. f.seg \in Seq(Segment) /\ f.seg # << >>
    BY ProperType DEF CanCut
  <1>2. OneMapSector(g.seg)
    BY <1>1, CutLastOneMap DEF Proper
  <1>3. MaxSectors(g.seg) = MaxSectors(f.seg) - Spc
    BY <1>1, CutSectors DEF CanCut, Layout
  <1>4. Fits(g)
    BY <1>3 DEF Fits, CanCut
  <1> QED
    BY <1>2, <1>4 DEF Proper

-----------------------------------------------------------------------------
(* Steps that leave the descriptors and the entries alone                  *)

(* What is known of the files and of the path at work.                     *)
LEMMA FitsAtWork ==
  ASSUME FitInv, lost # "files", NEW p \in Paths
  PROVE  FilesFit /\ PathFits(s[p])
  BY DEF FitInv

LEMMA SameFiles ==
  ASSUME ent' = ent, fd'[Root].siz = fd[Root].siz
  PROVE  Slots' = Slots /\ Named' = Named /\ Files' = Files
  BY DEF Slots, Named, Files

(* A path that has its file open keeps it so, or the file is trimmed.      *)
KeepsOpen(r, q) ==
  r.pc # "idle" /\ r.job = "file" =>
    \/ q.pc # "idle" /\ q.job = "file" /\ q.at = r.at
    \/ ~ CanCut(fd[r.at])

LEMMA QuietFits ==
  ASSUME TypeOK, FitInv, lost # "files", fd' = fd, ent' = ent,
         NEW p \in Paths, NEW q, Put(p, q), KeepsOpen(s[p], q), PathFits(q)
  PROVE  FitInv'
  <1>1. s'[p] = q /\ \A o \in Paths : o # p => s'[o] = s[o]
    BY DEF Put, TypeOK
  <1>2. Files' = Files
    BY SameFiles
  <1>3. ASSUME NEW c \in Files, OpenOn(c) PROVE OpenOn(c)' \/ ~ CanCut(fd[c])
    <2>1. PICK o \in Paths : s[o].pc # "idle" /\ s[o].job = "file" /\ s[o].at = c
      BY <1>3 DEF OpenOn
    <2>2. CASE o # p
      BY <1>1, <2>1, <2>2 DEF OpenOn
    <2>3. CASE o = p
      BY <1>1, <2>1, <2>3 DEF OpenOn, KeepsOpen
    <2> QED
      BY <2>2, <2>3
  <1>4. FilesFit'
    BY <1>2, <1>3 DEF FilesFit, FitInv
  <1>5. ASSUME NEW o \in Paths PROVE PathFits(s[o])'
    <2>1. PathFits(s'[o])
      BY <1>1 DEF FitInv
    <2> QED
      BY <2>1 DEF PathFits
  <1> QED
    BY <1>4, <1>5 DEF FitInv

(* A path that ends, or is not one for a file. *)
LEMMA NotAFile ==
  ASSUME NEW q, q.pc = "idle" \/ q.job # "file"
  PROVE  PathFits(q)
  BY DEF PathFits

LEMMA OpenedIs ==
  ASSUME NEW pc, NEW job, NEW c, NEW n
  PROVE  /\ Opened(pc, job, c, n).pc = pc /\ Opened(pc, job, c, n).job = job
         /\ Opened(pc, job, c, n).at = c
  BY DEF Opened, Idle

LEMMA BeginFits ==
  ASSUME TypeOK, FitInv, lost # "files", fd' = fd, ent' = ent,
         NEW p \in Paths, NEW q, Put(p, q), s[p].pc = "idle",
         q.job # "file" \/ q.pc = "open"
  PROVE  FitInv'
  <1>1. KeepsOpen(s[p], q)
    BY DEF KeepsOpen
  <1>2. PathFits(q)
    BY DEF PathFits
  <1> QED
    BY <1>1, <1>2, QuietFits

LEMMA CallFits ==
  ASSUME TypeOK, FitInv, lost # "files", NEW p \in Paths,
         \/ \E n \in Names : Open(p, n) \/ Create(p, n) \/ Delete(p, n)
         \/ \E n, m \in Names : Rename(p, n, m)
  PROVE  FitInv'
  <1>1. ASSUME NEW n \in Names, Open(p, n) PROVE FitInv'
    <2>1. PICK i \in Slots : Put(p, Opened("open", "file", ent[i].at, n))
      BY <1>1 DEF Open
    <2> QED
      BY <1>1, <2>1, OpenedIs, BeginFits DEF Open, Begin, Called
  <1>2. ASSUME NEW n \in Names, Create(p, n) PROVE FitInv'
    <2>1. [Idle EXCEPT !.pc = "parent", !.name = n].job # "file"
      BY DEF Idle
    <2> QED
      BY <1>2, <2>1, BeginFits DEF Create, Begin, Called
  <1>3. ASSUME NEW n \in Names, Delete(p, n) PROVE FitInv'
    BY <1>3, OpenedIs, BeginFits DEF Delete, Begin, Called
  <1>4. ASSUME NEW n \in Names, NEW m \in Names, Rename(p, n, m) PROVE FitInv'
    <2> DEFINE q(i) == Writing([Opened("extend", "rename", Root, m) EXCEPT
                                  !.new = ent[i].at,
                                  !.entry = [name |-> m, at |-> ent[i].at]],
                               fd[Root], i - 1, 1)
    <2>1. PICK i \in Slots : Put(p, q(i))
      BY <1>4 DEF Rename
    <2>2. q(i).job # "file"
      BY DEF Writing, Opened, Idle
    <2> HIDE DEF q
    <2> QED
      BY <1>4, <2>1, <2>2, BeginFits DEF Rename, Begin, Called
  <1> QED
    BY <1>1, <1>2, <1>3, <1>4

(* Steps of a path that is not one for a file.                             *)
LEMMA OtherStepFits ==
  ASSUME TypeOK, FitInv, lost # "files", fd' = fd, ent' = ent,
         NEW p \in Paths, NEW q, Put(p, q), s[p].job # "file",
         q.job # "file" \/ q.pc = "open"
  PROVE  FitInv'
  BY QuietFits DEF KeepsOpen, PathFits

LEMMA DirectoryStepFits ==
  ASSUME TypeOK, FitInv, lost # "files", OnePath, Good, NEW p \in Paths,
         \/ OpenParent(p) \/ Replace(p) \/ AllocateFd(p) \/ Reopen(p)
         \/ NotFound(p) \/ Release(p)
  PROVE  FitInv'
  <1> DEFINE r == s[p]
  <1>1. r \in Session
    BY DEF TypeOK
  <1>2. r.pc \in {"parent", "check", "reopen", "unlink", "release"}
    BY DEF OpenParent, Replace, AllocateFd, Reopen, NotFound, Release
  <1>3. PathInv(r)
    BY <1>2, AtWork
  <1>4. r.job # "file"
    BY <1>2, <1>3 DEF PathInv
  <1> HIDE DEF r
  <1>5. ASSUME NEW pc, NEW n, NEW job \in {"create", "recreate"},
               Put(p, Opened(pc, job, Root, n)), fd' = fd, ent' = ent
        PROVE  FitInv'
    BY <1>4, <1>5, OpenedIs, OtherStepFits DEF r
  <1>6. CASE OpenParent(p) \/ Replace(p)
    BY <1>5, <1>6 DEF OpenParent, Replace
  <1>7. CASE AllocateFd(p)
    <2>1. PICK q : Put(p, q) /\ q.job = r.job
      <3>1. \/ \E c \in Cluster :
                 Put(p, [r EXCEPT !.pc = "newfd", !.new = c, !.bitmap = @ \cup {c},
                                  !.entry = [name |-> r.name, at |-> c]])
            \/ Put(p, [r EXCEPT !.pc = "putmap", !.ec = "EOS_DF"])
        BY <1>7 DEF AllocateFd, r
      <3>2. \A c \in Cluster :
              [r EXCEPT !.pc = "newfd", !.new = c, !.bitmap = @ \cup {c},
                        !.entry = [name |-> r.name, at |-> c]].job = r.job
        BY <1>1 DEF Session
      <3>3. [r EXCEPT !.pc = "putmap", !.ec = "EOS_DF"].job = r.job
        BY <1>1 DEF Session
      <3>4. ASSUME NEW q, q.job = r.job, Put(p, q)
            PROVE  \E x : Put(p, x) /\ x.job = r.job
        BY <3>4
      <3>5. CASE Put(p, [r EXCEPT !.pc = "putmap", !.ec = "EOS_DF"])
        BY <3>3, <3>4, <3>5
      <3>6. ASSUME NEW c \in Cluster,
                   Put(p, [r EXCEPT !.pc = "newfd", !.new = c, !.bitmap = @ \cup {c},
                                    !.entry = [name |-> r.name, at |-> c]])
            PROVE  \E x : Put(p, x) /\ x.job = r.job
        BY <3>2, <3>4, <3>6
      <3> QED
        BY <3>1, <3>5, <3>6
    <2> QED
      BY <1>4, <1>7, <2>1, OtherStepFits DEF AllocateFd, r
  <1>8. CASE Reopen(p)
    <2>1. PICK q : Put(p, q) /\ (q.job # "file" \/ q.pc = "open")
      <3>1. Idle.job # "file"
        BY DEF Idle
      <3> QED
        BY <1>8, <3>1, OpenedIs DEF Reopen
    <2> QED
      BY <1>4, <1>8, <2>1, OtherStepFits DEF Reopen, r
  <1>9. CASE NotFound(p)
    <2>1. [r EXCEPT !.pc = "putmap", !.ec = "EOS_PNNF"].job = r.job
      BY <1>1 DEF Session
    <2> QED
      BY <1>4, <1>9, <2>1, OtherStepFits DEF NotFound, r
  <1>10. CASE Release(p)
    <2>1. PICK q : Put(p, Writing(q, fd[r.at], r.pos, 1)) /\ q \in Session /\ q.job = r.job
      <3>1. [r EXCEPT !.bitmap = @ \ Holds(r.new, fd[r.new])] \in Session
            /\ [r EXCEPT !.bitmap = @ \ Holds(r.new, fd[r.new])].job = r.job
        BY <1>1 DEF Session
      <3> QED
        BY <1>1, <1>10, <3>1 DEF Release, r
    <2>2. Writing(q, fd[r.at], r.pos, 1).job = r.job
      BY <2>1 DEF Writing, Session
    <2> QED
      BY <1>4, <1>10, <2>1, <2>2, OtherStepFits DEF Release, r
  <1> QED
    BY <1>6, <1>7, <1>8, <1>9, <1>10

(* The steps of a path open for a file.                                    *)
LEMMA FileStepFits ==
  ASSUME TypeOK, FitInv, lost # "files", fd' = fd, ent' = ent,
         NEW p \in Paths, NEW q, Put(p, q),
         q.pc # "idle" /\ q.job = s[p].job /\ q.at = s[p].at,
         q.job = "file" /\ q.pc \in {"extend", "putfd", "truncate"} => Proper(q.cur),
         q.job = "file" /\ q.pc = "putmap" => q.ec = "EIO" \/ (q.ec = "ok" /\ ~ CanCut(fd[q.at]))
  PROVE  FitInv'
  <1>1. KeepsOpen(s[p], q)
    BY DEF KeepsOpen
  <1>2. PathFits(q)
    BY DEF PathFits
  <1> QED
    BY <1>1, <1>2, QuietFits

LEMMA OpenPathFits ==
  ASSUME TypeOK, FitInv, lost # "files", OnePath, Good, NEW p \in Paths,
         \/ \E pos \in 0 .. MaxSize : Seek(p, pos)
         \/ \E k \in WriteSizes : Write(p, k)
         \/ Close(p)
  PROVE  FitInv'
  <1>1. PICK r : r = s[p]
    OBVIOUS
  <1>2. r \in Session /\ r.pc = "open" /\ fd' = fd /\ ent' = ent
    BY <1>1 DEF TypeOK, Seek, Write, Close, Called
  <1>3. r.job = "file" /\ r.at \in Files
    <2>1. PathInv(r)
      BY <1>1, <1>2, AtWork
    <2> QED
      BY <1>2, <2>1 DEF PathInv
  <1>4. Proper(fd[r.at])
    BY <1>3 DEF FitInv, FilesFit
  <1>5. ASSUME NEW pos, Seek(p, pos) PROVE FitInv'
    <2> DEFINE q == [r EXCEPT !.pos = pos]
    <2>1. q.pc = "open" /\ q.job = r.job /\ q.at = r.at
      BY <1>2 DEF Session
    <2>2. Put(p, q)
      BY <1>1, <1>5 DEF Seek
    <2> HIDE DEF q
    <2> QED
      BY <1>1, <1>2, <2>1, <2>2, FileStepFits
  <1>6. ASSUME NEW k \in WriteSizes, Write(p, k) PROVE FitInv'
    <2> DEFINE q == Writing(r, fd[r.at], r.pos, k)
    <2>1. q.pc = "extend" /\ q.job = r.job /\ q.at = r.at /\ q.cur = fd[r.at]
      BY <1>2 DEF Session, Writing
    <2>2. Put(p, q)
      BY <1>1, <1>6 DEF Write
    <2> HIDE DEF q
    <2> QED
      BY <1>1, <1>2, <1>4, <2>1, <2>2, FileStepFits
  <1>7. CASE Close(p)
    <2> DEFINE q == [r EXCEPT !.pc = IF fd[r.at].dir THEN "putmap" ELSE "truncate",
                              !.pos = 0, !.cur = fd[r.at], !.orig = fd[r.at]]
    <2>1. ~ fd[r.at].dir
      BY <1>4 DEF Proper
    <2>2. q.pc = "truncate" /\ q.job = r.job /\ q.at = r.at /\ q.cur = fd[r.at]
      BY <1>2, <2>1 DEF Session
    <2>3. Put(p, q)
      BY <1>1, <1>7 DEF Close
    <2> HIDE DEF q
    <2> QED
      BY <1>1, <1>2, <1>4, <2>2, <2>3, FileStepFits
  <1> QED
    BY <1>5, <1>6, <1>7

LEMMA ExtendFits ==
  ASSUME TypeOK, FitInv, lost # "files", NEW p \in Paths, ExtendLast(p) \/ NewSegment(p)
  PROVE  FitInv'
  <1>1. PICK r : r = s[p]
    OBVIOUS
  <1>2. r \in Session /\ r.pc = "extend" /\ fd' = fd /\ ent' = ent
    BY <1>1 DEF TypeOK, ExtendLast, NewSegment
  <1>3. /\ r.cur \in Fd /\ r.bitmap \in SUBSET Cluster /\ r.cur.seg \in Seq(Segment)
    BY <1>2 DEF Session, Fd
  <1>4. r.job = "file" => Proper(r.cur)
    BY <1>1, <1>2 DEF FitInv, PathFits
  <1>5. ASSUME NEW g \in Fd, NEW bm, Put(p, [r EXCEPT !.cur = g, !.bitmap = bm]),
               r.job = "file" => Proper(g)
        PROVE  FitInv'
    <2> DEFINE q == [r EXCEPT !.cur = g, !.bitmap = bm]
    <2>1. q.pc = "extend" /\ q.job = r.job /\ q.at = r.at /\ q.cur = g
      BY <1>2 DEF Session
    <2>2. Put(p, q)
      BY <1>5
    <2> HIDE DEF q
    <2> QED
      BY <1>1, <1>2, <1>5, <2>1, <2>2, FileStepFits
  <1>6. CASE ExtendLast(p)
    <2> DEFINE g == [r.cur EXCEPT !.seg = GrowLast(r.cur.seg)]
    <2>1. CanGrowLast(r.bitmap, r.cur.seg)
      BY <1>1, <1>6 DEF ExtendLast
    <2>2. GrowLast(r.cur.seg) \in Seq(Segment)
      BY <1>3, <2>1, GrowLastType
    <2>3. g \in Fd /\ g.seg = GrowLast(r.cur.seg) /\ g.siz = r.cur.siz /\ g.dir = r.cur.dir
      BY <1>3, <2>2 DEF Fd
    <2>4. Put(p, [r EXCEPT !.cur = g, !.bitmap = r.bitmap \cup {NextCluster(r.cur.seg)}])
      BY <1>1, <1>2, <1>6 DEF ExtendLast, Session
    <2> HIDE DEF g
    <2>5. r.job = "file" => Proper(g)
      BY <1>3, <1>4, <2>1, <2>3, GrowLastProper
    <2> QED
      BY <1>5, <2>3, <2>4, <2>5
  <1>7. CASE NewSegment(p)
    <2>1. PICK first \in Cluster, n \in 1 .. TotalClusters :
            /\ IsSasSegment(r.bitmap, ReqClusters, first, n)
            /\ Put(p, [r EXCEPT
                 !.cur.seg = Append(r.cur.seg, [start |-> first, n |-> n]),
                 !.bitmap = @ \cup (first .. (first + n - 1))])
      BY <1>1, <1>7 DEF NewSegment
    <2> DEFINE h == [start |-> first, n |-> n]
               g == [r.cur EXCEPT !.seg = Append(r.cur.seg, h)]
    <2>2. h \in Segment /\ h.start \div MapSector = (h.start + h.n - 1) \div MapSector
      BY <2>1 DEF Segment, IsSasSegment, FreeRun
    <2>3. Put(p, [r EXCEPT !.cur = g, !.bitmap = r.bitmap \cup (first .. (first + n - 1))])
      BY <1>2, <2>1 DEF Session
    <2> HIDE DEF h
    <2>4. g \in Fd /\ g.seg = Append(r.cur.seg, h) /\ g.siz = r.cur.siz /\ g.dir = r.cur.dir
      BY <1>3, <2>2, AppendProperties DEF Fd
    <2> HIDE DEF g
    <2>5. r.job = "file" => Proper(g)
      BY <1>3, <1>4, <2>2, <2>4, AppendProper
    <2> QED
      BY <1>5, <2>3, <2>4, <2>5
  <1> QED
    BY <1>6, <1>7

LEMMA FailedFits ==
  ASSUME TypeOK, FitInv, lost # "files", fd' = fd, ent' = ent,
         NEW p \in Paths, NEW r, r.pc # "idle", r.job = s[p].job, r.at = s[p].at,
         r \in Session, NEW bm, NEW e, Put(p, WriteFailed(r, bm, e))
  PROVE  FitInv'
  <1>1. PICK q : q = WriteFailed(r, bm, e)
    OBVIOUS
  <1>2. q.job = r.job /\ q.at = r.at
    BY <1>1 DEF Session, WriteFailed
  <1>3. q.pc \in {"open", "putmap"} /\ (r.job = "file" => q.pc = "open")
    BY <1>1 DEF Session, WriteFailed
  <1> QED
    BY <1>1, <1>2, <1>3, FileStepFits

LEMMA WriteFails ==
  ASSUME TypeOK, FitInv, lost # "files", NEW p \in Paths,
         \/ PutDataFails(p)
         \/ \E e \in {"EOS_DF", "EOS_SF"} : RollBack(p, e)
  PROVE  FitInv'
  <1>1. s[p] \in Session /\ s[p].pc = "extend" /\ fd' = fd /\ ent' = ent
    BY DEF TypeOK, PutDataFails, RollBack
  <1>2. ASSUME NEW e \in {"EOS_DF", "EOS_SF"}, RollBack(p, e) PROVE FitInv'
    BY <1>1, <1>2, FailedFits DEF RollBack
  <1>3. CASE PutDataFails(p)
    <2>1. PICK pos \in s[p].pos .. (s[p].goal - 1) :
            Put(p, WriteFailed([s[p] EXCEPT !.pos = pos], s[p].bitmap, "EIO"))
      BY <1>3 DEF PutDataFails
    <2>2. PICK r : r = [s[p] EXCEPT !.pos = pos]
      OBVIOUS
    <2>3. r \in Session /\ r.pc = "extend" /\ r.job = s[p].job /\ r.at = s[p].at
      <3>1. s[p].pos \in Nat /\ s[p].goal \in Nat
        BY <1>1 DEF Session
      <3> QED
        BY <1>1, <2>2, <3>1 DEF Session
    <2> QED
      BY <1>1, <2>1, <2>2, <2>3, FailedFits
  <1> QED
    BY <1>2, <1>3

LEMMA CutFits ==
  ASSUME TypeOK, FitInv, lost # "files", OnePath, Good, NEW p \in Paths, Cut(p)
  PROVE  FitInv'
  <1>1. PICK r : r = s[p]
    OBVIOUS
  <1>2. r \in Session /\ r.pc = "truncate" /\ CanCut(r.cur) /\ fd' = fd /\ ent' = ent
    BY <1>1 DEF TypeOK, Cut
  <1>3. r.cur \in Fd /\ r.cur.seg \in Seq(Segment)
    BY <1>2 DEF Session, Fd
  <1>4. r.job = "file" /\ Layout(r.at, r.cur)
    <2>1. PathInv(r)
      BY <1>1, <1>2, AtWork
    <2> QED
      BY <1>2, <2>1 DEF PathInv, AtTruncate
  <1>5. Proper(r.cur)
    BY <1>1, <1>2, <1>4 DEF FitInv, PathFits
  <1> DEFINE g == [r.cur EXCEPT !.seg = CutLast(r.cur.seg)]
             q == [r EXCEPT !.cur = g, !.bitmap = @ \ {LastCluster(r.cur.seg)}]
  <1>6. Put(p, q)
    BY <1>1, <1>2 DEF Cut, Session
  <1>7. q.pc = "truncate" /\ q.job = r.job /\ q.at = r.at /\ q.cur = g
    BY <1>2 DEF Session
  <1>8. g \in Fd /\ g.seg = CutLast(r.cur.seg) /\ g.siz = r.cur.siz /\ g.dir = r.cur.dir
    <2>1. CutLast(r.cur.seg) \in Seq(Segment)
      BY <1>2, <1>3, CutLastType DEF CanCut
    <2> QED
      BY <1>3, <2>1 DEF Fd
  <1> HIDE DEF g, q
  <1>9. Proper(g)
    BY <1>2, <1>3, <1>4, <1>5, <1>8, CutLastProper
  <1> QED
    BY <1>1, <1>2, <1>6, <1>7, <1>9, FileStepFits

(* A failed write of the bitmap or of the trimmed descriptor may cost      *)
(* files, so it promises nothing.                                          *)
LEMMA PutBitmapFits ==
  ASSUME TypeOK, FitInv, lost' # "files", lost # "files", NEW p \in Paths, PutBitmap(p)
  PROVE  FitInv'
  <1>1. PICK r : r = s[p]
    OBVIOUS
  <1>2. r \in Session /\ r.pc = "putmap" /\ fd' = fd /\ ent' = ent
    BY <1>1 DEF TypeOK, PutBitmap
  <1>3. PICK e : Return(p, r, e) /\ e \in {r.ec, "EIO"}
    BY <1>1 DEF PutBitmap
  <1>4. e # "EIO" /\ e = r.ec
    BY <1>3 DEF Return, Harm
  <1>5. r.job = "file" => ~ CanCut(fd[r.at])
    BY <1>1, <1>2, <1>4 DEF FitInv, PathFits
  <1>6. PICK q : Put(p, q) /\ q = After(r, e)
    BY <1>3 DEF Return
  <1>7. q.pc = "idle" \/ q.job # "file"
    BY <1>6 DEF After, Idle
  <1>8. KeepsOpen(s[p], q)
    BY <1>1, <1>5 DEF KeepsOpen
  <1> QED
    BY <1>2, <1>6, <1>7, <1>8, NotAFile, QuietFits

-----------------------------------------------------------------------------
(* Steps that write a descriptor or an entry                               *)

(* A path for a file that stays on it may give that file's descriptor a    *)
(* proper value.                                                           *)
LEMMA DescriptorFits ==
  ASSUME TypeOK, FitInv, lost # "files", ent' = ent, Sound,
         NEW p \in Paths, NEW q, Put(p, q),
         \A o \in Paths : o # p => s[o].pc = "idle",
         s[p].pc # "idle", s[p].job = "file", s[p].at \in Files,
         q.pc # "idle", q.job = "file", q.at = s[p].at,
         NEW f, fd' = [fd EXCEPT ![s[p].at] = f], Proper(f),
         q.pc \in {"extend", "putfd", "truncate"} => Proper(q.cur),
         q.pc = "putmap" => q.ec = "EIO" \/ (q.ec = "ok" /\ ~ CanCut(f))
  PROVE  FitInv'
  <1>1. s'[p] = q /\ \A o \in Paths : o # p => s'[o] = s[o]
    BY DEF Put, TypeOK
  <1>2. s[p].at # Root /\ s[p].at \in Cluster /\ Files \subseteq Cluster
    BY FilesAreLive, LiveType
  <1>3. fd'[s[p].at] = f /\ \A c \in Cluster : c # s[p].at => fd'[c] = fd[c]
    BY <1>2 DEF TypeOK
  <1>4. Files' = Files
    BY <1>2, <1>3, RootIsCluster, SameFiles
  <1>5. ASSUME NEW c \in Files PROVE Proper(fd'[c]) /\ (OpenOn(c)' \/ ~ CanCut(fd'[c]))
    <2>1. CASE c = s[p].at
      <3>1. OpenOn(c)'
        BY <1>1, <2>1 DEF OpenOn
      <3> QED
        BY <1>3, <2>1, <3>1
    <2>2. CASE c # s[p].at
      <3>1. fd'[c] = fd[c]
        BY <1>2, <1>3, <2>2
      <3>2. OpenOn(c) => OpenOn(c)'
        BY <1>1, <2>2 DEF OpenOn
      <3> QED
        BY <3>1, <3>2 DEF FitInv, FilesFit
    <2> QED
      BY <2>1, <2>2
  <1>6. FilesFit'
    BY <1>4, <1>5 DEF FilesFit, Proper
  <1>7. ASSUME NEW o \in Paths PROVE PathFits(s[o])'
    <2>1. CASE o = p
      BY <1>1, <1>3, <2>1 DEF PathFits, Proper
    <2>2. CASE o # p
      BY <1>1, <2>2 DEF PathFits
    <2> QED
      BY <2>1, <2>2
  <1> QED
    BY <1>6, <1>7 DEF FitInv

LEMMA SetSizeFits ==
  ASSUME TypeOK, FitInv, lost # "files", OnePath, Good,
         NEW p \in Paths, NEW siz \in 0 .. MaxSize, SetSize(p, siz)
  PROVE  FitInv'
  <1>1. PICK r : r = s[p]
    OBVIOUS
  <1>2. /\ r.pc = "open" /\ fd' = [fd EXCEPT ![r.at].siz = siz]
        /\ siz <= fd[r.at].siz \/ Growing
        /\ ent' = ent /\ s' = s
    BY <1>1 DEF SetSize, Called
  <1>3. Put(p, r)
    BY <1>1, <1>2 DEF Put, TypeOK
  <1>4. r.job = "file" /\ r.at \in Files /\ Sound /\ \A o \in Paths : o # p => s[o].pc = "idle"
    <2>1. PathInv(r) /\ Sound /\ \A o \in Paths : o # p => s[o].pc = "idle"
      BY <1>1, <1>2, AtWork
    <2> QED
      BY <1>2, <2>1 DEF PathInv
  <1>5. PICK f : f = [fd[r.at] EXCEPT !.siz = siz]
    OBVIOUS
  <1>6. fd[r.at] \in Fd /\ siz \in Nat
    BY <1>4, LiveType, RbfAssumption DEF Live
  <1>7. f \in Fd /\ f.seg = fd[r.at].seg /\ f.dir = fd[r.at].dir /\ f.siz = siz
    BY <1>5, <1>6 DEF Fd
  <1>8. Proper(fd[r.at])
    BY <1>4 DEF FitInv, FilesFit
  <1>9. siz <= fd[r.at].siz => (Fits(fd[r.at]) => Fits(f))
    <2>1. fd[r.at].siz \in Nat /\ MaxSectors(f.seg) \in Int
      BY <1>6, <1>7, ProperType
    <2>2. siz <= fd[r.at].siz =>
            /\ SectorsNeeded(siz) \in Int /\ SectorsNeeded(fd[r.at].siz) \in Int
            /\ SectorsNeeded(siz) <= SectorsNeeded(fd[r.at].siz)
      BY <1>6, <2>1, NeededMono
    <2> QED
      BY <1>7, <2>1, <2>2 DEF Fits
  <1>10. Proper(f)
    BY <1>2, <1>7, <1>8, <1>9 DEF Proper
  <1>11. fd' = [fd EXCEPT ![r.at] = f]
    BY <1>2, <1>5
  <1> QED
    BY <1>1, <1>2, <1>3, <1>4, <1>10, <1>11, DescriptorFits

(* The data of a file is written: its size is now within its segments.     *)
LEMMA PutFileDataFits ==
  ASSUME TypeOK, FitInv, lost # "files", NEW p \in Paths, PutData(p), s[p].job = "file"
  PROVE  FitInv'
  <1>1. PICK r : r = s[p]
    OBVIOUS
  <1>2. r \in Session /\ r.pc = "extend" /\ ~ NeedsRoom(r) /\ fd' = fd /\ ent' = ent
    BY <1>1 DEF TypeOK, PutData, Stored
  <1>3. r.cur \in Fd /\ r.goal \in Nat
    BY <1>2 DEF Session
  <1>4. Proper(r.cur)
    BY <1>1, <1>2 DEF FitInv, PathFits
  <1> DEFINE z == IF r.goal > r.cur.siz THEN r.goal ELSE r.cur.siz
             g == [r.cur EXCEPT !.siz = z]
             q == [r EXCEPT !.pc = "putfd", !.pos = r.goal, !.cur = g]
  <1>5. Put(p, q)
    BY <1>1, <1>2 DEF PutData, Session
  <1>6. q.pc = "putfd" /\ q.job = r.job /\ q.at = r.at /\ q.cur = g
    BY <1>2 DEF Session
  <1>7. g.seg = r.cur.seg /\ g.dir = r.cur.dir /\ g.siz = z
    BY <1>3 DEF Fd
  <1>8. MaxSectors(r.cur.seg) \in Int
    BY <1>3, ProperType
  <1>9. r.goal <= MaxSectors(r.cur.seg) * Bps
    <2>1. MaxSectors(r.cur.seg) * Bps \in Int
      BY <1>8, FdAssumption
    <2> QED
      BY <1>2, <1>3, <2>1 DEF NeedsRoom
  <1>10. SectorsNeeded(r.goal) <= MaxSectors(r.cur.seg)
    BY <1>3, <1>8, <1>9, NeededAre
  <1> HIDE DEF g, q
  <1>11. Proper(g)
    BY <1>4, <1>7, <1>10 DEF Proper, Fits
  <1> QED
    BY <1>1, <1>2, <1>5, <1>6, <1>11, FileStepFits

LEMMA PutFileFdFits ==
  ASSUME TypeOK, FitInv, lost # "files", OnePath, Good, NEW p \in Paths, PutFd(p),
         s[p].job = "file"
  PROVE  FitInv'
  <1>1. PICK r : r = s[p]
    OBVIOUS
  <1>2. r \in Session /\ r.pc = "putfd" /\ r.job = "file" /\ ent' = ent
    BY <1>1 DEF TypeOK, PutFd
  <1>3. /\ r.at \in Files /\ Sound
        /\ \A o \in Paths : o # p => s[o].pc = "idle"
    <2>1. PathInv(r) /\ Sound /\ \A o \in Paths : o # p => s[o].pc = "idle"
      BY <1>1, <1>2, AtWork
    <2> QED
      BY <1>2, <2>1 DEF PathInv, AtPutFd, Extending, Live
  <1>4. Proper(r.cur)
    BY <1>1, <1>2 DEF FitInv, PathFits
  <1>5. CASE fd' = [fd EXCEPT ![r.at] = r.cur]
    <2>1. PICK q : /\ Put(p, q)
                   /\ \/ q = [r EXCEPT !.pc = IF r.job = "file" THEN "open" ELSE "putmap",
                                       !.goal = 0, !.cur = NoFd, !.orig = NoFd]
                      \/ q = WriteFailed(r, r.bitmap, "EIO")
      BY <1>1 DEF PutFd
    <2>2. q.pc = "open" /\ q.job = r.job /\ q.at = r.at
      BY <1>2, <2>1 DEF Session, WriteFailed
    <2> QED
      BY <1>1, <1>2, <1>3, <1>4, <1>5, <2>1, <2>2, DescriptorFits
  <1>6. CASE fd' = fd /\ Put(p, WriteFailed(r, r.bitmap, "EIO"))
    BY <1>1, <1>2, <1>6, FailedFits
  <1> QED
    BY <1>1, <1>5, <1>6 DEF PutFd

LEMMA PutCutFits ==
  ASSUME TypeOK, FitInv, lost # "files", OnePath, Good, NEW p \in Paths, PutCut(p)
  PROVE  FitInv'
  <1>1. PICK r : r = s[p]
    OBVIOUS
  <1>2. r \in Session /\ r.pc = "truncate" /\ ~ CanCut(r.cur) /\ ent' = ent
    BY <1>1 DEF TypeOK, PutCut
  <1>3. /\ r.job = "file" /\ r.at \in Files /\ Sound /\ r.orig = fd[r.at] /\ r.ec = "ok"
        /\ \A o \in Paths : o # p => s[o].pc = "idle"
    <2>1. PathInv(r) /\ Sound /\ \A o \in Paths : o # p => s[o].pc = "idle"
      BY <1>1, <1>2, AtWork
    <2> QED
      BY <1>2, <2>1 DEF PathInv, AtTruncate
  <1>4. Proper(r.cur)
    BY <1>1, <1>2, <1>3 DEF FitInv, PathFits
  <1>5. CASE /\ fd' = IF r.cur = r.orig THEN fd ELSE [fd EXCEPT ![r.at] = r.cur]
             /\ Put(p, [r EXCEPT !.pc = "putmap", !.cur = NoFd, !.orig = NoFd])
    <2>1. PICK q : q = [r EXCEPT !.pc = "putmap", !.cur = NoFd, !.orig = NoFd]
      OBVIOUS
    <2>2. q.pc = "putmap" /\ q.job = r.job /\ q.at = r.at /\ q.ec = "ok"
      BY <1>2, <1>3, <2>1 DEF Session
    <2>3. fd' = [fd EXCEPT ![r.at] = r.cur]
      <3>1. r.at \in Cluster
        BY <1>2 DEF Session
      <3> QED
        BY <1>3, <1>5, <3>1 DEF TypeOK
    <2>4. Put(p, q)
      BY <1>5, <2>1
    <2> QED
      BY <1>1, <1>2, <1>3, <1>4, <2>2, <2>3, <2>4, DescriptorFits
  <1>6. CASE fd' = fd /\ Put(p, [r EXCEPT !.pc = "putmap", !.cur = NoFd, !.orig = NoFd,
                                          !.ec = "EIO"])
    <2>1. PICK q : q = [r EXCEPT !.pc = "putmap", !.cur = NoFd, !.orig = NoFd, !.ec = "EIO"]
      OBVIOUS
    <2>2. q.pc = "putmap" /\ q.job = r.job /\ q.at = r.at /\ q.ec = "EIO"
      BY <1>2, <2>1 DEF Session
    <2> QED
      BY <1>1, <1>2, <1>6, <2>1, <2>2, FileStepFits
  <1> QED
    BY <1>1, <1>5, <1>6 DEF PutCut

(* A call on the directory may change a file's link count and add a new    *)
(* file.                                                                   *)
LEMMA DirectoryFits ==
  ASSUME TypeOK, FitInv, lost # "files", NEW p \in Paths, NEW q, Put(p, q),
         \A o \in Paths : o # p => s[o].pc = "idle",
         s[p].job # "file", q.job # "file",
         \A c \in Files' :
           \/ /\ c \in Files
              /\ fd'[c].seg = fd[c].seg /\ fd'[c].siz = fd[c].siz /\ fd'[c].dir = fd[c].dir
           \/ fd'[c] = NewFd(c) /\ c \in Cluster
  PROVE  FitInv'
  <1>1. s'[p] = q /\ \A o \in Paths : o # p => s'[o] = s[o]
    BY DEF Put, TypeOK
  <1>2. \A c : ~ OpenOn(c)
    BY DEF OpenOn
  <1>3. ASSUME NEW c \in Files' PROVE Proper(fd'[c]) /\ ~ CanCut(fd'[c])
    <2>1. CASE fd'[c] = NewFd(c) /\ c \in Cluster
      BY <2>1, NewFdProper
    <2>2. CASE /\ c \in Files
               /\ fd'[c].seg = fd[c].seg /\ fd'[c].siz = fd[c].siz /\ fd'[c].dir = fd[c].dir
      <3>1. Proper(fd[c]) /\ ~ CanCut(fd[c])
        BY <1>2, <2>2 DEF FitInv, FilesFit
      <3> QED
        BY <2>2, <3>1 DEF Proper, Fits, CanCut
    <2> QED
      BY <2>1, <2>2
  <1>4. FilesFit'
    <2>1. \A c \in Files' : Proper(fd'[c]) /\ (OpenOn(c)' \/ ~ CanCut(fd'[c]))
      BY <1>3
    <2> QED
      BY <2>1 DEF FilesFit, Proper
  <1>5. ASSUME NEW o \in Paths PROVE PathFits(s[o])'
    BY <1>1 DEF PathFits
  <1> QED
    BY <1>4, <1>5 DEF FitInv

LEMMA UnlinkFits ==
  ASSUME TypeOK, FitInv, lost # "files", OnePath, Good, NEW p \in Paths, Unlink(p)
  PROVE  FitInv'
  <1>1. PICK r : r = s[p]
    OBVIOUS
  <1>2. r \in Session /\ r.pc = "unlink" /\ ent' = ent
    BY <1>1 DEF TypeOK, Unlink
  <1>3. r.job # "file" /\ \A o \in Paths : o # p => s[o].pc = "idle"
    <2>1. PathInv(r) /\ \A o \in Paths : o # p => s[o].pc = "idle"
      BY <1>1, <1>2, AtWork
    <2> QED
      BY <1>2, <2>1 DEF PathInv
  <1>4. PICK i \in Slots :
          \/ /\ fd' = [fd EXCEPT ![ent[i].at].lnk = (@ + 255) % 256]
             /\ Put(p, [r EXCEPT !.pc = "release", !.new = ent[i].at, !.pos = i - 1,
                                 !.entry = [name |-> NoName, at |-> ent[i].at]])
          \/ fd' = fd /\ Put(p, [r EXCEPT !.pc = "putmap", !.ec = "EIO"])
    BY <1>1 DEF Unlink
  <1>5. PICK q : Put(p, q) /\ q.job = r.job
    <2>1. [r EXCEPT !.pc = "release", !.new = ent[i].at, !.pos = i - 1,
                    !.entry = [name |-> NoName, at |-> ent[i].at]].job = r.job
      BY <1>2 DEF Session
    <2>2. [r EXCEPT !.pc = "putmap", !.ec = "EIO"].job = r.job
      BY <1>2 DEF Session
    <2> QED
      BY <1>4, <2>1, <2>2
  <1>6. \A c \in Cluster :
          fd'[c].seg = fd[c].seg /\ fd'[c].siz = fd[c].siz /\ fd'[c].dir = fd[c].dir
    <2>1. CASE fd' = fd
      BY <2>1
    <2>2. CASE fd' = [fd EXCEPT ![ent[i].at].lnk = (@ + 255) % 256]
      <3>1. ent[i].at \in Cluster /\ fd[ent[i].at] \in Fd
        BY EntryType DEF TypeOK
      <3>2. PICK f : f = [fd[ent[i].at] EXCEPT !.lnk = (@ + 255) % 256]
        OBVIOUS
      <3>3. f.seg = fd[ent[i].at].seg /\ f.siz = fd[ent[i].at].siz /\ f.dir = fd[ent[i].at].dir
        BY <3>1, <3>2 DEF Fd
      <3>4. fd' = [fd EXCEPT ![ent[i].at] = f]
        BY <2>2, <3>2
      <3> QED
        BY <3>1, <3>3, <3>4 DEF TypeOK
    <2> QED
      BY <1>4, <2>1, <2>2
  <1>7. Files' = Files /\ Files \subseteq Cluster
    BY <1>2, <1>6, RootIsCluster, LiveType, SameFiles
  <1> QED
    BY <1>1, <1>3, <1>5, <1>6, <1>7, DirectoryFits

LEMMA PutNewFdFits ==
  ASSUME TypeOK, FitInv, lost # "files", OnePath, Good, NEW p \in Paths, PutNewFd(p)
  PROVE  FitInv'
  <1>1. PICK r : r = s[p]
    OBVIOUS
  <1>2. r \in Session /\ r.pc = "newfd" /\ ent' = ent /\ r.new \in Cluster
    BY <1>1 DEF TypeOK, PutNewFd, Session
  <1>3. /\ r.job = "create" /\ r.new \notin Live
        /\ \A o \in Paths : o # p => s[o].pc = "idle"
    <2>1. PathInv(r) /\ \A o \in Paths : o # p => s[o].pc = "idle"
      BY <1>1, <1>2, AtWork
    <2>2. r.job = "create" /\ r.new \notin InUse
      BY <1>2, <2>1 DEF PathInv
    <2> QED
      BY <2>1, <2>2, InUseOf
  <1>4. PICK q : Put(p, q) /\ q.job = r.job
    <2>1. \A i : Writing(r, fd[r.at], i, 1).job = r.job
      BY <1>2 DEF Session, Writing
    <2>2. [r EXCEPT !.pc = "putmap", !.ec = "EIO", !.bitmap = @ \ {r.new}].job = r.job
      BY <1>2 DEF Session
    <2> QED
      BY <1>1, <2>1, <2>2 DEF PutNewFd
  <1>5. \A c \in Live : fd'[c] = fd[c]
    BY <1>1, <1>3, LiveType DEF PutNewFd, TypeOK
  <1>6. Files' = Files /\ Files \subseteq Live
    BY <1>2, <1>5, LiveType, SameFiles DEF Live
  <1> QED
    BY <1>1, <1>3, <1>4, <1>5, <1>6, DirectoryFits

(* An entry is written: the file it names is new, or was there before.     *)
LEMMA PutEntryFits ==
  ASSUME TypeOK, FitInv, lost # "files", OnePath, Good, NEW p \in Paths, PutData(p),
         s[p].job # "file"
  PROVE  FitInv'
  <1>1. PICK r : r = s[p]
    OBVIOUS
  <1>2. r \in Session /\ r.pc = "extend" /\ fd' = fd /\ ent' = Stored(r) /\ r.job # "file"
    BY <1>1 DEF TypeOK, PutData
  <1>3. /\ AtExtend(r) /\ Sound /\ r.job # "none" /\ r.new \in Cluster
        /\ \A o \in Paths : o # p => s[o].pc = "idle"
    <2>1. PathInv(r) /\ Sound /\ \A o \in Paths : o # p => s[o].pc = "idle"
      BY <1>1, <1>2, AtWork
    <2> QED
      BY <1>2, <2>1 DEF PathInv, Session
  <1>4. PICK q : Put(p, q) /\ q.job = r.job
    <2>1. [r EXCEPT !.pc = "putfd", !.pos = r.goal,
                    !.cur.siz = IF r.goal > @ THEN r.goal ELSE @].job = r.job
      BY <1>2 DEF Session
    <2> QED
      BY <1>1, <2>1 DEF PutData
  <1>5. r.entry.name \in Names =>
          \/ r.entry.at \in Files
          \/ r.entry.at = r.new /\ fd[r.new] = NewFd(r.new)
    <2>1. CASE r.job = "create"
      BY <1>3, <2>1 DEF AtExtend, FreshFd
    <2>2. CASE r.job = "rename"
      BY <1>3, <2>2 DEF AtExtend, OldEntry, Files
    <2>3. CASE r.job \in {"delete", "recreate"}
      BY <1>3, <2>3, RbfAssumption DEF AtExtend
    <2> QED
      BY <1>2, <1>3, <2>1, <2>2, <2>3 DEF Session
  <1>6. r.pos <= Len(ent)
    <2>1. fd[Root].siz <= Len(ent) /\ fd[Root].siz \in Nat /\ Len(ent) \in Nat /\ r.pos \in Nat
      <3>1. fd[Root] \in Fd /\ Root \in Live
        BY LiveType
      <3>2. fd[Root].siz \in Nat
        BY <3>1 DEF Fd
      <3>3. Len(ent) \in Nat /\ r.pos \in Nat
        BY <1>2 DEF TypeOK, Session
      <3> QED
        BY <1>3, <3>2, <3>3 DEF Sound
    <2>2. CASE r.job = "create"
      BY <1>3, <2>1, <2>2 DEF AtExtend
    <2>3. CASE r.job \in {"rename", "delete", "recreate"}
      <3>1. r.pos + 1 \in DOMAIN ent
        BY <1>3, <2>3 DEF AtExtend, OldEntry, Named, Slots
      <3> QED
        BY <2>1, <3>1 DEF TypeOK
    <2> QED
      BY <1>2, <1>3, <2>2, <2>3 DEF Session
  <1>7. /\ DOMAIN ent' = DOMAIN ent \cup {r.pos + 1}
        /\ ent'[r.pos + 1] = r.entry
        /\ \A i \in DOMAIN ent : i # r.pos + 1 => ent'[i] = ent[i]
    BY <1>2, <1>6, StoredAt
  <1>8. ASSUME NEW c \in Files'
        PROVE  c \in Files \/ (fd'[c] = NewFd(c) /\ c \in Cluster)
    <2>1. PICK i \in Named' : c = ent'[i].at
      BY DEF Files
    <2>2. i \in DOMAIN ent' /\ i <= fd[Root].siz /\ ent'[i].name \in Names
      BY <1>2 DEF Named, Slots
    <2>3. CASE i = r.pos + 1
      BY <1>2, <1>3, <1>5, <1>7, <2>1, <2>2, <2>3
    <2>4. CASE i # r.pos + 1
      <3>1. i \in Named /\ ent'[i] = ent[i]
        BY <1>7, <2>2, <2>4 DEF Named, Slots
      <3> QED
        BY <2>1, <3>1 DEF Files
    <2> QED
      BY <2>3, <2>4
  <1> QED
    BY <1>1, <1>2, <1>3, <1>4, <1>8, DirectoryFits

(* The directory's descriptor is written, and its size may take in the     *)
(* entry of a new file.                                                    *)
LEMMA PutDirFdFits ==
  ASSUME TypeOK, FitInv, lost # "files", OnePath, Good, NEW p \in Paths, PutFd(p),
         s[p].job # "file"
  PROVE  FitInv'
  <1>1. PICK r : r = s[p]
    OBVIOUS
  <1>2. r \in Session /\ r.pc = "putfd" /\ ent' = ent /\ r.job # "file" /\ r.new \in Cluster
    BY <1>1 DEF TypeOK, PutFd, Session
  <1>3. /\ AtPutFd(r) /\ Sound /\ r.job # "none" /\ r.at = Root
        /\ \A o \in Paths : o # p => s[o].pc = "idle"
    <2>1. PathInv(r) /\ Sound /\ \A o \in Paths : o # p => s[o].pc = "idle"
      BY <1>1, <1>2, AtWork
    <2> QED
      BY <1>2, <2>1 DEF PathInv, AtPutFd
  <1>4. PICK q : Put(p, q) /\ q.job = r.job
    <2>1. [r EXCEPT !.pc = IF r.job = "file" THEN "open" ELSE "putmap",
                    !.goal = 0, !.cur = NoFd, !.orig = NoFd].job = r.job
      BY <1>2 DEF Session
    <2>2. WriteFailed(r, r.bitmap, "EIO").job = r.job
      BY <1>2 DEF Session, WriteFailed
    <2> QED
      BY <1>1, <2>1, <2>2 DEF PutFd
  <1>5. /\ \A c \in Cluster : c # Root => fd'[c] = fd[c]
        /\ fd'[Root] = fd[Root] \/ fd'[Root] = r.cur
    <2>1. fd' = fd \/ fd' = [fd EXCEPT ![Root] = r.cur]
      BY <1>1, <1>3 DEF PutFd
    <2> QED
      BY <2>1, RootIsCluster DEF TypeOK
  <1>6. Root \notin Files /\ Files \subseteq Cluster
    BY <1>3, FilesAreLive, LiveType
  <1>7. CASE fd'[Root].siz = fd[Root].siz
    BY <1>1, <1>2, <1>3, <1>4, <1>5, <1>6, <1>7, SameFiles, DirectoryFits
  <1>8. CASE fd'[Root].siz # fd[Root].siz
    <2>1. r.job = "create" /\ fd'[Root] = r.cur /\ r.cur.siz = r.goal
          /\ r.goal = fd[Root].siz + 1
      <3>1. r.cur # r.orig /\ r.orig = fd[Root] /\ fd'[Root] = r.cur
        BY <1>3, <1>5, <1>8 DEF AtPutFd, Extending
      <3> QED
        BY <1>2, <1>3, <3>1 DEF AtPutFd, Session
    <2>2. ent[r.goal] = r.entry /\ FreshFd(r)
      BY <1>3, <2>1 DEF AtPutFd
    <2>3. r.entry.at = r.new /\ fd[r.new] = NewFd(r.new) /\ r.new # Root
      BY <2>2 DEF FreshFd, Holds
    <2>4. fd[Root].siz \in Nat
      BY LiveType DEF Fd
    <2>5. ASSUME NEW c \in Files'
          PROVE  c \in Files \/ (fd'[c] = NewFd(c) /\ c \in Cluster)
      <3>1. PICK i \in Named' : c = ent[i].at
        BY <1>2 DEF Files
      <3>2. i \in DOMAIN ent /\ i <= fd[Root].siz + 1 /\ ent[i].name \in Names
        BY <1>2, <2>1, <3>1 DEF Named, Slots
      <3>3. CASE i = r.goal
        BY <1>2, <1>5, <2>2, <2>3, <3>1, <3>3
      <3>4. CASE i # r.goal
        <4>1. i \in Nat
          BY <3>2 DEF TypeOK
        <4>2. i \in Named
          BY <2>1, <2>4, <3>2, <3>4, <4>1 DEF Named, Slots
        <4> QED
          BY <3>1, <4>2 DEF Files
      <3> QED
        BY <3>3, <3>4
    <2>6. \A c \in Files : fd'[c] = fd[c]
      BY <1>5, <1>6
    <2> QED
      BY <1>1, <1>2, <1>3, <1>4, <2>5, <2>6, DirectoryFits
  <1> QED
    BY <1>7, <1>8

(* The end of the process, while a file is removed or renamed, finds no    *)
(* file open.                                                              *)
LEMMA CrashFits ==
  ASSUME FitInv, lost # "files", lost' # "files", Crash
  PROVE  FitInv'
  <1>1. fd' = fd /\ ent' = ent /\ \A p \in Paths : s'[p] = Idle
    BY DEF Crash
  <1>2. \A p \in Paths : s[p].job # "file"
    BY DEF Crash, Harm, Removing
  <1>3. Files' = Files
    BY <1>1, SameFiles
  <1>4. \A c : ~ OpenOn(c)
    BY <1>2 DEF OpenOn
  <1>5. FilesFit'
    BY <1>1, <1>3, <1>4 DEF FitInv, FilesFit
  <1>6. \A p \in Paths : PathFits(s[p])'
    BY <1>1 DEF PathFits, Idle
  <1> QED
    BY <1>5, <1>6 DEF FitInv

-----------------------------------------------------------------------------
(* The theorems                                                            *)

LEMMA InitFits == Init => FitInv
  <1> SUFFICES ASSUME Init PROVE FitInv
    OBVIOUS
  <1>1. Files = {}
    <2>1. \A i \in Slots : ent[i].name = Dot
      BY DEF Init, Slots, DotEntry
    <2> QED
      BY <2>1, RbfAssumption DEF Named, Files
  <1>2. \A p \in Paths : PathFits(s[p])
    BY DEF Init, PathFits, Idle
  <1> QED
    BY <1>1, <1>2 DEF FitInv, FilesFit

LEMMA StutterFits ==
  ASSUME FitInv, UNCHANGED vars
  PROVE  FitInv'
  <1>1. fd' = fd /\ ent' = ent /\ s' = s /\ lost' = lost
    BY DEF vars
  <1>2. Files' = Files
    BY <1>1, SameFiles
  <1> QED
    BY <1>1, <1>2 DEF FitInv, FilesFit, OpenOn, PathFits

LEMMA FitNext ==
  ASSUME TypeOK, Inv, FitInv, [Next]_vars
  PROVE  FitInv'
  <1>1. SUFFICES ASSUME lost # "files", lost' # "files" PROVE FitInv'
    BY LostForGood DEF FitInv
  <1>2. OnePath /\ Good
    BY <1>1 DEF Inv
  <1>3. CASE UNCHANGED vars
    BY <1>3, StutterFits
  <1>4. CASE Crash
    BY <1>1, <1>4, CrashFits
  <1>5. ASSUME NEW p \in Paths, Request(p) PROVE FitInv'
    <2>1. ASSUME NEW siz \in 0 .. MaxSize, SetSize(p, siz) PROVE FitInv'
      BY <1>1, <1>2, <2>1, SetSizeFits
    <2> QED
      BY <1>1, <1>2, <1>5, <2>1, CallFits, OpenPathFits DEF Request
  <1>6. ASSUME NEW p \in Paths, Step(p) PROVE FitInv'
    <2>1. CASE PutData(p)
      BY <1>1, <1>2, <2>1, PutFileDataFits, PutEntryFits
    <2>2. CASE PutFd(p)
      BY <1>1, <1>2, <2>2, PutFileFdFits, PutDirFdFits
    <2> QED
      BY <1>1, <1>2, <1>6, <2>1, <2>2, DirectoryStepFits, PutNewFdFits, UnlinkFits,
         ExtendFits, WriteFails, CutFits, PutCutFits, PutBitmapFits DEF Step
  <1> QED
    BY <1>3, <1>4, <1>5, <1>6 DEF Next

(* The invariant about sizes and segments, by the one about clusters.      *)
THEOREM FitHolds == ASSUME Exclusive PROVE Spec => []FitInv
  <1>1. Init => FitInv
    BY InitFits
  <1>2. TypeOK /\ Inv /\ FitInv /\ [Next]_vars => FitInv'
    BY FitNext
  <1>3. Spec => []TypeOK
    BY TypeCorrect
  <1>4. Spec => []Inv
    BY InvariantHolds
  <1> QED
    BY <1>1, <1>2, <1>3, <1>4, PTL DEF Spec

(* No segment of a file crosses into another sector of the bitmap: neither *)
(* the search of a write (_os9_getSASSegment) nor the growth of the last   *)
(* segment makes one that does, on any disk and with any size of request.  *)
THEOREM OneMapSectorEach == ASSUME Exclusive PROVE Spec => []SegmentsInOneMapSector
  <1>1. FitInv => SegmentsInOneMapSector
    BY DEF FitInv, FilesFit, Proper, OneMapSector, SegmentsInOneMapSector
  <1> QED
    BY <1>1, FitHolds, PTL

(* The segments of a file, and of the directory, hold its size at every    *)
(* step, and a closed file keeps no cluster that its size does not need:   *)
(* as long as nobody asks _os9_ss_size for more than a file's size.        *)
THEOREM SizesMatch == ASSUME Exclusive, ~ Growing PROVE Spec => []SizeMatchesSegments
  <1>1. ASSUME TypeOK, Inv, FitInv PROVE SizeMatchesSegments
    <2> SUFFICES ASSUME lost # "files" PROVE SizeMatchesSegments
      BY DEF SizeMatchesSegments
    <2>1. Sound /\ FilesFit
      BY <1>1 DEF Inv, Good, FitInv
    <2>2. SectorsNeeded(fd[Root].siz) <= MaxSectors(fd[Root].seg)
      <3>1. fd[Root] \in Fd
        BY <1>1, LiveType
      <3>2. fd[Root].siz \in Nat /\ MaxSectors(fd[Root].seg) \in Int
        BY <3>1, ProperType
      <3> QED
        BY <2>1, <3>2, NeededAre DEF Sound
    <2>3. \A c \in Files : SectorsNeeded(fd[c].siz) <= MaxSectors(fd[c].seg)
      BY <2>1 DEF FilesFit, Proper, Fits
    <2>4. ASSUME AtRest, NEW c \in Files PROVE ~ CanCut(fd[c])
      BY <2>1, <2>4 DEF FilesFit, OpenOn, AtRest
    <2> QED
      BY <2>2, <2>3, <2>4 DEF SizeMatchesSegments, Live
  <1> QED
    BY <1>1, FitHolds, InvariantHolds, TypeCorrect, PTL
=============================================================================

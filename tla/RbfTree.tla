------------------------------- MODULE RbfTree -------------------------------
(***************************************************************************)
(* The tree of directories of an OS-9 disk: making and removing files and  *)
(* directories by pathname, and _os9_delete_directory, which deletes a     *)
(* tree by calls of its own on one pathname after another.                 *)
(*                                                                         *)
(* A call of the library is one step, except _os9_delete_directory: it is  *)
(* one step per call it makes, and the process may end between two.  What  *)
(* a call does in steps of its own, and its failing writes, are in Rbf.    *)
(***************************************************************************)
EXTENDS Integers, FiniteSets, FiniteSetsExt, SequencesExt

CONSTANTS
  Clusters,    \* clusters of the disk, of one sector
  PerCluster,  \* directory entries in one (8)
  Names,       \* of files and directories
  NoName,      \* of a deleted entry
  Self, Up,    \* the names "." and ".."
  MaxDepth,    \* Bound: names in a pathname
  Attributes   \* sets of "read" and "write" an owner may have; both by default

Owner == {"read", "write"}

ASSUME TreeAssumption ==
  /\ Clusters \in Nat /\ Clusters > 3 /\ PerCluster \in Nat \ {0} /\ MaxDepth \in Nat
  /\ Owner \in Attributes /\ Attributes \subseteq SUBSET Owner
  /\ NoName # Self /\ NoName # Up /\ Self # Up /\ Names \cap {NoName, Self, Up} = {}

VARIABLES
  used,  \* the clusters the bitmap has marked
  node,  \* node[c]: the descriptor in cluster c, and the entries of its data
  del,   \* the calls of _os9_delete_directory that wait for each other, the
         \* innermost last: its pathname, entries read, what it does next
  ec     \* what the last of them returned, or "running"

vars == << used, node, del, ec >>

Cluster == 0 .. (Clusters - 1)

Root == 2
System == 0 .. (Root - 1)

Entry == [name : Names \cup {NoName, Self, Up}, at : Cluster]

NoNode == [dir |-> FALSE, att |-> {}, data |-> {}, ent |-> << >>]

RootNode ==
  [dir |-> TRUE, att |-> Owner, data |-> {Root + 1},
   ent |-> << [name |-> Up, at |-> Root], [name |-> Self, at |-> Root] >>]

Init ==
  /\ used = System \cup {Root, Root + 1}
  /\ node = [c \in Cluster |-> IF c = Root THEN RootNode ELSE NoNode]
  /\ del = << >>
  /\ ec = "ok"

-----------------------------------------------------------------------------
(* _os9_open: the pathname is walked entry by entry from the root, and only *)
(* the last descriptor's attributes are checked.                            *)

Find(dir, name) ==
  LET i == SelectInSeq(node[dir].ent, LAMBDA e : e.name = name) IN
  IF i = 0 THEN {} ELSE {node[dir].ent[i].at}

(* The one descriptor a pathname leads to, or none. *)
Walk(path) ==
  LET at[i \in 0 .. Len(path)] ==
        IF i = 0 THEN {Root} ELSE UNION { Find(c, path[i]) : c \in at[i - 1] }
  IN at[Len(path)]

Exists(path) == Walk(path) # {}

At(path) == CHOOSE c \in Walk(path) : TRUE

Opens(path, dir, mode) ==
  \E c \in Walk(path) : node[c].dir = dir /\ mode \subseteq node[c].att

Parent(path) == Append(Front(path), Self)

Path(depth) == UNION { [1 .. d -> Names] : d \in 1 .. depth }

-----------------------------------------------------------------------------
(* _os9_create: the new node's cluster, then its entry in the first deleted *)
(* one's place, or else at the end, in a new cluster if the last is full.   *)

FreeClusters == Cluster \ used

Deleted(dir) == SelectInSeq(node[dir].ent, LAMBDA e : e.name = NoName)

Grows(dir) == Deleted(dir) = 0 /\ Len(node[dir].ent) % PerCluster = 0

Entered(dir, e) ==
  LET ent == node[dir].ent IN
  IF Deleted(dir) = 0 THEN Append(ent, e) ELSE [ent EXCEPT ![Deleted(dir)] = e]

(* The lowest k free clusters, which is the order they are taken in. *)
Lowest(k) ==
  CHOOSE S \in kSubset(k, FreeClusters) : \A c \in S, x \in FreeClusters \ S : c < x

(* The node and the directory after a create; the node then takes what is  *)
(* left of its data.                                                        *)
Create(path, new, wants) ==
  LET dir == At(Parent(path))
      need == IF Grows(dir) THEN 2 ELSE 1
      data == IF Cardinality(FreeClusters) - need < wants THEN 0 ELSE wants
      at == Min(FreeClusters)
      taken == Lowest(need + data)
      grown == IF Grows(dir) THEN {Min(FreeClusters \ {at})} ELSE {}
      filled == [new EXCEPT !.data = taken \ ({at} \cup grown),
                            !.ent = IF new.dir /\ data # 0
                                      THEN << [name |-> Up, at |-> dir],
                                              [name |-> Self, at |-> at] >>
                                      ELSE << >>]
  IN
  /\ del = << >>
  /\ Opens(Parent(path), TRUE, {"write"})
  /\ ~ Exists(path)
  /\ need <= Cardinality(FreeClusters)
  /\ used' = used \cup taken
  /\ node' = [node EXCEPT
       ![dir].ent = Entered(dir, [name |-> Last(path), at |-> at]),
       ![dir].data = @ \cup grown,
       ![at] = filled]
  /\ UNCHANGED << del, ec >>

(* A file of no cluster or of one.  When the disk is full it stays empty.  *)
MakeFile(path) ==
  \E size \in {0, 1} :
    Create(path, [dir |-> FALSE, att |-> Owner, data |-> {}, ent |-> << >>], size)

(* _os9_makdir.  When the disk is full after its create, the directory     *)
(* stays without the entries "." and "..".                                 *)
MakeDir(path) ==
  Create(path, [dir |-> TRUE, att |-> Owner, data |-> {}, ent |-> << >>], 1)

Rename(path, name) ==
  LET dir == At(Parent(path)) IN
  /\ del = << >>
  /\ Opens(Parent(path), TRUE, {"write"})
  /\ Exists(path) /\ Find(dir, name) = {}
  /\ node' = [node EXCEPT ![dir].ent =
       [i \in DOMAIN @ |-> IF @[i].name = Last(path) THEN [@[i] EXCEPT !.name = name] ELSE @[i]]]
  /\ UNCHANGED << used, del, ec >>

(* TSRBFAttrSet, of the owner's read and write; `os9 attr -nd`, which makes *)
(* a file of a directory that is not empty, is left out.                    *)
SetAttributes(path, att) ==
  /\ del = << >>
  /\ \E dir \in BOOLEAN : Opens(path, dir, {"write"})
  /\ node' = [node EXCEPT ![At(path)].att = att]
  /\ UNCHANGED << used, del, ec >>

-----------------------------------------------------------------------------
(* _os9_delete: what it returns, and its effect when that is "ok". *)

(* Mutant: a directory is deleted as a file is. *)
DeletesDirectories(path) ==
  IF ~ Opens(Parent(path), TRUE, {"write"}) THEN "EOS_FNA"
  ELSE IF ~ Exists(path) THEN "EOS_PNNF"
  ELSE "ok"

(* Where the parent is not there either the error is EOS_PNNF.  A deletion  *)
(* of a directory does not come to such a path, and Delete is only taken if *)
(* it succeeds.                                                             *)
DeleteResult(path) ==
  IF Opens(path, TRUE, {"read"}) THEN "EOS_IC"
  ELSE IF ~ Opens(Parent(path), TRUE, {"write"}) THEN "EOS_FNA"
  ELSE IF ~ Exists(path) THEN "EOS_PNNF"
  ELSE "ok"

Unlink(path) ==
  LET c == At(path)  dir == At(Parent(path))
      i == SelectInSeq(node[dir].ent, LAMBDA e : e.name = Last(path))
  IN
  /\ used' = used \ ({c} \cup node[c].data)
  /\ node' = [node EXCEPT ![dir].ent[i].name = NoName]

Delete(path) ==
  /\ del = << >>
  /\ DeleteResult(path) = "ok"
  /\ Unlink(path)
  /\ UNCHANGED << del, ec >>

-----------------------------------------------------------------------------
(* _os9_delete_directory.  A call of it fails as soon as one it made does. *)

Frame(path) == [path |-> path, pos |-> 0, pc |-> "read"]

Return(result) == del' = << >> /\ ec' = result

Top == del[Len(del)]

(* The root is not asked for: without its attribute there is no disk left. *)
DeleteDirectory(path) ==
  /\ del = << >>
  /\ Opens(path, TRUE, {"read"})
  /\ del' = << Frame(path) >>
  /\ ec' = "running"
  /\ UNCHANGED << used, node >>

Reading == del # << >> /\ Top.pc = "read"

AtEnd == Top.pos >= Len(node[At(Top.path)].ent)

Name == node[At(Top.path)].ent[Top.pos + 1].name

Child == Append(Top.path, Name)

(* What one round of the loop skips: deleted entries, "." and "..". *)
SkipEntry ==
  /\ Reading /\ ~ AtEnd /\ Name \notin Names
  /\ del' = [del EXCEPT ![Len(del)].pos = @ + 1]
  /\ UNCHANGED << used, node, ec >>

EnterDirectory ==
  /\ Reading /\ ~ AtEnd /\ Name \in Names
  /\ Opens(Child, TRUE, {"read"})
  /\ del' = Append([del EXCEPT ![Len(del)].pos = @ + 1], Frame(Child))
  /\ UNCHANGED << used, node, ec >>

(* Deletes a file.  The directory is then opened again, which it cannot    *)
(* fail to be, and read on from where it was left.                         *)
DeleteEntry ==
  /\ Reading /\ ~ AtEnd /\ Name \in Names
  /\ ~ Opens(Child, TRUE, {"read"})
  /\ IF DeleteResult(Child) = "ok"
       THEN /\ Unlink(Child)
            /\ del' = [del EXCEPT ![Len(del)].pos = @ + 1]
            /\ UNCHANGED ec
       ELSE /\ Return(DeleteResult(Child))
            /\ UNCHANGED << used, node >>

(* Mutant: the directory keeps its attribute. *)
KeepAttribute ==
  /\ Reading /\ AtEnd
  /\ del' = [del EXCEPT ![Len(del)].pc = "delete"]
  /\ UNCHANGED << used, node, ec >>

(* All entries are deleted: its directory attribute is turned off. *)
ClearAttribute ==
  /\ Reading /\ AtEnd
  /\ IF Opens(Top.path, TRUE, {"write"})
       THEN /\ node' = [node EXCEPT ![At(Top.path)].dir = FALSE]
            /\ del' = [del EXCEPT ![Len(del)].pc = "delete"]
            /\ UNCHANGED ec
       ELSE Return("EOS_FNA") /\ UNCHANGED node
  /\ UNCHANGED used

(* The call it was made by, if one was, reads on. *)
DeleteCleared ==
  /\ del # << >> /\ Top.pc = "delete"
  /\ IF DeleteResult(Top.path) = "ok"
       THEN /\ Unlink(Top.path)
            /\ IF Len(del) = 1 THEN Return("ok")
               ELSE del' = Front(del) /\ UNCHANGED ec
       ELSE /\ Return(DeleteResult(Top.path))
            /\ UNCHANGED << used, node >>

(* The process ends. *)
Interrupt ==
  /\ del # << >>
  /\ Return("interrupted")
  /\ UNCHANGED << used, node >>

-----------------------------------------------------------------------------
Next ==
  \/ \E path \in Path(MaxDepth) :
       \/ MakeFile(path)
       \/ MakeDir(path)
       \/ Delete(path)
       \/ DeleteDirectory(path)
       \/ \E name \in Names : Rename(path, name)
       \/ \E att \in Attributes : SetAttributes(path, att)
  \/ SkipEntry \/ EnterDirectory \/ DeleteEntry \/ ClearAttribute \/ DeleteCleared
  \/ Interrupt

Spec == Init /\ [][Next]_vars

-----------------------------------------------------------------------------
(* The pathnames there are. *)
Tree == { path \in Path(MaxDepth) : Exists(path) }

Below(path) == { q \in Path(MaxDepth) : IsPrefix(path, q) }

(* The bitmap marks the clusters of the nodes a pathname leads to and no    *)
(* others, whatever was made and deleted in what order, while a directory   *)
(* is being deleted and when its deletion is interrupted between two calls. *)
NoOrphans ==
  LET reached == {Root} \cup UNION { Walk(path) : path \in Tree } IN
  used = System \cup reached \cup UNION { node[c].data : c \in reached }

(* _os9_delete_directory deletes the directory it is given with all that is *)
(* below it, and nothing else: the entries it reads by offset, while its    *)
(* own calls delete them, are all entries there were.  It only fails where  *)
(* the owner may not write, whatever earlier calls left half made or half   *)
(* deleted.                                                                 *)
DeletesWhatItNames ==
  [][del # << >> =>
       LET named == Below(del[1].path) IN
       /\ Tree' \ named = Tree \ named
       /\ Tree' \subseteq Tree
       /\ ec' = "ok" => Tree' \cap named = {}
       /\ \/ ec' \in {"running", "ok", "interrupted"}
          \/ \E path \in Tree :
               \E c \in Walk(path) : node[c].dir /\ "write" \notin node[c].att]_vars
=============================================================================

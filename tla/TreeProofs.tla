------------------------------ MODULE TreeProofs ------------------------------
(***************************************************************************)
(* What is proved of RbfTree.                                              *)
(*                                                                         *)
(* The proofs keep, beside the descriptors and their entries, the set of   *)
(* nodes that have a name and their depths.  A change of an entry changes  *)
(* where pathnames of that depth and more lead, and no shorter one, which  *)
(* is what the waiting calls of _os9_delete_directory rest on.             *)
(***************************************************************************)
EXTENDS RbfTree, SequenceTheorems, FiniteSetTheorems, Iteration

Node == [dir : BOOLEAN, att : SUBSET Owner, data : SUBSET Cluster, ent : Seq(Entry)]

Nodes == [Cluster -> Node]

LEMMA ConstantsAre ==
  /\ Clusters \in Nat /\ Root \in Cluster /\ Root + 1 \in Cluster /\ MaxDepth \in Nat
  /\ Cluster \subseteq Nat
  /\ NoName \notin Names /\ Self \notin Names /\ Up \notin Names /\ NoName # Self /\ Self # Up
  BY TreeAssumption DEF Cluster, Root

-----------------------------------------------------------------------------
(* Finding a name in a directory *)

Indices(ent, x) == { i \in 1 .. Len(ent) : ent[i].name = x }

Place(ent, x) == SelectInSeq(ent, LAMBDA e : e.name = x)

LEMMA LeastOf ==
  ASSUME NEW S \in SUBSET Nat, NEW i \in S, \A j \in S : i <= j
  PROVE  Min(S) = i
  <1>1. \A j \in S : j \in S /\ (\A k \in S : j <= k) => j = i
    <2>1. ASSUME NEW j \in S, \A k \in S : j <= k PROVE j = i
      <3>1. j <= i /\ i <= j /\ i \in Nat /\ j \in Nat
        BY <2>1
      <3> QED
        BY <3>1
    <2> QED
      BY <2>1
  <1> QED
    BY <1>1 DEF Min

LEMMA PlaceIs ==
  ASSUME NEW ent \in Seq(Entry), NEW x
  PROVE  \/ Indices(ent, x) = {} /\ Place(ent, x) = 0
         \/ /\ Indices(ent, x) # {} /\ Place(ent, x) \in Indices(ent, x)
            /\ \A j \in Indices(ent, x) : Place(ent, x) <= j
  <1>1. Place(ent, x) = IF Indices(ent, x) # {} THEN Min(Indices(ent, x)) ELSE 0
    BY DEF Place, SelectInSeq, Indices
  <1>2. Indices(ent, x) \in SUBSET Nat
    BY DEF Indices
  <1> DEFINE S == Indices(ent, x)
  <1> HIDE DEF S
  <1>3. ASSUME S # {} PROVE Min(S) \in S /\ \A j \in S : Min(S) <= j
    <2>1. PICK i \in S : \A j \in S : i <= j
      BY <1>2, <1>3, LeastNumber DEF S
    <2>2. Min(S) = i
      BY <1>2, <2>1, LeastOf DEF S
    <2> QED
      BY <2>1, <2>2
  <1> QED
    BY <1>1, <1>3 DEF S

FindIn(nd, dir, x) ==
  LET i == Place(nd[dir].ent, x) IN IF i = 0 THEN {} ELSE {nd[dir].ent[i].at}

LEMMA FindIs == ASSUME NEW dir, NEW x PROVE Find(dir, x) = FindIn(node, dir, x)
  BY DEF Find, FindIn, Place

LEMMA FindInIs ==
  ASSUME NEW nd \in Nodes, NEW d \in Cluster, NEW x
  PROVE  /\ FindIn(nd, d, x) \subseteq Cluster
         /\ Indices(nd[d].ent, x) = {} => FindIn(nd, d, x) = {}
         /\ Indices(nd[d].ent, x) # {} =>
              /\ Place(nd[d].ent, x) \in Indices(nd[d].ent, x)
              /\ FindIn(nd, d, x) = {nd[d].ent[Place(nd[d].ent, x)].at}
  <1>1. PICK ent \in Seq(Entry) : ent = nd[d].ent
    BY DEF Nodes, Node
  <1>2. \A i \in Indices(ent, x) : i # 0 /\ ent[i].at \in Cluster
    <2>1. ASSUME NEW i \in Indices(ent, x) PROVE i # 0 /\ ent[i] \in Entry
      BY DEF Indices
    <2> QED
      BY <2>1 DEF Entry
  <1>3. \/ Indices(ent, x) = {} /\ Place(ent, x) = 0
        \/ /\ Indices(ent, x) # {} /\ Place(ent, x) \in Indices(ent, x)
    BY PlaceIs
  <1> QED
    BY <1>1, <1>2, <1>3 DEF FindIn

-----------------------------------------------------------------------------
(* Walking a pathname *)

NextAt(nd, C, x) == UNION { FindIn(nd, c, x) : c \in C }

(* The descriptors the first k names of a pathname lead to, one by one. *)
Walked(nd, path, k, w) ==
  /\ w \in [0 .. k -> SUBSET Cluster] /\ w[0] = {Root}
  /\ \A i \in 1 .. k : w[i] = NextAt(nd, w[i - 1], path[i])

LEMMA NextAtIs ==
  ASSUME NEW nd \in Nodes, NEW C \in SUBSET Cluster, NEW x
  PROVE  NextAt(nd, C, x) \in SUBSET Cluster
  BY FindInIs DEF NextAt

LEMMA WalkedExists ==
  ASSUME NEW nd \in Nodes, NEW path
  PROVE  \A k \in Nat : \E w : Walked(nd, path, k, w)
  <1> DEFINE T == { k \in Nat : \E w : Walked(nd, path, k, w) }
  <1>1. 0 \in T
    <2>1. Walked(nd, path, 0, [i \in 0 .. 0 |-> {Root}])
      BY ConstantsAre DEF Walked
    <2> QED
      BY <2>1
  <1>2. ASSUME NEW k \in Nat, k \in T PROVE k + 1 \in T
    <2>1. PICK w : Walked(nd, path, k, w)
      BY <1>2
    <2> DEFINE v == [i \in 0 .. k + 1 |-> IF i = k + 1 THEN NextAt(nd, w[k], path[k + 1]) ELSE w[i]]
    <2>2. /\ w \in [0 .. k -> SUBSET Cluster] /\ w[0] = {Root}
          /\ \A i \in 1 .. k : w[i] = NextAt(nd, w[i - 1], path[i])
      BY <2>1 DEF Walked
    <2>3. w[k] \in SUBSET Cluster
      BY <2>2
    <2>4. NextAt(nd, w[k], path[k + 1]) \in SUBSET Cluster
      BY <2>3, NextAtIs
    <2>5. v \in [0 .. k + 1 -> SUBSET Cluster] /\ v[0] = {Root}
      BY <2>2, <2>4
    <2>6. ASSUME NEW i \in 1 .. k + 1 PROVE v[i] = NextAt(nd, v[i - 1], path[i])
      <3>1. CASE i = k + 1
        BY <3>1
      <3>2. CASE i # k + 1
        <4>1. i \in 1 .. k /\ i - 1 \in 0 .. k /\ i - 1 # k + 1 /\ i \in 0 .. k + 1
          BY <3>2
        <4> QED
          BY <2>2, <4>1, <3>2
      <3> QED
        BY <3>1, <3>2
    <2> HIDE DEF v
    <2>7. Walked(nd, path, k + 1, v)
      BY <2>5, <2>6 DEF Walked
    <2> QED
      BY <2>7
  <1> HIDE DEF T
  <1>3. Nat \subseteq T
    BY <1>1, <1>2, AllNumbers
  <1> QED
    BY <1>3 DEF T

(* Pathnames that begin alike lead to the same, from directories that find  *)
(* the same.                                                                *)
SameSteps(nd, md, p, q, k, v) ==
  \A i \in 1 .. k : p[i] = q[i] /\ NextAt(nd, v[i - 1], p[i]) = NextAt(md, v[i - 1], p[i])

LEMMA WalkedAgree ==
  ASSUME NEW nd, NEW md, NEW p, NEW q, NEW k \in Nat, NEW m \in Nat, k <= m, NEW v, NEW w,
         Walked(nd, p, k, v), Walked(md, q, m, w),
         SameSteps(nd, md, p, q, k, v)
  PROVE  \A i \in 0 .. k : v[i] = w[i]
  <1> DEFINE T == { i \in Nat : i <= k => v[i] = w[i] }
  <1>1. 0 \in T
    BY DEF Walked
  <1>2. ASSUME NEW i \in Nat, i \in T PROVE i + 1 \in T
    <2> SUFFICES ASSUME i + 1 <= k PROVE v[i + 1] = w[i + 1]
      OBVIOUS
    <2>1. i + 1 \in 1 .. k /\ i + 1 \in 1 .. m /\ (i + 1) - 1 = i /\ v[i] = w[i]
      BY <1>2
    <2>2. v[i + 1] = NextAt(nd, v[i], p[i + 1]) /\ w[i + 1] = NextAt(md, w[i], q[i + 1])
      BY <2>1 DEF Walked
    <2>3. p[i + 1] = q[i + 1] /\ NextAt(nd, v[i], p[i + 1]) = NextAt(md, v[i], p[i + 1])
      BY <2>1 DEF SameSteps
    <2> QED
      BY <2>1, <2>2, <2>3
  <1> HIDE DEF T
  <1>3. Nat \subseteq T
    BY <1>1, <1>2, AllNumbers
  <1> QED
    BY <1>3 DEF T

WalkIn(nd, path) ==
  LET at[i \in 0 .. Len(path)] ==
        IF i = 0 THEN {Root} ELSE NextAt(nd, at[i - 1], path[i])
  IN  at[Len(path)]

Fits(nd, path, k, w) ==
  w = [i \in 0 .. k |-> IF i = 0 THEN {Root} ELSE NextAt(nd, w[i - 1], path[i])]

LEMMA WalkedFits ==
  ASSUME NEW nd, NEW path, NEW k \in Nat, NEW w, Walked(nd, path, k, w)
  PROVE  Fits(nd, path, k, w)
  <1>1. w = [i \in 0 .. k |-> w[i]] /\ w[0] = {Root}
    BY DEF Walked
  <1>2. \A i \in 0 .. k : w[i] = IF i = 0 THEN {Root} ELSE NextAt(nd, w[i - 1], path[i])
    BY DEF Walked
  <1> QED
    BY <1>1, <1>2 DEF Fits

LEMMA FittingIsWalked ==
  ASSUME NEW nd \in Nodes, NEW path, NEW k \in Nat, NEW at, Fits(nd, path, k, at)
  PROVE  Walked(nd, path, k, at)
  <1>1. /\ DOMAIN at = 0 .. k /\ at = [i \in 0 .. k |-> at[i]] /\ at[0] = {Root}
        /\ \A i \in 1 .. k : at[i] = NextAt(nd, at[i - 1], path[i])
    <2>1. 0 \in 0 .. k /\ \A i \in 1 .. k : i \in 0 .. k /\ i # 0
      OBVIOUS
    <2> QED
      BY <2>1 DEF Fits
  <1> DEFINE T == { i \in Nat : i <= k => at[i] \in SUBSET Cluster }
  <1>2. 0 \in T
    BY <1>1, ConstantsAre
  <1>3. ASSUME NEW i \in Nat, i \in T PROVE i + 1 \in T
    <2> SUFFICES ASSUME i + 1 <= k PROVE at[i + 1] \in SUBSET Cluster
      OBVIOUS
    <2>1. i + 1 \in 1 .. k /\ (i + 1) - 1 = i /\ at[i] \in SUBSET Cluster
      BY <1>3
    <2>2. at[i + 1] = NextAt(nd, at[i], path[i + 1])
      BY <1>1, <2>1
    <2> QED
      BY <2>1, <2>2, NextAtIs
  <1> HIDE DEF T
  <1>4. Nat \subseteq T
    BY <1>2, <1>3, AllNumbers
  <1>5. \A i \in 0 .. k : at[i] \in SUBSET Cluster
    BY <1>4 DEF T
  <1>6. at \in [0 .. k -> SUBSET Cluster]
    BY <1>1, <1>5
  <1> QED
    BY <1>1, <1>6 DEF Walked

LEMMA WalkInIs ==
  ASSUME NEW nd \in Nodes, NEW S, NEW path \in Seq(S)
  PROVE  \E w : Walked(nd, path, Len(path), w) /\ WalkIn(nd, path) = w[Len(path)]
  <1> DEFINE k == Len(path)
             at == CHOOSE w : Fits(nd, path, k, w)
  <1>1. k \in Nat
    OBVIOUS
  <1>2. Fits(nd, path, k, at)
    BY <1>1, WalkedExists, WalkedFits
  <1>3. WalkIn(nd, path) = at[k]
    BY DEF WalkIn, Fits
  <1> HIDE DEF at
  <1>4. Walked(nd, path, k, at)
    BY <1>1, <1>2, FittingIsWalked
  <1> QED
    BY <1>3, <1>4

LEMMA WalkIs ==
  ASSUME node \in Nodes, NEW S, NEW path \in Seq(S)
  PROVE  Walk(path) = WalkIn(node, path)
  <1> DEFINE k == Len(path)
             Finding(w) == w = [i \in 0 .. k |->
                                  IF i = 0 THEN {Root}
                                  ELSE UNION { Find(c, path[i]) : c \in w[i - 1] }]
             at == CHOOSE w : Finding(w)
  <1>1. k \in Nat
    OBVIOUS
  <1>2. Walk(path) = at[k]
    BY DEF Walk
  <1>3. \A C, x : UNION { Find(c, x) : c \in C } = NextAt(node, C, x)
    BY FindIs DEF NextAt
  <1>4. ASSUME NEW w PROVE Finding(w) <=> Fits(node, path, k, w)
    BY <1>3 DEF Fits
  <1>5. \E w : Finding(w)
    BY <1>1, <1>4, WalkedExists, WalkedFits
  <1>6. Finding(at)
    BY <1>5
  <1> HIDE DEF at
  <1>7. Walked(node, path, k, at)
    BY <1>1, <1>4, <1>6, FittingIsWalked
  <1>8. PICK w : Walked(node, path, k, w) /\ WalkIn(node, path) = w[k]
    BY WalkInIs
  <1>9. at[k] = w[k]
    <2>1. SameSteps(node, node, path, path, k, at) /\ k <= k /\ k \in 0 .. k
      BY <1>1 DEF SameSteps
    <2>2. \A i \in 0 .. k : at[i] = w[i]
      BY <1>1, <1>7, <1>8, <2>1, WalkedAgree
    <2> QED
      BY <2>1, <2>2
  <1> QED
    BY <1>2, <1>8, <1>9

LEMMA WalkNone ==
  ASSUME NEW nd \in Nodes, NEW S, NEW path \in Seq(S), Len(path) = 0
  PROVE  WalkIn(nd, path) = {Root}
  BY WalkInIs DEF Walked

LEMMA AppendIs ==
  ASSUME NEW S, NEW q \in Seq(S), NEW x \in S
  PROVE  /\ Append(q, x) \in Seq(S) /\ Len(Append(q, x)) = Len(q) + 1
         /\ Append(q, x)[Len(q) + 1] = x /\ \A i \in 1 .. Len(q) : Append(q, x)[i] = q[i]
  OBVIOUS

LEMMA WalkAppend ==
  ASSUME NEW nd \in Nodes, NEW S, NEW q \in Seq(S), NEW x \in S
  PROVE  WalkIn(nd, Append(q, x)) = NextAt(nd, WalkIn(nd, q), x)
  <1>1. PICK p : p = Append(q, x)
    OBVIOUS
  <1>2. /\ p \in Seq(S) /\ Len(p) = Len(q) + 1 /\ p[Len(q) + 1] = x /\ Len(q) \in Nat
        /\ \A i \in 1 .. Len(q) : p[i] = q[i]
    BY <1>1, AppendIs
  <1>3. PICK v : Walked(nd, q, Len(q), v) /\ WalkIn(nd, q) = v[Len(q)]
    BY WalkInIs
  <1>4. PICK w : Walked(nd, p, Len(p), w) /\ WalkIn(nd, p) = w[Len(p)]
    BY <1>2, WalkInIs
  <1>5. v[Len(q)] = w[Len(q)]
    <2>1. Len(q) <= Len(p) /\ Len(p) \in Nat /\ Len(q) \in 0 .. Len(q)
      BY <1>2
    <2>2. SameSteps(nd, nd, q, p, Len(q), v)
      BY <1>2 DEF SameSteps
    <2>3. \A i \in 0 .. Len(q) : v[i] = w[i]
      BY <1>2, <1>3, <1>4, <2>1, <2>2, WalkedAgree
    <2> QED
      BY <2>1, <2>3
  <1>6. w[Len(q) + 1] = NextAt(nd, w[Len(q)], x)
    <2>1. Len(q) + 1 \in 1 .. Len(p) /\ (Len(q) + 1) - 1 = Len(q)
      BY <1>2
    <2> QED
      BY <1>2, <1>4, <2>1 DEF Walked
  <1> QED
    BY <1>1, <1>2, <1>3, <1>4, <1>5, <1>6

LEMMA NamesAppend ==
  ASSUME NEW nd \in Nodes, NEW q \in Seq(Names), NEW x \in Names
  PROVE  WalkIn(nd, Append(q, x)) = NextAt(nd, WalkIn(nd, q), x)
  BY WalkAppend

LEMMA FrontIs ==
  ASSUME NEW S, NEW path \in Seq(S), Len(path) # 0
  PROVE  /\ Front(path) \in Seq(S) /\ Len(Front(path)) = Len(path) - 1 /\ Last(path) \in S
         /\ path = Append(Front(path), Last(path))
  <1>1. PICK k \in Nat : k = Len(path) - 1 /\ Len(path) = k + 1
    OBVIOUS
  <1>2. /\ Front(path) \in Seq(S) /\ Len(Front(path)) = k /\ Last(path) = path[k + 1]
        /\ Last(path) \in S /\ \A i \in 1 .. k : Front(path)[i] = path[i]
    BY <1>1 DEF Front, Last
  <1>3. PICK p : p = Append(Front(path), Last(path))
    OBVIOUS
  <1>4. /\ p \in Seq(S) /\ Len(p) = k + 1 /\ p[k + 1] = path[k + 1]
        /\ \A i \in 1 .. k : p[i] = path[i]
    BY <1>2, <1>3, AppendIs
  <1>5. \A i \in 1 .. Len(p) : p[i] = path[i]
    BY <1>1, <1>4
  <1>6. p = path
    BY <1>1, <1>4, <1>5, SeqEqual
  <1> QED
    BY <1>1, <1>2, <1>3, <1>6

(* The entries of a directory that are a file's or directory's. *)
Given(nd, d) == { i \in 1 .. Len(nd[d].ent) : nd[d].ent[i].name \in Names }

(* Directory d, of the nodes live that have a name, at their depths h.      *)
Listed(nd, live, h, d) ==
  /\ \A i \in Given(nd, d) : nd[d].ent[i].at \in live /\ h[nd[d].ent[i].at] = h[d] + 1
  /\ Given(nd, d) # {} => nd[d].dir
  /\ \A i, j \in Given(nd, d) : nd[d].ent[i].name = nd[d].ent[j].name => i = j
  /\ \A i \in Indices(nd[d].ent, Self) : nd[d].ent[i].at = d
  /\ "read" \in nd[d].att

(* Each node has one name. *)
Parented(nd, live) ==
  /\ \A c \in live : c # Root => \E d \in live : \E i \in Given(nd, d) : nd[d].ent[i].at = c
  /\ \A d, e \in live : \A i \in Given(nd, d) : \A j \in Given(nd, e) :
       nd[d].ent[i].at = nd[e].ent[j].at => d = e /\ i = j

IsTree(nd, live, h) ==
  /\ nd \in Nodes /\ live \in SUBSET Cluster /\ h \in [Cluster -> 0 .. MaxDepth]
  /\ Root \in live /\ h[Root] = 0 /\ live \cap System = {}
  /\ \A d \in live : Listed(nd, live, h, d)
  /\ Parented(nd, live)

(* The clusters in use are those of the nodes and their data, each for one. *)
Marked(nd, u, live) ==
  /\ \A c \in live : nd[c].data \cap (live \cup System) = {}
  /\ \A c, d \in live : c # d => nd[c].data \cap nd[d].data = {}
  /\ u = System \cup live \cup UNION { nd[c].data : c \in live }

-----------------------------------------------------------------------------

LEMMA GivenIs ==
  ASSUME NEW nd \in Nodes, NEW d \in Cluster, NEW i \in Given(nd, d)
  PROVE  /\ i \in Nat \ {0} /\ i \in 1 .. Len(nd[d].ent) /\ nd[d].ent \in Seq(Entry)
         /\ nd[d].ent[i] \in Entry /\ nd[d].ent[i].name \in Names /\ nd[d].ent[i].at \in Cluster
  <1>1. PICK ent \in Seq(Entry) : ent = nd[d].ent
    BY DEF Nodes, Node
  <1>2. i \in 1 .. Len(ent) /\ ent[i].name \in Names
    BY <1>1 DEF Given
  <1>3. ent[i] \in Entry /\ i \in Nat \ {0}
    BY <1>2
  <1> QED
    BY <1>1, <1>2, <1>3 DEF Entry

(* What a directory finds by a name. *)
LEMMA FindsGiven ==
  ASSUME NEW nd, NEW live, NEW h, IsTree(nd, live, h), NEW d \in live, NEW x \in Names
  PROVE  /\ \A i \in Given(nd, d) : nd[d].ent[i].name = x =>
              /\ Place(nd[d].ent, x) = i /\ FindIn(nd, d, x) = {nd[d].ent[i].at}
         /\ FindIn(nd, d, x) = {} \/ \E i \in Given(nd, d) :
              /\ nd[d].ent[i].name = x /\ Place(nd[d].ent, x) = i
              /\ FindIn(nd, d, x) = {nd[d].ent[i].at}
  <1>1. nd \in Nodes /\ d \in Cluster /\ Listed(nd, live, h, d)
    BY DEF IsTree
  <1>2. Indices(nd[d].ent, x) \subseteq Given(nd, d)
    BY DEF Indices, Given
  <1>3. ASSUME NEW i \in Given(nd, d), nd[d].ent[i].name = x
        PROVE  Place(nd[d].ent, x) = i /\ FindIn(nd, d, x) = {nd[d].ent[i].at}
    <2>1. i \in Indices(nd[d].ent, x)
      BY <1>3 DEF Indices, Given
    <2>2. PICK j : j = Place(nd[d].ent, x)
      OBVIOUS
    <2>3. j \in Indices(nd[d].ent, x) /\ FindIn(nd, d, x) = {nd[d].ent[j].at}
      BY <1>1, <2>1, <2>2, FindInIs
    <2>4. j \in Given(nd, d) /\ nd[d].ent[j].name = x
      BY <1>2, <2>3 DEF Indices
    <2>5. j = i
      BY <1>1, <1>3, <2>4 DEF Listed
    <2> QED
      BY <2>2, <2>3, <2>5
  <1>4. ASSUME FindIn(nd, d, x) # {}
        PROVE  \E i \in Given(nd, d) :
                 /\ nd[d].ent[i].name = x /\ Place(nd[d].ent, x) = i
                 /\ FindIn(nd, d, x) = {nd[d].ent[i].at}
    <2>1. Indices(nd[d].ent, x) # {}
      BY <1>1, <1>4, FindInIs
    <2>2. PICK i : i \in Indices(nd[d].ent, x)
      BY <2>1
    <2>3. i \in Given(nd, d) /\ nd[d].ent[i].name = x
      BY <1>2, <2>2 DEF Indices
    <2>4. Place(nd[d].ent, x) = i /\ FindIn(nd, d, x) = {nd[d].ent[i].at}
      BY <1>3, <2>3
    <2> QED
      BY <2>3, <2>4
  <1> QED
    BY <1>3, <1>4

(* A pathname leads to nothing, or to a node as deep as it is long. *)
Leads(nd, live, h, path) ==
  WalkIn(nd, path) = {} \/ \E c \in live : WalkIn(nd, path) = {c} /\ h[c] = Len(path)

LEMMA LeadsOn ==
  ASSUME NEW nd, NEW live, NEW h, IsTree(nd, live, h), NEW q \in Seq(Names), NEW x \in Names,
         Leads(nd, live, h, q)
  PROVE  /\ Leads(nd, live, h, Append(q, x))
         /\ WalkIn(nd, Append(q, x)) # {} => \E d \in live : \E i \in Given(nd, d) :
              /\ WalkIn(nd, q) = {d} /\ h[d] = Len(q)
              /\ nd[d].ent[i].name = x /\ Place(nd[d].ent, x) = i
              /\ WalkIn(nd, Append(q, x)) = {nd[d].ent[i].at}
  <1>1. nd \in Nodes
    BY DEF IsTree
  <1>2. WalkIn(nd, Append(q, x)) = NextAt(nd, WalkIn(nd, q), x) /\ Len(Append(q, x)) = Len(q) + 1
    BY <1>1, WalkAppend, AppendIs
  <1>3. CASE WalkIn(nd, q) = {}
    BY <1>2, <1>3 DEF NextAt, Leads
  <1>4. CASE WalkIn(nd, q) # {}
    <2>1. PICK d \in live : WalkIn(nd, q) = {d} /\ h[d] = Len(q)
      BY <1>4 DEF Leads
    <2>2. WalkIn(nd, Append(q, x)) = FindIn(nd, d, x)
      BY <1>2, <2>1 DEF NextAt
    <2>3. CASE FindIn(nd, d, x) = {}
      BY <2>2, <2>3 DEF Leads
    <2>4. CASE FindIn(nd, d, x) # {}
      <3>1. PICK i \in Given(nd, d) :
              /\ nd[d].ent[i].name = x /\ Place(nd[d].ent, x) = i
              /\ FindIn(nd, d, x) = {nd[d].ent[i].at}
        BY <2>4, FindsGiven
      <3>2. nd[d].ent[i].at \in live /\ h[nd[d].ent[i].at] = h[d] + 1
        BY DEF IsTree, Listed
      <3>3. WalkIn(nd, Append(q, x)) = {nd[d].ent[i].at}
        BY <2>2, <3>1
      <3>4. Leads(nd, live, h, Append(q, x))
        BY <1>2, <2>1, <3>2, <3>3 DEF Leads
      <3> QED
        BY <2>1, <3>1, <3>3, <3>4
    <2> QED
      BY <2>3, <2>4
  <1> QED
    BY <1>3, <1>4

LEMMA WalkLeads ==
  ASSUME NEW nd, NEW live, NEW h, IsTree(nd, live, h), NEW path \in Seq(Names)
  PROVE  Leads(nd, live, h, path)
  <1> DEFINE T == { k \in Nat : \A p \in Seq(Names) : Len(p) = k => Leads(nd, live, h, p) }
  <1>1. 0 \in T
    <2>1. \A p \in Seq(Names) : Len(p) = 0 => WalkIn(nd, p) = {Root}
      BY WalkNone DEF IsTree
    <2> QED
      BY <2>1 DEF Leads, IsTree
  <1>2. ASSUME NEW k \in Nat, k \in T PROVE k + 1 \in T
    <2> SUFFICES ASSUME NEW p \in Seq(Names), Len(p) = k + 1 PROVE Leads(nd, live, h, p)
      OBVIOUS
    <2>1. PICK q \in Seq(Names), x \in Names : Len(q) = k /\ p = Append(q, x)
      <3>1. Len(p) # 0 /\ Len(p) - 1 = k
        OBVIOUS
      <3>2. /\ Front(p) \in Seq(Names) /\ Len(Front(p)) = k /\ Last(p) \in Names
            /\ p = Append(Front(p), Last(p))
        BY <3>1, FrontIs
      <3> QED
        BY <3>2
    <2>2. Leads(nd, live, h, q)
      BY <1>2, <2>1
    <2> QED
      BY <2>1, <2>2, LeadsOn
  <1> HIDE DEF T
  <1>3. Nat \subseteq T
    BY <1>1, <1>2, AllNumbers
  <1>4. Len(path) \in T
    BY <1>3
  <1> QED
    BY <1>4 DEF T

(* The last step to a node. *)
LEMMA StepTo ==
  ASSUME NEW nd, NEW live, NEW h, IsTree(nd, live, h), NEW q \in Seq(Names), NEW x \in Names,
         NEW c \in WalkIn(nd, Append(q, x))
  PROVE  \E d \in live : \E i \in Given(nd, d) :
           /\ WalkIn(nd, q) = {d} /\ h[d] = Len(q) /\ nd[d].ent[i].name = x
           /\ Place(nd[d].ent, x) = i /\ nd[d].ent[i].at = c
           /\ WalkIn(nd, Append(q, x)) = {c}
  <1>1. Leads(nd, live, h, q)
    BY WalkLeads
  <1>2. PICK d \in live : \E i \in Given(nd, d) :
          /\ WalkIn(nd, q) = {d} /\ h[d] = Len(q)
          /\ nd[d].ent[i].name = x /\ Place(nd[d].ent, x) = i
          /\ WalkIn(nd, Append(q, x)) = {nd[d].ent[i].at}
    BY <1>1, LeadsOn
  <1>3. \A i \in Given(nd, d) :
          WalkIn(nd, Append(q, x)) = {nd[d].ent[i].at} => nd[d].ent[i].at = c
    OBVIOUS
  <1> QED
    BY <1>2, <1>3

(* What is above a depth is found as before when nothing there changes.     *)
LEMMA AboveIsSame ==
  ASSUME NEW nd, NEW live, NEW h, IsTree(nd, live, h), NEW md \in Nodes, NEW k \in Nat,
         \A c \in live : h[c] < k => md[c] = nd[c],
         NEW path \in Seq(Names), Len(path) <= k
  PROVE  WalkIn(md, path) = WalkIn(nd, path)
  <1> DEFINE T == { m \in Nat : m <= k =>
                      \A p \in Seq(Names) : Len(p) = m => WalkIn(md, p) = WalkIn(nd, p) }
  <1>1. nd \in Nodes /\ h \in [Cluster -> 0 .. MaxDepth] /\ live \subseteq Cluster
    BY DEF IsTree
  <1>2. 0 \in T
    BY <1>1, WalkNone
  <1>3. ASSUME NEW m \in Nat, m \in T PROVE m + 1 \in T
    <2> SUFFICES ASSUME m + 1 <= k, NEW p \in Seq(Names), Len(p) = m + 1
                 PROVE  WalkIn(md, p) = WalkIn(nd, p)
      OBVIOUS
    <2>1. PICK q \in Seq(Names), x \in Names : Len(q) = m /\ p = Append(q, x)
      <3>1. Len(p) # 0 /\ Len(p) - 1 = m
        OBVIOUS
      <3>2. /\ Front(p) \in Seq(Names) /\ Len(Front(p)) = m /\ Last(p) \in Names
            /\ p = Append(Front(p), Last(p))
        BY <3>1, FrontIs
      <3> QED
        BY <3>2
    <2>2. WalkIn(md, q) = WalkIn(nd, q)
      BY <1>3, <2>1
    <2>3. WalkIn(md, p) = NextAt(md, WalkIn(nd, q), x) /\ WalkIn(nd, p) = NextAt(nd, WalkIn(nd, q), x)
      BY <1>1, <2>1, <2>2, WalkAppend
    <2>4. \A c \in WalkIn(nd, q) : FindIn(md, c, x) = FindIn(nd, c, x)
      <3>1. ASSUME NEW c \in WalkIn(nd, q) PROVE FindIn(md, c, x) = FindIn(nd, c, x)
        <4>1. c \in live /\ h[c] = m
          BY <2>1, WalkLeads DEF Leads
        <4>2. md[c] = nd[c]
          BY <4>1
        <4> QED
          BY <4>2 DEF FindIn
      <3> QED
        BY <3>1
    <2>5. NextAt(md, WalkIn(nd, q), x) = NextAt(nd, WalkIn(nd, q), x)
      BY <2>4 DEF NextAt
    <2> QED
      BY <2>3, <2>5
  <1> HIDE DEF T
  <1>4. Nat \subseteq T
    BY <1>2, <1>3, AllNumbers
  <1>5. Len(path) \in T
    BY <1>4
  <1> QED
    BY <1>5 DEF T

(* Every node has a pathname, as long as it is deep. *)
LEMMA NodesHavePaths ==
  ASSUME NEW nd, NEW live, NEW h, IsTree(nd, live, h), NEW c \in live
  PROVE  \E p \in Seq(Names) : Len(p) = h[c] /\ WalkIn(nd, p) = {c}
  <1> DEFINE T == { k \in Nat : \A e \in live : h[e] = k =>
                      \E p \in Seq(Names) : Len(p) = k /\ WalkIn(nd, p) = {e} }
  <1>1. nd \in Nodes /\ h \in [Cluster -> 0 .. MaxDepth] /\ live \subseteq Cluster /\ h[Root] = 0
    BY DEF IsTree
  <1>2. ASSUME NEW e \in live, e # Root
        PROVE  \E d \in live : \E i \in Given(nd, d) : nd[d].ent[i].at = e /\ h[e] = h[d] + 1
    BY <1>2 DEF IsTree, Parented, Listed
  <1>3. \A e \in live : h[e] \in Nat
    BY <1>1, ConstantsAre
  <1>4. 0 \in T
    <2>1. ASSUME NEW e \in live, h[e] = 0 PROVE e = Root
      BY <1>2, <1>3, <2>1
    <2>2. << >> \in Seq(Names) /\ Len(<< >>) = 0
      OBVIOUS
    <2>3. WalkIn(nd, << >>) = {Root}
      BY <1>1, <2>2, WalkNone
    <2> QED
      BY <2>1, <2>2, <2>3
  <1>5. ASSUME NEW k \in Nat, k \in T, NEW e \in live, h[e] = k + 1
        PROVE  \E p \in Seq(Names) : Len(p) = k + 1 /\ WalkIn(nd, p) = {e}
    <2>1. e # Root
      BY <1>1, <1>5
    <2>2. PICK d \in live : \E i \in Given(nd, d) : nd[d].ent[i].at = e /\ h[e] = h[d] + 1
      BY <1>2, <2>1
    <2>3. PICK i \in Given(nd, d) : nd[d].ent[i].at = e /\ h[e] = h[d] + 1
      BY <2>2
    <2>4. h[d] = k
      BY <1>3, <1>5, <2>3
    <2>5. PICK p \in Seq(Names) : Len(p) = k /\ WalkIn(nd, p) = {d}
      BY <1>5, <2>4
    <2>6. PICK x \in Names : x = nd[d].ent[i].name
      BY <1>1, GivenIs
    <2>7. FindIn(nd, d, x) = {e}
      BY <2>3, <2>6, FindsGiven
    <2>8. PICK q : q = Append(p, x)
      OBVIOUS
    <2>9. q \in Seq(Names) /\ Len(q) = k + 1
      BY <2>5, <2>8, AppendIs
    <2>10. WalkIn(nd, q) = {e}
      <3>1. WalkIn(nd, q) = NextAt(nd, {d}, x)
        <4>1. WalkIn(nd, Append(p, x)) = NextAt(nd, WalkIn(nd, p), x)
          BY <1>1, WalkAppend
        <4> QED
          BY <2>5, <2>8, <4>1
      <3> QED
        BY <2>7, <3>1 DEF NextAt
    <2> QED
      BY <2>9, <2>10
  <1>6. \A k \in T : k + 1 \in T
    <2>1. ASSUME NEW k \in T PROVE k + 1 \in T
      <3>1. k \in Nat /\ k + 1 \in Nat
        OBVIOUS
      <3>2. ASSUME NEW e \in live, h[e] = k + 1
            PROVE  \E p \in Seq(Names) : Len(p) = k + 1 /\ WalkIn(nd, p) = {e}
        BY ONLY <1>5, <2>1, <3>1, <3>2
      <3> QED
        BY <3>1, <3>2
    <2> QED
      BY <2>1
  <1> HIDE DEF T
  <1>7. Nat \subseteq T
    BY <1>4, <1>6, AllNumbers
  <1>8. h[c] \in T
    BY <1>3, <1>7
  <1> QED
    BY <1>8 DEF T

LEMMA PathsAre == ASSUME NEW p PROVE p \in Path(MaxDepth) <=> p \in Seq(Names) /\ Len(p) \in 1 .. MaxDepth
  <1>1. ASSUME p \in Path(MaxDepth) PROVE p \in Seq(Names) /\ Len(p) \in 1 .. MaxDepth
    <2>1. PICK m \in 1 .. MaxDepth : p \in [1 .. m -> Names]
      BY <1>1 DEF Path
    <2>2. m \in Nat
      BY <2>1, ConstantsAre
    <2>3. p \in Seq(Names) /\ Len(p) = m
      BY <2>1, <2>2
    <2> QED
      BY <2>1, <2>3
  <1>2. ASSUME p \in Seq(Names), Len(p) \in 1 .. MaxDepth PROVE p \in Path(MaxDepth)
    <2>1. p \in [1 .. Len(p) -> Names]
      BY <1>2
    <2> QED
      BY <1>2, <2>1 DEF Path
  <1> QED
    BY <1>1, <1>2

(* The nodes pathnames lead to are all there are. *)
LEMMA ReachedIs ==
  ASSUME NEW live, NEW h, IsTree(node, live, h)
  PROVE  {Root} \cup UNION { Walk(path) : path \in Tree } = live
  <1>1. node \in Nodes /\ h \in [Cluster -> 0 .. MaxDepth] /\ live \subseteq Cluster
        /\ Root \in live /\ h[Root] = 0
    BY DEF IsTree
  <1>2. ASSUME NEW path \in Tree PROVE Walk(path) \subseteq live
    <2>1. path \in Seq(Names)
      BY PathsAre DEF Tree
    <2>2. Walk(path) = WalkIn(node, path)
      BY <1>1, <2>1, WalkIs
    <2>3. Leads(node, live, h, path)
      BY <2>1, WalkLeads
    <2> QED
      BY <2>2, <2>3 DEF Leads
  <1>3. ASSUME NEW c \in live, c # Root PROVE \E path \in Tree : c \in Walk(path)
    <2>1. PICK p \in Seq(Names) : Len(p) = h[c] /\ WalkIn(node, p) = {c}
      BY NodesHavePaths
    <2>2. Walk(p) = {c}
      BY <1>1, <2>1, WalkIs
    <2>3. h[c] \in 0 .. MaxDepth /\ h[c] # 0
      <3>1. Len(p) = 0 => WalkIn(node, p) = {Root}
        BY <1>1, WalkNone
      <3> QED
        BY <1>1, <1>3, <2>1, <3>1
    <2>4. p \in Path(MaxDepth)
      BY <2>1, <2>3, PathsAre, ConstantsAre
    <2>5. p \in Tree
      BY <2>2, <2>4 DEF Tree, Exists
    <2> QED
      BY <2>2, <2>5
  <1> QED
    BY <1>1, <1>2, <1>3

(* md is nd with entry i of directory d deleted. *)
EntryGone(nd, md, d, i) ==
  /\ md \in Nodes /\ \A e \in Cluster : e # d => md[e] = nd[e]
  /\ md[d].dir = nd[d].dir /\ md[d].att = nd[d].att /\ md[d].data = nd[d].data
  /\ Len(md[d].ent) = Len(nd[d].ent) /\ md[d].ent[i].name = NoName
  /\ \A j \in 1 .. Len(nd[d].ent) : j # i => md[d].ent[j] = nd[d].ent[j]

LEMMA DepthIs ==
  ASSUME NEW nd, NEW live, NEW h, IsTree(nd, live, h), NEW d \in live, NEW i \in Given(nd, d)
  PROVE  /\ h[d] \in 0 .. MaxDepth /\ nd[d].ent[i].at \in live
         /\ h[nd[d].ent[i].at] = h[d] + 1 /\ nd[d].ent[i].at # d /\ nd[d].ent[i].at # Root
  <1>1. h[d] \in 0 .. MaxDepth /\ h[Root] = 0
    BY DEF IsTree
  <1>2. nd[d].ent[i].at \in live /\ h[nd[d].ent[i].at] = h[d] + 1
    BY DEF IsTree, Listed
  <1> QED
    BY <1>1, <1>2, ConstantsAre

(* What an entry of another name deletes. *)
LEMMA EntryGoneIs ==
  ASSUME NEW nd \in Nodes, NEW d \in Cluster, NEW i \in Given(nd, d), NEW md,
         md = [nd EXCEPT ![d].ent[i].name = NoName]
  PROVE  EntryGone(nd, md, d, i)
  <1>1. PICK v \in Node : v = nd[d]
    BY DEF Nodes
  <1>2. v.ent \in Seq(Entry) /\ i \in 1 .. Len(v.ent) /\ v.ent[i] \in Entry
    BY <1>1, GivenIs DEF Node
  <1>3. PICK y : y = [v.ent[i] EXCEPT !.name = NoName]
    OBVIOUS
  <1>4. y \in Entry /\ y.name = NoName
    BY <1>2, <1>3 DEF Entry
  <1>5. PICK x : x = [v.ent EXCEPT ![i] = y]
    OBVIOUS
  <1>6. /\ x \in Seq(Entry) /\ Len(x) = Len(v.ent) /\ x[i] = y
        /\ \A j \in 1 .. Len(v.ent) : j # i => x[j] = v.ent[j]
    BY <1>2, <1>4, <1>5
  <1>7. PICK u : u = [v EXCEPT !.ent = x]
    OBVIOUS
  <1>8. u \in Node /\ u.ent = x /\ u.dir = v.dir /\ u.att = v.att /\ u.data = v.data
    BY <1>6, <1>7 DEF Node
  <1>9. md = [nd EXCEPT ![d] = u]
    BY <1>1, <1>3, <1>5, <1>7
  <1>10. md \in Nodes /\ md[d] = u /\ \A e \in Cluster : e # d => md[e] = nd[e]
    BY <1>8, <1>9 DEF Nodes
  <1> QED
    BY <1>1, <1>4, <1>6, <1>8, <1>10 DEF EntryGone

LEMMA GoneGiven ==
  ASSUME NEW nd \in Nodes, NEW d \in Cluster, NEW i \in Given(nd, d), NEW md,
         EntryGone(nd, md, d, i)
  PROVE  /\ Given(md, d) = Given(nd, d) \ {i} /\ Indices(md[d].ent, Self) = Indices(nd[d].ent, Self)
         /\ \A j \in Given(md, d) : md[d].ent[j] = nd[d].ent[j]
         /\ \A j \in Indices(md[d].ent, Self) : md[d].ent[j] = nd[d].ent[j]
         /\ \A e \in Cluster : e # d => Given(md, e) = Given(nd, e)
  <1>1. NoName \notin Names /\ NoName # Self /\ Self \notin Names
    BY ConstantsAre
  <1>2. i \in 1 .. Len(nd[d].ent) /\ nd[d].ent[i].name \in Names
    BY GivenIs
  <1>3. /\ Len(md[d].ent) = Len(nd[d].ent) /\ md[d].ent[i].name = NoName
        /\ \A j \in 1 .. Len(nd[d].ent) : j # i => md[d].ent[j] = nd[d].ent[j]
    BY DEF EntryGone
  <1>4. Given(md, d) = Given(nd, d) \ {i}
    BY <1>1, <1>2, <1>3 DEF Given
  <1>5. Indices(md[d].ent, Self) = Indices(nd[d].ent, Self)
    BY <1>1, <1>2, <1>3 DEF Indices
  <1>6. i \notin Indices(md[d].ent, Self)
    BY <1>1, <1>3 DEF Indices
  <1> QED
    BY <1>3, <1>4, <1>5, <1>6 DEF EntryGone, Given, Indices

(* A file, or a directory with nothing in it, is deleted.                   *)
LEMMA LeafRemoved ==
  ASSUME NEW nd, NEW live, NEW h, IsTree(nd, live, h), NEW u, Marked(nd, u, live),
         NEW d \in live, NEW i \in Given(nd, d), NEW c, c = nd[d].ent[i].at, Given(nd, c) = {},
         NEW md, EntryGone(nd, md, d, i)
  PROVE  IsTree(md, live \ {c}, h) /\ Marked(md, u \ ({c} \cup nd[c].data), live \ {c})
  <1>1. /\ nd \in Nodes /\ live \subseteq Cluster /\ h \in [Cluster -> 0 .. MaxDepth]
        /\ Root \in live /\ h[Root] = 0 /\ live \cap System = {} /\ Parented(nd, live)
    BY DEF IsTree
  <1>2. c \in live /\ c # d /\ c # Root
    BY DepthIs
  <1>3. /\ Given(md, d) = Given(nd, d) \ {i} /\ Indices(md[d].ent, Self) = Indices(nd[d].ent, Self)
        /\ \A j \in Given(md, d) : md[d].ent[j] = nd[d].ent[j]
        /\ \A j \in Indices(md[d].ent, Self) : md[d].ent[j] = nd[d].ent[j]
        /\ \A e \in Cluster : e # d => Given(md, e) = Given(nd, e)
    BY <1>1, GoneGiven
  <1>4. \A e \in Cluster : e # d => md[e] = nd[e]
    BY DEF EntryGone
  <1>5. \A e \in live : /\ Given(md, e) \subseteq Given(nd, e)
                        /\ \A j \in Given(md, e) : md[e].ent[j] = nd[e].ent[j]
    BY <1>1, <1>3, <1>4
  <1>6. ASSUME NEW e \in live, NEW j \in Given(md, e) PROVE nd[e].ent[j].at \in live \ {c}
    <2>1. j \in Given(nd, e) /\ nd[e].ent[j].at \in live
      BY <1>5, DepthIs
    <2>2. nd[e].ent[j].at = c => e = d /\ j = i
      BY <2>1 DEF IsTree, Parented
    <2> QED
      BY <1>3, <2>1, <2>2
  <1>7. ASSUME NEW e \in live \ {c} PROVE Listed(md, live \ {c}, h, e)
    <2>1. Listed(nd, live, h, e)
      BY DEF IsTree
    <2>2. /\ md[e].dir = nd[e].dir /\ md[e].att = nd[e].att
          /\ Indices(md[e].ent, Self) = Indices(nd[e].ent, Self)
          /\ \A j \in Indices(md[e].ent, Self) : md[e].ent[j] = nd[e].ent[j]
      BY <1>1, <1>3, <1>4 DEF EntryGone
    <2>3. \A j \in Given(md, e) :
            /\ j \in Given(nd, e) /\ md[e].ent[j] = nd[e].ent[j] /\ nd[e].ent[j].at \in live \ {c}
      BY <1>5, <1>6
    <2> QED
      BY <2>1, <2>2, <2>3 DEF Listed
  <1>8. Parented(md, live \ {c})
    <2>1. ASSUME NEW b \in live \ {c}, b # Root
          PROVE  \E e \in live \ {c} : \E j \in Given(md, e) : md[e].ent[j].at = b
      <3>1. PICK e \in live : \E j \in Given(nd, e) : nd[e].ent[j].at = b
        BY <1>1, <2>1 DEF Parented
      <3>2. PICK j \in Given(nd, e) : nd[e].ent[j].at = b
        BY <3>1
      <3>3. e # c /\ ~ (e = d /\ j = i)
        BY <2>1, <3>2
      <3>4. j \in Given(md, e)
        BY <1>1, <1>3, <3>2, <3>3
      <3>5. md[e].ent[j].at = b
        BY <1>5, <3>2, <3>4
      <3> QED
        BY <3>3, <3>4, <3>5
    <2>2. ASSUME NEW e \in live \ {c}, NEW f \in live \ {c}, NEW j \in Given(md, e),
                 NEW k \in Given(md, f), md[e].ent[j].at = md[f].ent[k].at
          PROVE  e = f /\ j = k
      <3>1. /\ j \in Given(nd, e) /\ k \in Given(nd, f)
            /\ md[e].ent[j] = nd[e].ent[j] /\ md[f].ent[k] = nd[f].ent[k]
        BY <1>5
      <3>2. nd[e].ent[j].at = nd[f].ent[k].at
        BY <2>2, <3>1
      <3> QED
        BY <1>1, <3>1, <3>2 DEF Parented
    <2> QED
      BY <2>1, <2>2 DEF Parented
  <1>9. IsTree(md, live \ {c}, h)
    BY <1>1, <1>2, <1>7, <1>8 DEF IsTree, EntryGone
  <1>10. Marked(md, u \ ({c} \cup nd[c].data), live \ {c})
    <2>1. \A e \in live : md[e].data = nd[e].data
      BY <1>1, <1>4 DEF EntryGone
    <2>2. /\ \A e \in live : nd[e].data \cap (live \cup System) = {}
          /\ \A e, f \in live : e # f => nd[e].data \cap nd[f].data = {}
          /\ u = System \cup live \cup UNION { nd[e].data : e \in live }
      BY DEF Marked
    <2>3. /\ \A e \in live \ {c} : md[e].data \cap ((live \ {c}) \cup System) = {}
          /\ \A e, f \in live \ {c} : e # f => md[e].data \cap md[f].data = {}
      BY <2>1, <2>2
    <2>4. u \ ({c} \cup nd[c].data)
            = System \cup (live \ {c}) \cup UNION { md[e].data : e \in live \ {c} }
      <3>1. \A x : x \in u <=> x \in System \/ x \in live \/ \E e \in live : x \in nd[e].data
        BY <2>2
      <3>2. c \notin System /\ nd[c].data \cap (live \cup System) = {}
        BY <1>1, <1>2, <2>2
      <3>3. \A e \in live \ {c} : c \notin nd[e].data /\ nd[c].data \cap nd[e].data = {}
        BY <1>2, <2>2
      <3>4. \A x : x \in UNION { md[e].data : e \in live \ {c} }
                   <=> \E e \in live \ {c} : x \in nd[e].data
        BY <2>1
      <3> QED
        BY <3>1, <3>2, <3>3, <3>4
    <2> QED
      BY <2>3, <2>4 DEF Marked
  <1> QED
    BY <1>9, <1>10

(* md is nd with an entry x in directory d for a new node c, and clusters   *)
(* more in the directory.                                                   *)
EntryMade(nd, md, d, x, c, more, data) ==
  /\ md \in Nodes /\ \A e \in Cluster : e # d /\ e # c => md[e] = nd[e]
  /\ md[d].dir = nd[d].dir /\ md[d].att = nd[d].att /\ md[d].data = nd[d].data \cup more
  /\ Indices(md[d].ent, Self) = Indices(nd[d].ent, Self)
  /\ \A j \in Given(nd, d) \cup Indices(nd[d].ent, Self) : md[d].ent[j] = nd[d].ent[j]
  /\ \E i \in Nat : /\ i \notin Given(nd, d) /\ Given(md, d) = Given(nd, d) \cup {i}
                    /\ md[d].ent[i].name = x /\ md[d].ent[i].at = c
  /\ Given(md, c) = {} /\ \A j \in Indices(md[c].ent, Self) : md[c].ent[j].at = c
  /\ "read" \in md[c].att /\ md[c].data = data

LEMMA LeafAdded ==
  ASSUME NEW nd, NEW live, NEW h, IsTree(nd, live, h), NEW u, Marked(nd, u, live),
         NEW d \in live, h[d] < MaxDepth, nd[d].dir,
         NEW x \in Names, \A j \in Given(nd, d) : nd[d].ent[j].name # x,
         NEW c \in Cluster, c \notin u, NEW more, NEW data,
         more \cap (u \cup {c}) = {}, data \cap (u \cup {c} \cup more) = {},
         NEW md, EntryMade(nd, md, d, x, c, more, data)
  PROVE  /\ IsTree(md, live \cup {c}, [h EXCEPT ![c] = h[d] + 1])
         /\ Marked(md, u \cup {c} \cup more \cup data, live \cup {c})
  <1>1. /\ nd \in Nodes /\ live \subseteq Cluster /\ h \in [Cluster -> 0 .. MaxDepth]
        /\ Root \in live /\ h[Root] = 0 /\ live \cap System = {} /\ Parented(nd, live)
    BY DEF IsTree
  <1>2. /\ \A e \in live : nd[e].data \cap (live \cup System) = {}
        /\ \A e, f \in live : e # f => nd[e].data \cap nd[f].data = {}
        /\ u = System \cup live \cup UNION { nd[e].data : e \in live }
    BY DEF Marked
  <1>3. c \notin live /\ c \notin System /\ c # d
    BY <1>2
  <1>4. PICK g : g = [h EXCEPT ![c] = h[d] + 1]
    OBVIOUS
  <1>5. /\ g \in [Cluster -> 0 .. MaxDepth] /\ g[c] = h[d] + 1 /\ \A e \in live : g[e] = h[e]
        /\ g[Root] = 0
    <2>1. h[d] \in 0 .. MaxDepth /\ h[d] + 1 \in 0 .. MaxDepth
      BY <1>1, ConstantsAre
    <2> QED
      BY <1>1, <1>3, <1>4, <2>1
  <1>6. PICK i \in Nat : /\ i \notin Given(nd, d) /\ Given(md, d) = Given(nd, d) \cup {i}
                         /\ md[d].ent[i].name = x /\ md[d].ent[i].at = c
    BY DEF EntryMade
  <1>7. /\ \A e \in Cluster : e # d /\ e # c => md[e] = nd[e]
        /\ Given(md, c) = {}
        /\ \A j \in Given(nd, d) : md[d].ent[j] = nd[d].ent[j]
    BY DEF EntryMade
  <1>8. ASSUME NEW e \in live
        PROVE  /\ Given(nd, e) \subseteq Given(md, e)
               /\ \A j \in Given(nd, e) : md[e].ent[j] = nd[e].ent[j]
               /\ \A j \in Given(md, e) : j \in Given(nd, e) \/ (e = d /\ j = i)
    <2>1. CASE e = d
      BY <1>6, <1>7, <2>1
    <2>2. CASE e # d
      <3>1. md[e] = nd[e]
        BY <1>1, <1>3, <1>7, <2>2
      <3> QED
        BY <3>1 DEF Given
    <2> QED
      BY <2>1, <2>2
  <1>9. ASSUME NEW e \in live PROVE Listed(md, live \cup {c}, g, e)
    <2>1. Listed(nd, live, h, e)
      BY DEF IsTree
    <2>2. /\ md[e].dir = nd[e].dir /\ md[e].att = nd[e].att
          /\ Indices(md[e].ent, Self) = Indices(nd[e].ent, Self)
          /\ \A j \in Indices(md[e].ent, Self) : md[e].ent[j] = nd[e].ent[j]
      BY <1>1, <1>3, <1>7 DEF EntryMade
    <2>3. ASSUME NEW j \in Given(md, e)
          PROVE  md[e].ent[j].at \in live \cup {c} /\ g[md[e].ent[j].at] = g[e] + 1
      <3>1. CASE j \in Given(nd, e)
        <4>1. nd[e].ent[j].at \in live /\ h[nd[e].ent[j].at] = h[e] + 1
          BY <2>1, <3>1 DEF Listed
        <4> QED
          BY <1>5, <1>8, <3>1, <4>1
      <3>2. CASE e = d /\ j = i
        BY <1>5, <1>6, <3>2
      <3> QED
        BY <1>8, <3>1, <3>2
    <2>4. Given(md, e) # {} => md[e].dir
      <3>1. Given(md, e) # {} => Given(nd, e) # {} \/ e = d
        BY <1>8
      <3> QED
        BY <2>1, <2>2, <3>1 DEF Listed
    <2>5. ASSUME NEW j \in Given(md, e), NEW k \in Given(md, e),
                 md[e].ent[j].name = md[e].ent[k].name
          PROVE  j = k
      <3>1. CASE j \in Given(nd, e) /\ k \in Given(nd, e)
        BY <1>8, <2>1, <2>5, <3>1 DEF Listed
      <3>2. CASE e = d /\ j = i /\ k \in Given(nd, e)
        BY <1>6, <1>8, <2>5, <3>2
      <3>3. CASE e = d /\ k = i /\ j \in Given(nd, e)
        BY <1>6, <1>8, <2>5, <3>3
      <3> QED
        BY <1>8, <3>1, <3>2, <3>3
    <2> QED
      BY <2>1, <2>2, <2>3, <2>4, <2>5 DEF Listed
  <1>10. Listed(md, live \cup {c}, g, c)
    BY <1>7 DEF Listed, EntryMade
  <1>11. Parented(md, live \cup {c})
    <2>1. ASSUME NEW b \in live \cup {c}, b # Root
          PROVE  \E e \in live \cup {c} : \E j \in Given(md, e) : md[e].ent[j].at = b
      <3>1. CASE b = c
        BY <1>6, <3>1
      <3>2. CASE b \in live
        <4>1. PICK e \in live : \E j \in Given(nd, e) : nd[e].ent[j].at = b
          BY <1>1, <2>1, <3>2 DEF Parented
        <4>2. PICK j \in Given(nd, e) : nd[e].ent[j].at = b
          BY <4>1
        <4>3. j \in Given(md, e) /\ md[e].ent[j].at = b
          BY <1>8, <4>2
        <4> QED
          BY <4>3
      <3> QED
        BY <3>1, <3>2
    <2>2. ASSUME NEW e \in live \cup {c}, NEW j \in Given(md, e)
          PROVE  /\ e \in live
                 /\ \/ j \in Given(nd, e) /\ md[e].ent[j].at = nd[e].ent[j].at
                       /\ nd[e].ent[j].at \in live
                    \/ e = d /\ j = i /\ md[e].ent[j].at = c
      <3>1. e \in live
        BY <1>7
      <3>2. j \in Given(nd, e) => nd[e].ent[j].at \in live
        BY <3>1, DepthIs
      <3> QED
        BY <1>6, <1>8, <3>1, <3>2
    <2>3. ASSUME NEW e \in live \cup {c}, NEW f \in live \cup {c}, NEW j \in Given(md, e),
                 NEW k \in Given(md, f), md[e].ent[j].at = md[f].ent[k].at
          PROVE  e = f /\ j = k
      <3>1. CASE md[e].ent[j].at = c
        <4>1. e = d /\ j = i
          BY <1>3, <2>2, <3>1
        <4>2. md[f].ent[k].at = c
          BY <2>3, <3>1
        <4>3. f = d /\ k = i
          BY <1>3, <2>2, <4>2
        <4> QED
          BY <4>1, <4>3
      <3>2. CASE md[e].ent[j].at # c
        <4>1. /\ e \in live /\ f \in live /\ j \in Given(nd, e) /\ k \in Given(nd, f)
              /\ nd[e].ent[j].at = nd[f].ent[k].at
          BY <2>2, <2>3, <3>2
        <4> QED
          BY <1>1, <4>1 DEF Parented
      <3> QED
        BY <3>1, <3>2
    <2> QED
      BY <2>1, <2>3 DEF Parented
  <1>12. IsTree(md, live \cup {c}, g)
    <2>1. live \cup {c} \in SUBSET Cluster /\ (live \cup {c}) \cap System = {}
      BY <1>1, <1>3
    <2> QED
      BY <1>1, <1>5, <1>9, <1>10, <1>11, <2>1 DEF IsTree, EntryMade
  <1>13. Marked(md, u \cup {c} \cup more \cup data, live \cup {c})
    <2>1. /\ md[c].data = data /\ md[d].data = nd[d].data \cup more
          /\ \A e \in live : e # d => md[e].data = nd[e].data
      BY <1>1, <1>3 DEF EntryMade
    <2>2. \A e \in live : nd[e].data \subseteq u /\ nd[e].data \cap {c} = {} /\ live \subseteq u
                          /\ System \subseteq u
      BY <1>2
    <2>3. \A e \in live \cup {c} : md[e].data \cap (live \cup {c} \cup System) = {}
      BY <1>2, <2>1, <2>2
    <2>4. ASSUME NEW e \in live \cup {c}, NEW f \in live \cup {c}, e # f
          PROVE  md[e].data \cap md[f].data = {}
      <3>1. CASE e = c \/ f = c
        BY <1>3, <2>1, <2>2, <2>4, <3>1
      <3>2. CASE e # c /\ f # c
        BY <1>2, <2>1, <2>2, <2>4, <3>2
      <3> QED
        BY <3>1, <3>2
    <2>5. u \cup {c} \cup more \cup data
            = System \cup (live \cup {c}) \cup UNION { md[e].data : e \in live \cup {c} }
      <3>1. \A y : y \in UNION { md[e].data : e \in live \cup {c} }
                   <=> y \in data \/ y \in more \/ \E e \in live : y \in nd[e].data
        BY <1>3, <2>1
      <3>2. \A y : y \in u <=> y \in System \/ y \in live \/ \E e \in live : y \in nd[e].data
        BY <1>2
      <3> QED
        BY <3>1, <3>2
    <2> QED
      BY <2>3, <2>4, <2>5 DEF Marked
  <1> QED
    BY <1>4, <1>12, <1>13

(* md is nd with entry i of directory d renamed to y. *)
EntryRenamed(nd, md, d, i, y) ==
  /\ md \in Nodes /\ \A e \in Cluster : e # d => md[e] = nd[e]
  /\ md[d].dir = nd[d].dir /\ md[d].att = nd[d].att /\ md[d].data = nd[d].data
  /\ Indices(md[d].ent, Self) = Indices(nd[d].ent, Self) /\ Given(md, d) = Given(nd, d)
  /\ \A j \in (Given(nd, d) \cup Indices(nd[d].ent, Self)) \ {i} : md[d].ent[j] = nd[d].ent[j]
  /\ md[d].ent[i].name = y /\ md[d].ent[i].at = nd[d].ent[i].at

(* The clusters of data do not change. *)
LEMMA SameMarked ==
  ASSUME NEW nd, NEW md, NEW u, NEW live, Marked(nd, u, live),
         \A e \in live : md[e].data = nd[e].data
  PROVE  Marked(md, u, live)
  BY DEF Marked

LEMMA NodeRenamed ==
  ASSUME NEW nd, NEW live, NEW h, IsTree(nd, live, h), NEW u, Marked(nd, u, live),
         NEW d \in live, NEW i \in Given(nd, d),
         NEW y \in Names, \A j \in Given(nd, d) : nd[d].ent[j].name # y,
         NEW md, EntryRenamed(nd, md, d, i, y)
  PROVE  IsTree(md, live, h) /\ Marked(md, u, live)
  <1>1. /\ nd \in Nodes /\ live \subseteq Cluster /\ Parented(nd, live)
        /\ \A e \in live : Listed(nd, live, h, e)
    BY DEF IsTree
  <1>2. \A e \in live : /\ e # d => md[e] = nd[e]
                        /\ md[e].dir = nd[e].dir /\ md[e].att = nd[e].att
                        /\ md[e].data = nd[e].data
    BY <1>1 DEF EntryRenamed
  <1>3. i \notin Indices(nd[d].ent, Self)
    <2>1. nd[d].ent[i].name \in Names
      BY <1>1, GivenIs
    <2> QED
      BY <2>1, ConstantsAre DEF Indices
  <1>4. ASSUME NEW e \in live
        PROVE  /\ Given(md, e) = Given(nd, e)
               /\ Indices(md[e].ent, Self) = Indices(nd[e].ent, Self)
               /\ \A j \in Indices(md[e].ent, Self) : md[e].ent[j].at = nd[e].ent[j].at
               /\ \A j \in Given(md, e) : /\ md[e].ent[j].at = nd[e].ent[j].at
                                          /\ \/ md[e].ent[j].name = nd[e].ent[j].name
                                             \/ e = d /\ j = i
    <2>1. CASE e = d
      BY <1>3, <2>1 DEF EntryRenamed
    <2>2. CASE e # d
      BY <1>2, <2>2 DEF Given
    <2> QED
      BY <2>1, <2>2
  <1>5. ASSUME NEW e \in live PROVE Listed(md, live, h, e)
    <2>1. Listed(nd, live, h, e)
      BY <1>1
    <2>2. ASSUME NEW j \in Given(md, e), NEW k \in Given(md, e),
                 md[e].ent[j].name = md[e].ent[k].name
          PROVE  j = k
      <3>1. j \in Given(nd, e) /\ k \in Given(nd, e)
        BY <1>4
      <3>2. CASE e = d /\ (j = i \/ k = i)
        <4>1. md[d].ent[i].name = y
          BY DEF EntryRenamed
        <4>2. \A m \in Given(nd, d) : md[d].ent[m].name = y => m = i
          BY <1>4
        <4> QED
          BY <2>2, <3>1, <3>2, <4>1, <4>2
      <3>3. CASE ~ (e = d /\ (j = i \/ k = i))
        <4>1. md[e].ent[j].name = nd[e].ent[j].name /\ md[e].ent[k].name = nd[e].ent[k].name
          BY <1>4, <3>3
        <4> QED
          BY <2>1, <2>2, <3>1, <4>1 DEF Listed
      <3> QED
        BY <3>2, <3>3
    <2> QED
      BY <1>2, <1>4, <2>1, <2>2 DEF Listed
  <1>6. Parented(md, live)
    BY <1>1, <1>4 DEF Parented
  <1>7. IsTree(md, live, h)
    BY <1>5, <1>6 DEF IsTree, EntryRenamed
  <1> QED
    BY <1>2, <1>7, SameMarked

(* What a node is and may be read by changes. *)
LEMMA NodeMarked ==
  ASSUME NEW nd, NEW live, NEW h, IsTree(nd, live, h), NEW u, Marked(nd, u, live),
         NEW md \in Nodes,
         \A e \in live : /\ md[e].ent = nd[e].ent /\ md[e].data = nd[e].data
                         /\ "read" \in md[e].att /\ (Given(nd, e) # {} => md[e].dir)
  PROVE  IsTree(md, live, h) /\ Marked(md, u, live)
  <1>1. /\ nd \in Nodes /\ live \subseteq Cluster /\ Parented(nd, live)
        /\ \A e \in live : Listed(nd, live, h, e)
    BY DEF IsTree
  <1>2. \A e \in live : Given(md, e) = Given(nd, e)
    BY DEF Given
  <1>3. ASSUME NEW e \in live PROVE Listed(md, live, h, e)
    BY <1>1, <1>2 DEF Listed
  <1>4. Parented(md, live)
    BY <1>1, <1>2 DEF Parented
  <1>5. IsTree(md, live, h)
    BY <1>3, <1>4 DEF IsTree
  <1> QED
    BY <1>5, SameMarked

LEMMA FrontOfAppend ==
  ASSUME NEW S, NEW q \in Seq(S), NEW x \in S
  PROVE  Front(Append(q, x)) = q /\ Last(Append(q, x)) = x
  <1>1. PICK p : p = Append(q, x)
    OBVIOUS
  <1>2. /\ p \in Seq(S) /\ Len(p) = Len(q) + 1 /\ p[Len(q) + 1] = x /\ Len(q) \in Nat
        /\ \A i \in 1 .. Len(q) : p[i] = q[i]
    BY <1>1, AppendIs
  <1>3. PICK f : f = Front(p)
    OBVIOUS
  <1>4. f \in Seq(S) /\ Len(f) = Len(q) /\ \A i \in 1 .. Len(q) : f[i] = p[i]
    BY <1>2, <1>3 DEF Front
  <1>5. \A i \in 1 .. Len(f) : f[i] = q[i]
    BY <1>2, <1>4
  <1>6. f = q
    BY <1>4, <1>5, SeqEqual
  <1> QED
    BY <1>1, <1>2, <1>3, <1>6 DEF Last

LEMMA AtIs == ASSUME NEW path, NEW c, Walk(path) = {c} PROVE At(path) = c /\ Exists(path)
  BY DEF At, Exists

(* A directory is looked for "." to reach it. *)
LEMMA ParentWalk ==
  ASSUME node \in Nodes, NEW path \in Seq(Names), Len(path) # 0
  PROVE  Walk(Parent(path)) = NextAt(node, WalkIn(node, Front(path)), Self)
  <1>1. PICK q \in Seq(Names) : q = Front(path)
    BY FrontIs
  <1>2. q \in Seq(Names \cup {Self}) /\ Self \in Names \cup {Self}
    BY <1>1
  <1>3. Append(q, Self) \in Seq(Names \cup {Self})
    BY <1>2, AppendIs
  <1>4. Walk(Append(q, Self)) = WalkIn(node, Append(q, Self))
    BY <1>3, WalkIs
  <1>5. WalkIn(node, Append(q, Self)) = NextAt(node, WalkIn(node, q), Self)
    BY <1>2, WalkAppend
  <1> QED
    BY <1>1, <1>4, <1>5 DEF Parent

(* "." leads to the directory it is in. *)
LEMMA ParentIs ==
  ASSUME NEW live, NEW h, IsTree(node, live, h), NEW path \in Seq(Names), Len(path) # 0,
         NEW c \in Walk(Parent(path))
  PROVE  /\ c \in live /\ WalkIn(node, Front(path)) = {c} /\ h[c] = Len(path) - 1
         /\ At(Parent(path)) = c /\ Indices(node[c].ent, Self) # {}
  <1>1. node \in Nodes /\ live \subseteq Cluster
    BY DEF IsTree
  <1>2. PICK q : q = Front(path)
    OBVIOUS
  <1>3. q \in Seq(Names) /\ Len(q) = Len(path) - 1
    BY <1>2, FrontIs
  <1>4. Walk(Parent(path)) = NextAt(node, WalkIn(node, q), Self)
    BY <1>1, <1>2, ParentWalk
  <1>5. PICK d \in live : WalkIn(node, q) = {d} /\ h[d] = Len(q)
    <2>1. Leads(node, live, h, q)
      BY <1>3, WalkLeads
    <2>2. WalkIn(node, q) # {}
      BY <1>4 DEF NextAt
    <2> QED
      BY <2>1, <2>2 DEF Leads
  <1>6. Walk(Parent(path)) = FindIn(node, d, Self)
    BY <1>4, <1>5 DEF NextAt
  <1>7. /\ Place(node[d].ent, Self) \in Indices(node[d].ent, Self)
        /\ FindIn(node, d, Self) = {node[d].ent[Place(node[d].ent, Self)].at}
    <2>1. d \in Cluster /\ FindIn(node, d, Self) # {}
      BY <1>1, <1>6
    <2> QED
      BY <1>1, <2>1, FindInIs
  <1>8. node[d].ent[Place(node[d].ent, Self)].at = d
    BY <1>7 DEF IsTree, Listed
  <1>9. c = d /\ Walk(Parent(path)) = {c}
    BY <1>6, <1>7, <1>8
  <1> QED
    BY <1>2, <1>3, <1>5, <1>7, <1>9, AtIs

(* A directory with "." is reached by it. *)
LEMMA ParentFound ==
  ASSUME NEW live, NEW h, IsTree(node, live, h), NEW path \in Seq(Names), Len(path) # 0,
         NEW d \in live, WalkIn(node, Front(path)) = {d}, Indices(node[d].ent, Self) # {}
  PROVE  Walk(Parent(path)) = {d}
  <1>1. node \in Nodes /\ d \in Cluster
    BY DEF IsTree
  <1>2. Walk(Parent(path)) = FindIn(node, d, Self)
    BY <1>1, ParentWalk DEF NextAt
  <1>3. /\ Place(node[d].ent, Self) \in Indices(node[d].ent, Self)
        /\ FindIn(node, d, Self) = {node[d].ent[Place(node[d].ent, Self)].at}
    BY <1>1, FindInIs
  <1>4. node[d].ent[Place(node[d].ent, Self)].at = d
    BY <1>3 DEF IsTree, Listed
  <1> QED
    BY <1>2, <1>3, <1>4

LEMMA OpensParent ==
  ASSUME NEW live, NEW h, IsTree(node, live, h), NEW path \in Seq(Names), Len(path) # 0,
         NEW mode, Opens(Parent(path), TRUE, mode), NEW d, d = At(Parent(path))
  PROVE  /\ d \in live /\ WalkIn(node, Front(path)) = {d} /\ h[d] = Len(path) - 1
         /\ node[d].dir /\ mode \subseteq node[d].att
  <1>1. PICK c \in Walk(Parent(path)) : node[c].dir = TRUE /\ mode \subseteq node[c].att
    BY DEF Opens
  <1>2. /\ c \in live /\ WalkIn(node, Front(path)) = {c} /\ h[c] = Len(path) - 1
        /\ At(Parent(path)) = c
    BY ParentIs
  <1> QED
    BY <1>1, <1>2

LEMMA OpensDotted ==
  ASSUME NEW live, NEW h, IsTree(node, live, h), NEW path \in Seq(Names), Len(path) # 0,
         NEW mode, Opens(Parent(path), TRUE, mode)
  PROVE  Indices(node[At(Parent(path))].ent, Self) # {}
  <1>1. PICK c : c \in Walk(Parent(path))
    BY DEF Opens
  <1> QED
    BY <1>1, ParentIs

(* The node a pathname leads to, and the entry it is found by.              *)
LEMMA NodeIs ==
  ASSUME NEW live, NEW h, IsTree(node, live, h), NEW path \in Seq(Names), Len(path) # 0,
         Exists(path)
  PROVE  \E d \in live : \E i \in Given(node, d) :
           /\ WalkIn(node, Front(path)) = {d} /\ h[d] = Len(path) - 1
           /\ node[d].ent[i].name = Last(path) /\ Place(node[d].ent, Last(path)) = i
           /\ node[d].ent[i].at = At(path) /\ Walk(path) = {At(path)} /\ At(path) \in live
  <1>1. PICK q \in Seq(Names), x \in Names :
          /\ q = Front(path) /\ x = Last(path) /\ Len(q) = Len(path) - 1 /\ path = Append(q, x)
    <2>1. /\ Front(path) \in Seq(Names) /\ Last(path) \in Names
          /\ Len(Front(path)) = Len(path) - 1 /\ path = Append(Front(path), Last(path))
      BY FrontIs
    <2> QED
      BY <2>1
  <1>2. Walk(path) = WalkIn(node, Append(q, x))
    BY <1>1, WalkIs DEF IsTree
  <1>3. PICK c : c \in WalkIn(node, Append(q, x))
    BY <1>2 DEF Exists
  <1>4. PICK d \in live : \E i \in Given(node, d) :
           /\ WalkIn(node, q) = {d} /\ h[d] = Len(q) /\ node[d].ent[i].name = x
           /\ Place(node[d].ent, x) = i /\ node[d].ent[i].at = c
           /\ WalkIn(node, Append(q, x)) = {c}
    BY <1>3, StepTo
  <1>5. PICK i \in Given(node, d) :
           /\ WalkIn(node, q) = {d} /\ h[d] = Len(q) /\ node[d].ent[i].name = x
           /\ Place(node[d].ent, x) = i /\ node[d].ent[i].at = c
           /\ WalkIn(node, Append(q, x)) = {c}
    BY <1>4
  <1>6. At(path) = c /\ Walk(path) = {c}
    BY <1>2, <1>5, AtIs
  <1>7. c \in live
    BY <1>5, DepthIs
  <1> QED
    BY <1>1, <1>5, <1>6, <1>7

(* What _os9_delete deletes has nothing below it. *)
LEMMA UnlinkIs ==
  ASSUME NEW live, NEW h, IsTree(node, live, h), NEW path \in Seq(Names), Len(path) # 0,
         DeleteResult(path) = "ok", Unlink(path)
  PROVE  \E d \in live : \E i \in Given(node, d) :
           /\ WalkIn(node, Front(path)) = {d} /\ h[d] = Len(path) - 1
           /\ node[d].ent[i].name = Last(path) /\ Place(node[d].ent, Last(path)) = i
           /\ node[d].ent[i].at = At(path) /\ Walk(path) = {At(path)} /\ At(path) \in live
           /\ Given(node, At(path)) = {} /\ EntryGone(node, node', d, i)
           /\ used' = used \ ({At(path)} \cup node[At(path)].data)
  <1>1. /\ ~ Opens(path, TRUE, {"read"}) /\ Opens(Parent(path), TRUE, {"write"}) /\ Exists(path)
    BY DEF DeleteResult
  <1>2. PICK d \in live : \E i \in Given(node, d) :
           /\ WalkIn(node, Front(path)) = {d} /\ h[d] = Len(path) - 1
           /\ node[d].ent[i].name = Last(path) /\ Place(node[d].ent, Last(path)) = i
           /\ node[d].ent[i].at = At(path) /\ Walk(path) = {At(path)} /\ At(path) \in live
    BY <1>1, NodeIs
  <1>3. PICK i \in Given(node, d) :
           /\ WalkIn(node, Front(path)) = {d} /\ h[d] = Len(path) - 1
           /\ node[d].ent[i].name = Last(path) /\ Place(node[d].ent, Last(path)) = i
           /\ node[d].ent[i].at = At(path) /\ Walk(path) = {At(path)} /\ At(path) \in live
    BY <1>2
  <1>4. At(Parent(path)) = d
    <2>1. WalkIn(node, Front(path)) = {At(Parent(path))}
      BY <1>1, OpensParent
    <2> QED
      BY <1>3, <2>1
  <1>5. Given(node, At(path)) = {}
    <2>1. node[At(path)].dir \in BOOLEAN /\ node[At(path)].dir # TRUE
      <3>1. node[At(path)] \in Node /\ "read" \in node[At(path)].att
        BY <1>3 DEF IsTree, Nodes, Listed
      <3>2. node[At(path)].dir # TRUE
        BY <1>1, <1>3, <3>1 DEF Opens
      <3> QED
        BY <3>1, <3>2 DEF Node
    <2> QED
      BY <1>3, <2>1 DEF IsTree, Listed
  <1>6. /\ used' = used \ ({At(path)} \cup node[At(path)].data)
        /\ node' = [node EXCEPT ![d].ent[i].name = NoName]
    BY <1>3, <1>4 DEF Unlink, Place
  <1>7. EntryGone(node, node', d, i)
    BY <1>6, EntryGoneIs DEF IsTree
  <1> QED
    BY <1>3, <1>5, <1>6, <1>7

-----------------------------------------------------------------------------
(* The clusters a new node takes *)

(* S has the k lowest of F. *)
IsLowest(S, k, F) == S \in kSubset(k, F) /\ \A c \in S, x \in F \ S : c < x

LEMMA LeastIs ==
  ASSUME NEW S \in SUBSET Nat, S # {}
  PROVE  Min(S) \in S /\ \A x \in S : Min(S) <= x
  <1>1. PICK i \in S : \A j \in S : i <= j
    BY LeastNumber
  <1>2. Min(S) = i
    BY <1>1, LeastOf
  <1> QED
    BY <1>1, <1>2

LEMMA LowestExists ==
  ASSUME NEW F \in SUBSET Nat, IsFiniteSet(F)
  PROVE  \A k \in Nat : k <= Cardinality(F) => \E S : IsLowest(S, k, F)
  <1> DEFINE K == { k \in Nat : k <= Cardinality(F) => \E S : IsLowest(S, k, F) }
  <1>1. 0 \in K
    <2>1. IsLowest({}, 0, F)
      BY FS_EmptySet DEF IsLowest, kSubset
    <2> QED
      BY <2>1
  <1>2. ASSUME NEW k \in Nat, k \in K PROVE k + 1 \in K
    <2> SUFFICES ASSUME k + 1 <= Cardinality(F) PROVE \E S : IsLowest(S, k + 1, F)
      OBVIOUS
    <2>1. Cardinality(F) \in Nat
      BY FS_CardinalityType
    <2>2. PICK S : IsLowest(S, k, F)
      BY <1>2, <2>1
    <2>3. S \in SUBSET F /\ Cardinality(S) = k /\ \A c \in S, x \in F \ S : c < x
      BY <2>2 DEF IsLowest, kSubset
    <2>4. IsFiniteSet(S)
      BY <2>3, FS_Subset
    <2>5. F \ S # {}
      <3> SUFFICES ASSUME F \ S = {} PROVE FALSE
        OBVIOUS
      <3>1. S = F
        BY <2>3
      <3> QED
        BY <2>1, <2>3, <3>1
    <2>6. PICK m \in F \ S : \A x \in F \ S : m <= x
      BY <2>5, LeastNumber
    <2>7. Cardinality(S \cup {m}) = k + 1
      BY <2>3, <2>4, <2>6, FS_AddElement
    <2>8. \A c \in S \cup {m}, x \in F \ (S \cup {m}) : c < x
      <3> SUFFICES ASSUME NEW c \in S \cup {m}, NEW x \in F \ (S \cup {m}) PROVE c < x
        OBVIOUS
      <3>1. CASE c \in S
        BY <2>3, <3>1
      <3>2. CASE c = m
        BY <2>6, <3>2
      <3> QED
        BY <3>1, <3>2
    <2>9. IsLowest(S \cup {m}, k + 1, F)
      BY <2>3, <2>7, <2>8 DEF IsLowest, kSubset
    <2> QED
      BY <2>9
  <1>3. Nat \subseteq K
    <2> HIDE DEF K
    <2> QED
      BY <1>1, <1>2, AllNumbers
  <1> QED
    BY <1>3

(* The lowest has the first, and if there are more, the second. *)
LEMMA LowestHas ==
  ASSUME NEW F \in SUBSET Nat, IsFiniteSet(F), NEW k \in Nat \ {0}, NEW S, IsLowest(S, k, F)
  PROVE  /\ S \subseteq F /\ F # {} /\ Min(F) \in S
         /\ k >= 2 => F \ {Min(F)} # {} /\ Min(F \ {Min(F)}) \in S
  <1>1. S \in SUBSET F /\ Cardinality(S) = k /\ \A c \in S, x \in F \ S : c < x
    BY DEF IsLowest, kSubset
  <1>2. IsFiniteSet(S)
    BY <1>1, FS_Subset
  <1>3. S # {}
    BY <1>1, FS_EmptySet
  <1>4. PICK m \in F : m = Min(F) /\ \A x \in F : m <= x
    BY <1>1, <1>3, LeastIs
  <1>5. m \in S
    <2> SUFFICES ASSUME m \notin S PROVE FALSE
      OBVIOUS
    <2>1. PICK c \in S : TRUE
      BY <1>3
    <2>2. c < m /\ m <= c /\ c \in Nat /\ m \in Nat
      BY <1>1, <1>4, <2>1
    <2> QED
      BY <2>2
  <1>6. ASSUME k >= 2 PROVE F \ {m} # {} /\ Min(F \ {m}) \in S
    <2>1. S \ {m} # {}
      <3> SUFFICES ASSUME S \ {m} = {} PROVE FALSE
        OBVIOUS
      <3>1. S = {m}
        BY <1>5
      <3>2. Cardinality({m}) = 1
        BY FS_Singleton
      <3> QED
        BY <1>1, <1>6, <3>1, <3>2
    <2>2. PICK c \in S : c # m
      BY <2>1
    <2>3. PICK g \in F \ {m} : g = Min(F \ {m}) /\ \A x \in F \ {m} : g <= x
      <3>1. F \ {m} \in SUBSET Nat /\ F \ {m} # {}
        BY <1>1, <2>2
      <3> QED
        BY <3>1, LeastIs
    <2>4. g \in S
      <3> SUFFICES ASSUME g \notin S PROVE FALSE
        OBVIOUS
      <3>1. c < g /\ g <= c /\ c \in Nat /\ g \in Nat
        BY <1>1, <2>2, <2>3
      <3> QED
        BY <3>1
    <2> QED
      BY <1>1, <2>2, <2>3, <2>4
  <1> QED
    BY <1>1, <1>3, <1>4, <1>5, <1>6

LEMMA LowestIs ==
  ASSUME NEW k \in Nat \ {0}, k <= Cardinality(FreeClusters)
  PROVE  /\ Lowest(k) \subseteq FreeClusters /\ Min(FreeClusters) \in Lowest(k)
         /\ k >= 2 => Min(FreeClusters \ {Min(FreeClusters)}) \in Lowest(k)
                      /\ Min(FreeClusters \ {Min(FreeClusters)}) # Min(FreeClusters)
  <1>1. PICK F : F = FreeClusters
    OBVIOUS
  <1>2. F \in SUBSET Nat /\ IsFiniteSet(F)
    <2>1. Clusters - 1 \in Int /\ 0 \in Int
      BY ConstantsAre
    <2>2. IsFiniteSet(Cluster)
      BY <2>1, FS_Interval DEF Cluster
    <2>3. F \in SUBSET Cluster
      BY <1>1 DEF FreeClusters
    <2> QED
      BY <2>2, <2>3, FS_Subset, ConstantsAre
  <1>3. PICK S : IsLowest(S, k, F)
    BY <1>1, <1>2, LowestExists
  <1>4. PICK L : L = Lowest(k)
    OBVIOUS
  <1>5. IsLowest(L, k, F)
    BY <1>1, <1>3, <1>4 DEF Lowest, IsLowest
  <1>6. /\ L \subseteq F /\ F # {} /\ Min(F) \in L
        /\ k >= 2 => F \ {Min(F)} # {} /\ Min(F \ {Min(F)}) \in L
    BY <1>2, <1>5, LowestHas
  <1>7. F \ {Min(F)} # {} => Min(F \ {Min(F)}) \in F \ {Min(F)}
    <2> SUFFICES ASSUME F \ {Min(F)} # {} PROVE Min(F \ {Min(F)}) \in F \ {Min(F)}
      OBVIOUS
    <2>1. PICK G : G = F \ {Min(F)}
      OBVIOUS
    <2> QED
      BY <1>2, <2>1, LeastIs
  <1> QED
    BY <1>1, <1>4, <1>6, <1>7

(* The entries of a file or directory. *)
Named(ent) == { i \in 1 .. Len(ent) : ent[i].name \in Names }

(* r is ent with an entry e more. *)
HasEntered(ent, r, e) ==
  /\ r \in Seq(Entry) /\ Indices(r, Self) = Indices(ent, Self)
  /\ \A j \in Named(ent) \cup Indices(ent, Self) : r[j] = ent[j]
  /\ \E i \in Nat : i \notin Named(ent) /\ Named(r) = Named(ent) \cup {i} /\ r[i] = e

LEMMA EnteredIs ==
  ASSUME NEW ent \in Seq(Entry), NEW e \in Entry, e.name \in Names, NEW r,
         r = IF Place(ent, NoName) = 0 THEN Append(ent, e)
             ELSE [ent EXCEPT ![Place(ent, NoName)] = e]
  PROVE  HasEntered(ent, r, e)
  <1>1. e.name # NoName /\ e.name # Self /\ NoName \notin Names /\ NoName # Self
    BY ConstantsAre
  <1>2. Len(ent) \in Nat /\ \A j \in Named(ent) \cup Indices(ent, Self) : j \in 1 .. Len(ent)
    BY DEF Named, Indices
  <1>3. CASE Place(ent, NoName) = 0
    <2>1. /\ r \in Seq(Entry) /\ Len(r) = Len(ent) + 1 /\ r[Len(ent) + 1] = e
          /\ \A i \in 1 .. Len(ent) : r[i] = ent[i]
      BY <1>3, AppendIs
    <2>2. PICK n \in Nat : n = Len(ent)
      BY <1>2
    <2>3. \A i : i \in 1 .. Len(r) <=> i \in 1 .. n \/ i = n + 1
      BY <2>1, <2>2
    <2>4. n + 1 \notin 1 .. n /\ n + 1 \in Nat
      BY <2>2
    <2>5. Indices(r, Self) = Indices(ent, Self)
      BY <1>1, <2>1, <2>2, <2>3, <2>4 DEF Indices
    <2>6. Named(r) = Named(ent) \cup {n + 1} /\ n + 1 \notin Named(ent)
      BY <1>1, <2>1, <2>2, <2>3, <2>4 DEF Named
    <2>7. \A j \in Named(ent) \cup Indices(ent, Self) : r[j] = ent[j]
      BY <1>2, <2>1
    <2>8. r[n + 1] = e
      BY <2>1, <2>2
    <2> QED
      BY <2>1, <2>4, <2>5, <2>6, <2>7, <2>8 DEF HasEntered
  <1>4. CASE Place(ent, NoName) # 0
    <2>1. PICK n : n = Place(ent, NoName) /\ n \in Indices(ent, NoName)
      BY <1>4, PlaceIs
    <2>2. n \in 1 .. Len(ent) /\ ent[n].name = NoName /\ n \in Nat
      BY <2>1 DEF Indices
    <2>3. r = [ent EXCEPT ![n] = e]
      BY <1>4, <2>1
    <2>4. /\ r \in Seq(Entry) /\ Len(r) = Len(ent) /\ r[n] = e
          /\ \A i \in 1 .. Len(ent) : i # n => r[i] = ent[i]
      <3>1. PICK z : z = [ent EXCEPT ![n] = e]
        OBVIOUS
      <3>2. /\ z \in Seq(Entry) /\ Len(z) = Len(ent)
            /\ \A j \in 1 .. Len(ent) : z[j] = IF j = n THEN e ELSE ent[j]
        <4>1. n \in 1 .. Len(ent)
          BY <2>2
        <4> QED
          BY <3>1, <4>1, ExceptSeq
      <3>3. z = r
        BY <2>3, <3>1
      <3> QED
        BY ONLY <2>2, <3>2, <3>3
    <2>5. Indices(r, Self) = Indices(ent, Self)
      BY <1>1, <2>2, <2>4 DEF Indices
    <2>6. Named(r) = Named(ent) \cup {n} /\ n \notin Named(ent)
      BY <1>1, <2>2, <2>4 DEF Named
    <2>7. n \notin Indices(ent, Self)
      BY <1>1, <2>2 DEF Indices
    <2>8. \A j \in Named(ent) \cup Indices(ent, Self) : r[j] = ent[j]
      BY <1>2, <2>4, <2>6, <2>7
    <2> QED
      BY <2>2, <2>4, <2>5, <2>6, <2>8 DEF HasEntered
  <1> QED
    BY <1>3, <1>4

NodesWith(nd, d, E, more, c, f) == [nd EXCEPT ![d].ent = E, ![d].data = @ \cup more, ![c] = f]

TwoChanged(nd, md, d, E, more, c, f) ==
  /\ md \in Nodes /\ md[c] = f /\ \A e \in Cluster : e # d /\ e # c => md[e] = nd[e]
  /\ md[d].ent = E /\ md[d].data = nd[d].data \cup more
  /\ md[d].dir = nd[d].dir /\ md[d].att = nd[d].att

LEMMA TwoNodes ==
  ASSUME NEW nd \in Nodes, NEW d \in Cluster, NEW c \in Cluster, c # d, NEW E \in Seq(Entry),
         NEW more \in SUBSET Cluster, NEW f \in Node, NEW md,
         md = NodesWith(nd, d, E, more, c, f)
  PROVE  TwoChanged(nd, md, d, E, more, c, f)
  <1>1. nd[d] \in Node
    BY DEF Nodes
  <1>2. PICK a : a = [nd[d] EXCEPT !.ent = E]
    OBVIOUS
  <1>3. a \in Node /\ a.ent = E /\ a.data = nd[d].data /\ a.dir = nd[d].dir /\ a.att = nd[d].att
    BY <1>1, <1>2 DEF Node
  <1>4. PICK b : b = [a EXCEPT !.data = @ \cup more]
    OBVIOUS
  <1>5. /\ b \in Node /\ b.ent = E /\ b.data = nd[d].data \cup more
        /\ b.dir = nd[d].dir /\ b.att = nd[d].att
    BY <1>3, <1>4 DEF Node
  <1>6. md = [nd EXCEPT ![d] = b, ![c] = f]
    BY <1>2, <1>4 DEF NodesWith, Nodes
  <1>7. md \in Nodes /\ md[c] = f /\ md[d] = b /\ \A e \in Cluster : e # d /\ e # c => md[e] = nd[e]
    BY <1>5, <1>6 DEF Nodes
  <1> QED
    BY <1>5, <1>7 DEF TwoChanged

FilledWith(new, data, dots, at, dir) ==
  [new EXCEPT !.data = data,
              !.ent = IF dots THEN << [name |-> Up, at |-> dir], [name |-> Self, at |-> at] >>
                      ELSE << >>]

IsFilled(f, new, data, at) ==
  /\ f \in Node /\ f.data = data /\ f.att = new.att
  /\ Named(f.ent) = {} /\ \A j \in Indices(f.ent, Self) : f.ent[j].at = at

LEMMA FilledIs ==
  ASSUME NEW new \in Node, NEW data \in SUBSET Cluster, NEW at \in Cluster, NEW dir \in Cluster,
         NEW b \in BOOLEAN, NEW f,
         f = FilledWith(new, data, b, at, dir)
  PROVE  IsFilled(f, new, data, at)
  <1>1. PICK u \in Entry, v \in Entry :
          /\ u = [name |-> Up, at |-> dir] /\ v = [name |-> Self, at |-> at]
    BY DEF Entry
  <1>2. u.name \notin Names /\ v.name \notin Names /\ v.at = at /\ u.name # Self
    <2>1. u.name = Up /\ v.name = Self /\ v.at = at
      BY <1>1
    <2>2. Up # Self
      BY TreeAssumption
    <2> QED
      BY <2>1, <2>2, ConstantsAre
  <1>3. PICK E : E = IF b THEN << u, v >> ELSE << >>
    OBVIOUS
  <1>4. E \in Seq(Entry) /\ Named(E) = {} /\ \A j \in Indices(E, Self) : E[j].at = at
    <2>1. CASE b
      <3>1. PICK w : w = << u, v >>
        OBVIOUS
      <3>2. w \in Seq(Entry) /\ Len(w) = 2 /\ w[1] = u /\ w[2] = v
        BY <3>1
      <3>3. E = w
        BY <1>3, <2>1, <3>1
      <3>4. \A j \in 1 .. Len(w) : j = 1 \/ j = 2
        BY <3>2
      <3>5. Named(w) = {}
        BY <1>2, <3>2, <3>4 DEF Named
      <3>6. \A j \in Indices(w, Self) : w[j].at = at
        BY <1>2, <3>2, <3>4 DEF Indices
      <3> QED
        BY <3>2, <3>3, <3>5, <3>6
    <2>2. CASE ~ b
      <3>1. E = << >>
        BY <1>3, <2>2
      <3>2. E \in Seq(Entry) /\ Len(E) = 0
        BY <3>1
      <3>3. 1 .. Len(E) = {}
        BY <3>2
      <3> QED
        BY <3>2, <3>3 DEF Named, Indices
    <2> QED
      BY <2>1, <2>2
  <1>5. f = [new EXCEPT !.data = data, !.ent = E]
    BY <1>1, <1>3 DEF FilledWith
  <1>6. f \in Node /\ f.data = data /\ f.att = new.att /\ f.ent = E
    BY <1>4, <1>5 DEF Node
  <1> QED
    BY <1>4, <1>6 DEF IsFilled

(* A name that leads nowhere is not in the directory. *)
LEMMA NameIsNew ==
  ASSUME NEW live, NEW h, IsTree(node, live, h), NEW path \in Seq(Names), Len(path) # 0,
         NEW d \in live, WalkIn(node, Front(path)) = {d}, ~ Exists(path)
  PROVE  \A j \in Given(node, d) : node[d].ent[j].name # Last(path)
  <1> SUFFICES ASSUME NEW j \in Given(node, d), node[d].ent[j].name = Last(path)
               PROVE  FALSE
    OBVIOUS
  <1>1. node \in Nodes
    BY DEF IsTree
  <1>2. PICK q \in Seq(Names), x \in Names :
          q = Front(path) /\ x = Last(path) /\ path = Append(q, x)
    BY FrontIs
  <1>3. Walk(path) = FindIn(node, d, x)
    <2>1. Walk(path) = WalkIn(node, path)
      BY <1>1, WalkIs
    <2>2. WalkIn(node, Append(q, x)) = NextAt(node, WalkIn(node, q), x)
      BY <1>1, <1>2, WalkAppend
    <2>3. NextAt(node, {d}, x) = FindIn(node, d, x)
      BY DEF NextAt
    <2> QED
      BY <1>2, <2>1, <2>2, <2>3
  <1>4. FindIn(node, d, x) = {node[d].ent[j].at}
    BY <1>2, FindsGiven
  <1> QED
    BY <1>3, <1>4 DEF Exists

LEMMA GivenIsNamed == ASSUME NEW nd, NEW d PROVE Given(nd, d) = Named(nd[d].ent)
  BY DEF Given, Named

-----------------------------------------------------------------------------
(* What _os9_open_parent_directory finds *)

(* A directory that has files has ".", and the root may be written.         *)
Dotted(nd) ==
  /\ "write" \in nd[Root].att
  /\ \A c \in Cluster : Given(nd, c) # {} => Indices(nd[c].ent, Self) # {}

LEMMA MadeDotted ==
  ASSUME NEW nd, Dotted(nd), NEW d \in Cluster, NEW c \in Cluster, c # d, c # Root,
         Indices(nd[d].ent, Self) # {}, NEW md, NEW x, NEW more, NEW data,
         EntryMade(nd, md, d, x, c, more, data)
  PROVE  Dotted(md)
  <1>1. /\ \A e \in Cluster : e # d /\ e # c => md[e] = nd[e]
        /\ md[d].att = nd[d].att /\ Indices(md[d].ent, Self) = Indices(nd[d].ent, Self)
        /\ Given(md, c) = {}
    BY DEF EntryMade
  <1>2. "write" \in md[Root].att
    BY <1>1, ConstantsAre DEF Dotted
  <1>3. ASSUME NEW e \in Cluster, Given(md, e) # {} PROVE Indices(md[e].ent, Self) # {}
    <2>1. CASE e = d
      BY <1>1, <2>1
    <2>2. CASE e # d
      <3>1. md[e] = nd[e]
        BY <1>1, <1>3, <2>2
      <3>2. Given(md, e) = Given(nd, e)
        BY <3>1 DEF Given
      <3> QED
        BY <1>3, <3>1, <3>2 DEF Dotted
    <2> QED
      BY <2>1, <2>2
  <1> QED
    BY <1>2, <1>3 DEF Dotted

LEMMA GoneDotted ==
  ASSUME NEW nd \in Nodes, Dotted(nd), NEW d \in Cluster, NEW i \in Given(nd, d), NEW md,
         EntryGone(nd, md, d, i)
  PROVE  Dotted(md)
  <1>1. /\ \A e \in Cluster : e # d => md[e] = nd[e]
        /\ md[d].att = nd[d].att
    BY DEF EntryGone
  <1>2. /\ Given(md, d) = Given(nd, d) \ {i} /\ Indices(md[d].ent, Self) = Indices(nd[d].ent, Self)
        /\ \A e \in Cluster : e # d => Given(md, e) = Given(nd, e)
    BY GoneGiven
  <1>3. "write" \in md[Root].att
    BY <1>1, ConstantsAre DEF Dotted
  <1>4. ASSUME NEW e \in Cluster, Given(md, e) # {} PROVE Indices(md[e].ent, Self) # {}
    <2>1. CASE e = d
      <3>1. Given(nd, d) # {}
        OBVIOUS
      <3> QED
        BY <1>2, <2>1, <3>1 DEF Dotted
    <2>2. CASE e # d
      BY <1>1, <1>2, <1>4, <2>2 DEF Dotted
    <2> QED
      BY <2>1, <2>2
  <1> QED
    BY <1>3, <1>4 DEF Dotted

LEMMA RenamedDotted ==
  ASSUME NEW nd, Dotted(nd), NEW d \in Cluster, NEW i, NEW y, NEW md,
         EntryRenamed(nd, md, d, i, y)
  PROVE  Dotted(md)
  <1>1. /\ \A e \in Cluster : e # d => md[e] = nd[e]
        /\ md[d].att = nd[d].att
        /\ Indices(md[d].ent, Self) = Indices(nd[d].ent, Self) /\ Given(md, d) = Given(nd, d)
    BY DEF EntryRenamed
  <1>2. "write" \in md[Root].att
    BY <1>1, ConstantsAre DEF Dotted
  <1>3. ASSUME NEW e \in Cluster, Given(md, e) # {} PROVE Indices(md[e].ent, Self) # {}
    <2>1. CASE e = d
      BY <1>1, <1>3, <2>1 DEF Dotted
    <2>2. CASE e # d
      <3>1. md[e] = nd[e]
        BY <1>1, <2>2
      <3>2. Given(md, e) = Given(nd, e)
        BY <3>1 DEF Given
      <3> QED
        BY <1>3, <3>1, <3>2 DEF Dotted
    <2> QED
      BY <2>1, <2>2
  <1> QED
    BY <1>2, <1>3 DEF Dotted

LEMMA SameDotted ==
  ASSUME NEW nd, Dotted(nd), NEW md, \A e \in Cluster : md[e].ent = nd[e].ent,
         "write" \in md[Root].att
  PROVE  Dotted(md)
  <1>1. ASSUME NEW e \in Cluster, Given(md, e) # {} PROVE Indices(md[e].ent, Self) # {}
    <2>1. Given(md, e) = Given(nd, e) /\ Indices(md[e].ent, Self) = Indices(nd[e].ent, Self)
      BY DEF Given
    <2> QED
      BY <1>1, <2>1 DEF Dotted
  <1> QED
    BY <1>1 DEF Dotted

Shaped(nd, u) == \E live, h : IsTree(nd, live, h) /\ Marked(nd, u, live)

DataOf(need, wants) == IF Cardinality(FreeClusters) - need < wants THEN 0 ELSE wants

GrownOf(need, at) == IF need = 2 THEN {Min(FreeClusters \ {at})} ELSE {}

Takes(taken, at, grown) ==
  taken \subseteq FreeClusters /\ at \in taken /\ grown \subseteq taken /\ at \notin grown

(* What is free when something is made, and what is taken of it. *)
LEMMA TakenIs ==
  ASSUME NEW need \in {1, 2}, need <= Cardinality(FreeClusters), NEW wants \in Nat, NEW data,
         data = DataOf(need, wants), NEW at, at = Min(FreeClusters),
         NEW grown, grown = GrownOf(need, at)
  PROVE  Takes(Lowest(need + data), at, grown)
  <1>1. PICK n : n = Cardinality(FreeClusters)
    OBVIOUS
  <1>2. n \in Nat
    <2>1. Clusters - 1 \in Int /\ 0 \in Int
      BY ConstantsAre
    <2>2. IsFiniteSet(Cluster)
      BY <2>1, FS_Interval DEF Cluster
    <2>3. FreeClusters \in SUBSET Cluster
      BY DEF FreeClusters
    <2>4. IsFiniteSet(FreeClusters)
      BY <2>2, <2>3, FS_Subset
    <2> QED
      BY <1>1, <2>4, FS_CardinalityType
  <1>3. data \in Nat /\ need + data <= n
    <2>1. CASE n - need < wants
      BY <1>1, <1>2, <2>1 DEF DataOf
    <2>2. CASE ~ n - need < wants
      BY <1>1, <1>2, <2>2 DEF DataOf
    <2> QED
      BY <2>1, <2>2
  <1>4. PICK k \in Nat \ {0} : k = need + data /\ k <= n /\ (need = 2 => k >= 2)
    BY <1>3
  <1>5. /\ Lowest(k) \subseteq FreeClusters /\ Min(FreeClusters) \in Lowest(k)
        /\ k >= 2 => Min(FreeClusters \ {Min(FreeClusters)}) \in Lowest(k)
                     /\ Min(FreeClusters \ {Min(FreeClusters)}) # Min(FreeClusters)
    BY <1>1, <1>4, LowestIs
  <1>6. CASE need = 2
    BY <1>4, <1>5, <1>6 DEF GrownOf, Takes
  <1>7. CASE need = 1
    BY <1>4, <1>5, <1>7 DEF GrownOf, Takes
  <1> QED
    BY <1>6, <1>7

LEMMA CreateShapes ==
  ASSUME Shaped(node, used), NEW path \in Seq(Names), Len(path) \in 1 .. MaxDepth,
         NEW new \in Node, "read" \in new.att, NEW wants \in Nat, Create(path, new, wants)
  PROVE  Shaped(node', used') /\ (Dotted(node) => Dotted(node'))
  <1>1. PICK live, h : IsTree(node, live, h) /\ Marked(node, used, live)
    BY DEF Shaped
  <1>2. node \in Nodes /\ live \subseteq Cluster /\ Len(path) # 0 /\ live \subseteq used
    BY <1>1 DEF IsTree, Marked
  <1>3. PICK dir : dir = At(Parent(path))
    OBVIOUS
  <1>4. dir \in live /\ WalkIn(node, Front(path)) = {dir} /\ h[dir] = Len(path) - 1 /\ node[dir].dir
        /\ Indices(node[dir].ent, Self) # {}
    <2>1. Opens(Parent(path), TRUE, {"write"})
      BY DEF Create
    <2>2. /\ dir \in live /\ WalkIn(node, Front(path)) = {dir} /\ h[dir] = Len(path) - 1
          /\ node[dir].dir
      <3>1. IsTree(node, live, h) /\ path \in Seq(Names) /\ Len(path) # 0
            /\ Opens(Parent(path), TRUE, {"write"}) /\ dir = At(Parent(path))
        BY <1>1, <1>2, <1>3, <2>1
      <3> QED
        BY ONLY <3>1, OpensParent
    <2>3. Indices(node[dir].ent, Self) # {}
      BY <1>1, <1>2, <1>3, <2>1, OpensDotted
    <2> QED
      BY <2>2, <2>3
  <1>5. PICK x : x = Last(path)
    OBVIOUS
  <1>6. x \in Names /\ \A j \in Given(node, dir) : node[dir].ent[j].name # x
    <2>1. ~ Exists(path)
      BY DEF Create
    <2>2. Last(path) \in Names
      BY <1>2, FrontIs
    <2> QED
      BY <1>1, <1>2, <1>4, <1>5, <2>1, <2>2, NameIsNew
  <1>7. PICK need \in {1, 2} : need = IF Grows(dir) THEN 2 ELSE 1
    OBVIOUS
  <1>8. PICK data : data = IF Cardinality(FreeClusters) - need < wants THEN 0 ELSE wants
    OBVIOUS
  <1>9. PICK at : at = Min(FreeClusters)
    OBVIOUS
  <1>10. PICK grown : grown = IF Grows(dir) THEN {Min(FreeClusters \ {at})} ELSE {}
    OBVIOUS
  <1>11. PICK taken : taken = Lowest(need + data)
    OBVIOUS
  <1>12. PICK filled : filled =
           [new EXCEPT !.data = taken \ ({at} \cup grown),
                       !.ent = IF new.dir /\ data # 0
                                 THEN << [name |-> Up, at |-> dir], [name |-> Self, at |-> at] >>
                                 ELSE << >>]
    OBVIOUS
  <1>13. PICK e : e = [name |-> x, at |-> at]
    OBVIOUS
  <1>14. PICK r : r = Entered(dir, e)
    OBVIOUS
  <1>15. /\ need <= Cardinality(FreeClusters) /\ used' = used \cup taken
         /\ node' = [node EXCEPT ![dir].ent = r, ![dir].data = @ \cup grown, ![at] = filled]
    BY <1>3, <1>5, <1>7, <1>8, <1>9, <1>10, <1>11, <1>12, <1>13, <1>14 DEF Create
  <1>16. taken \subseteq FreeClusters /\ at \in taken /\ grown \subseteq taken /\ at \notin grown
    <2>1. grown = GrownOf(need, at) /\ data = DataOf(need, wants)
      BY <1>7, <1>8, <1>10 DEF GrownOf, DataOf
    <2>2. need <= Cardinality(FreeClusters)
      BY <1>15
    <2>3. Takes(Lowest(need + data), at, grown)
      BY ONLY <1>9, <2>1, <2>2, need \in {1, 2}, wants \in Nat, TakenIs
    <2> QED
      BY <1>11, <2>3 DEF Takes
  <1>17. /\ taken \subseteq Cluster /\ taken \cap used = {} /\ at \in Cluster /\ at \notin used
         /\ grown \in SUBSET Cluster /\ dir \in Cluster /\ dir # at
    BY <1>2, <1>4, <1>16 DEF FreeClusters
  <1>18. PICK rest : rest = taken \ ({at} \cup grown)
    OBVIOUS
  <1>19. /\ filled \in Node /\ filled.data = rest /\ filled.att = new.att
         /\ Named(filled.ent) = {} /\ \A j \in Indices(filled.ent, Self) : filled.ent[j].at = at
    <2>1. PICK b \in BOOLEAN : b = (new.dir /\ data # 0)
      OBVIOUS
    <2>2. filled = FilledWith(new, rest, b, at, dir)
      BY <1>12, <1>18, <2>1 DEF FilledWith
    <2>3. rest \in SUBSET Cluster
      BY <1>17, <1>18
    <2>4. at \in Cluster /\ dir \in Cluster
      BY <1>17
    <2>5. IsFilled(filled, new, rest, at)
      BY ONLY <2>2, <2>3, <2>4, new \in Node, b \in BOOLEAN, FilledIs
    <2> QED
      BY <2>5 DEF IsFilled
  <1>20. PICK ent \in Seq(Entry) : ent = node[dir].ent
    BY <1>2, <1>17 DEF Nodes, Node
  <1>21. e \in Entry /\ e.name = x /\ e.at = at
    BY <1>6, <1>13, <1>17 DEF Entry
  <1>22. HasEntered(ent, r, e)
    <2>1. r = IF Place(ent, NoName) = 0 THEN Append(ent, e)
              ELSE [ent EXCEPT ![Place(ent, NoName)] = e]
      BY <1>14, <1>20 DEF Entered, Deleted, Place
    <2> QED
      BY <1>6, <1>20, <1>21, <2>1, EnteredIs
  <1>23. r \in Seq(Entry)
    BY <1>22 DEF HasEntered
  <1>24. PICK md : md = node'
    OBVIOUS
  <1>25. /\ md \in Nodes /\ md[at] = filled
         /\ \A c \in Cluster : c # dir /\ c # at => md[c] = node[c]
         /\ md[dir].ent = r /\ md[dir].data = node[dir].data \cup grown
         /\ md[dir].dir = node[dir].dir /\ md[dir].att = node[dir].att
    <2>1. md = NodesWith(node, dir, r, grown, at, filled)
      BY <1>15, <1>24 DEF NodesWith
    <2>2. /\ node \in Nodes /\ dir \in Cluster /\ at \in Cluster /\ at # dir
          /\ r \in Seq(Entry) /\ grown \in SUBSET Cluster /\ filled \in Node
      BY <1>2, <1>17, <1>19, <1>23
    <2>3. TwoChanged(node, md, dir, r, grown, at, filled)
      BY ONLY <2>1, <2>2, TwoNodes
    <2> QED
      BY <2>3 DEF TwoChanged
  <1>26. EntryMade(node, md, dir, x, at, grown, rest)
    <2>1. Given(node, dir) = Named(ent) /\ Given(md, dir) = Named(r) /\ Given(md, at) = Named(filled.ent)
      BY <1>20, <1>25, GivenIsNamed
    <2>2. PICK i \in Nat : i \notin Named(ent) /\ Named(r) = Named(ent) \cup {i} /\ r[i] = e
      BY <1>22 DEF HasEntered
    <2>3. /\ Indices(md[dir].ent, Self) = Indices(node[dir].ent, Self)
          /\ \A j \in Given(node, dir) \cup Indices(node[dir].ent, Self) :
               md[dir].ent[j] = node[dir].ent[j]
      BY <1>20, <1>22, <1>25, <2>1 DEF HasEntered
    <2>4. /\ i \notin Given(node, dir) /\ Given(md, dir) = Given(node, dir) \cup {i}
          /\ md[dir].ent[i].name = x /\ md[dir].ent[i].at = at
      BY <1>21, <1>25, <2>1, <2>2
    <2>5. Given(md, at) = {} /\ \A j \in Indices(md[at].ent, Self) : md[at].ent[j].at = at
      BY <1>19, <1>25, <2>1
    <2>6. "read" \in md[at].att /\ md[at].data = rest
      BY <1>19, <1>25
    <2> QED
      BY <1>25, <2>3, <2>4, <2>5, <2>6 DEF EntryMade
  <1>27. h[dir] < MaxDepth
    BY <1>4, ConstantsAre
  <1>28. grown \cap (used \cup {at}) = {} /\ rest \cap (used \cup {at} \cup grown) = {}
    BY <1>16, <1>17, <1>18
  <1>29. /\ IsTree(md, live \cup {at}, [h EXCEPT ![at] = h[dir] + 1])
         /\ Marked(md, used \cup {at} \cup grown \cup rest, live \cup {at})
    BY <1>1, <1>4, <1>6, <1>17, <1>26, <1>27, <1>28, LeafAdded
  <1>30. used' = used \cup {at} \cup grown \cup rest
    BY <1>15, <1>16, <1>18
  <1>31. Dotted(node) => Dotted(md)
    <2>1. at # Root /\ at # dir /\ dir \in Cluster /\ at \in Cluster
      BY <1>1, <1>2, <1>17 DEF IsTree
    <2> QED
      BY ONLY <1>4, <1>26, <2>1, MadeDotted
  <1> QED
    BY <1>24, <1>29, <1>30, <1>31 DEF Shaped

LEMMA UnlinkShapes ==
  ASSUME Shaped(node, used), NEW path \in Seq(Names), Len(path) # 0,
         DeleteResult(path) = "ok", Unlink(path)
  PROVE  Shaped(node', used') /\ (Dotted(node) => Dotted(node'))
  <1>1. PICK live, h : IsTree(node, live, h) /\ Marked(node, used, live)
    BY DEF Shaped
  <1>2. PICK d \in live : \E i \in Given(node, d) :
           /\ node[d].ent[i].at = At(path) /\ Given(node, At(path)) = {}
           /\ EntryGone(node, node', d, i)
           /\ used' = used \ ({At(path)} \cup node[At(path)].data)
    BY <1>1, UnlinkIs
  <1>3. PICK i \in Given(node, d) :
           /\ node[d].ent[i].at = At(path) /\ Given(node, At(path)) = {}
           /\ EntryGone(node, node', d, i)
           /\ used' = used \ ({At(path)} \cup node[At(path)].data)
    BY <1>2
  <1>4. PICK c : c = At(path)
    OBVIOUS
  <1>5. PICK md : md = node'
    OBVIOUS
  <1>6. c = node[d].ent[i].at /\ Given(node, c) = {} /\ EntryGone(node, md, d, i)
    BY <1>3, <1>4, <1>5
  <1>7. IsTree(md, live \ {c}, h) /\ Marked(md, used \ ({c} \cup node[c].data), live \ {c})
    BY <1>1, <1>6, LeafRemoved
  <1>8. Dotted(node) => Dotted(md)
    <2>1. node \in Nodes /\ d \in Cluster
      BY <1>1 DEF IsTree
    <2> QED
      BY <1>6, <2>1, GoneDotted
  <1> QED
    BY <1>3, <1>4, <1>5, <1>7, <1>8 DEF Shaped

LEMMA RenameShapes ==
  ASSUME Shaped(node, used), NEW path \in Seq(Names), Len(path) # 0, NEW y \in Names,
         Rename(path, y)
  PROVE  Shaped(node', used') /\ (Dotted(node) => Dotted(node'))
  <1>1. PICK live, h : IsTree(node, live, h) /\ Marked(node, used, live)
    BY DEF Shaped
  <1>2. node \in Nodes /\ live \subseteq Cluster
    BY <1>1 DEF IsTree
  <1>3. PICK dir : dir = At(Parent(path))
    OBVIOUS
  <1>4. dir \in live /\ WalkIn(node, Front(path)) = {dir}
    <2>1. Opens(Parent(path), TRUE, {"write"})
      BY DEF Rename
    <2> QED
      BY <1>1, <1>3, <2>1, OpensParent
  <1>5. PICK x : x = Last(path)
    OBVIOUS
  <1>6. x \in Names
    BY <1>5, FrontIs
  <1>7. PICK i \in Given(node, dir) : node[dir].ent[i].name = x
    <2>1. Exists(path)
      BY DEF Rename
    <2>2. PICK d \in live : \E i \in Given(node, d) :
            WalkIn(node, Front(path)) = {d} /\ node[d].ent[i].name = Last(path)
      BY <1>1, <2>1, NodeIs
    <2>3. d = dir
      BY <1>4, <2>2
    <2> QED
      BY <1>5, <2>2, <2>3
  <1>8. \A j \in Given(node, dir) : node[dir].ent[j].name = x => j = i
    BY <1>1, <1>4, <1>7 DEF IsTree, Listed
  <1>9. \A j \in Given(node, dir) : node[dir].ent[j].name # y
    <2>1. FindIn(node, dir, y) = {}
      BY <1>3, FindIs DEF Rename
    <2>2. \A j \in Given(node, dir) : node[dir].ent[j].name = y =>
              FindIn(node, dir, y) = {node[dir].ent[j].at}
      BY <1>1, <1>4, FindsGiven
    <2> QED
      BY <2>1, <2>2
  <1>10. PICK ent \in Seq(Entry) : ent = node[dir].ent
    BY <1>2, <1>4 DEF Nodes, Node
  <1>11. PICK r : r = [j \in DOMAIN ent |->
                         IF ent[j].name = x THEN [ent[j] EXCEPT !.name = y] ELSE ent[j]]
    OBVIOUS
  <1>12. node' = [node EXCEPT ![dir].ent = r] /\ used' = used
    BY <1>2, <1>3, <1>4, <1>5, <1>10, <1>11 DEF Rename, Nodes
  <1>13. PICK md : md = node'
    OBVIOUS
  <1>14. DOMAIN ent = 1 .. Len(ent) /\ Len(ent) \in Nat
    BY <1>10
  <1>15. \A j \in 1 .. Len(ent) : ent[j].name = x <=> j = i
    <2>1. i \in 1 .. Len(ent) /\ ent[i].name = x
      BY <1>7, <1>10 DEF Given
    <2>2. ASSUME NEW j \in 1 .. Len(ent), ent[j].name = x PROVE j = i
      <3>1. j \in Given(node, dir)
        BY <1>6, <1>10, <2>2 DEF Given
      <3> QED
        BY <1>8, <1>10, <2>2, <3>1
    <2> QED
      BY <2>1, <2>2
  <1>16. i \in 1 .. Len(ent) /\ ent[i] \in Entry
    BY <1>7, <1>10 DEF Given
  <1>17. PICK e : e = [ent[i] EXCEPT !.name = y]
    OBVIOUS
  <1>18. e \in Entry /\ e.name = y /\ e.at = ent[i].at
    BY <1>16, <1>17 DEF Entry
  <1>19. \A j \in 1 .. Len(ent) : r[j] = IF j = i THEN e ELSE ent[j]
    BY <1>11, <1>14, <1>15, <1>17
  <1>20. r \in Seq(Entry) /\ Len(r) = Len(ent)
    <2>1. r \in [1 .. Len(ent) -> Entry]
      <3>1. DOMAIN r = 1 .. Len(ent) /\ r = [j \in 1 .. Len(ent) |-> r[j]]
        BY <1>11, <1>14
      <3>2. \A j \in 1 .. Len(ent) : r[j] \in Entry
        BY <1>10, <1>18, <1>19
      <3> QED
        BY <3>1, <3>2
    <2> QED
      BY <1>14, <2>1
  <1>21. /\ md \in Nodes /\ \A c \in Cluster : c # dir => md[c] = node[c]
         /\ md[dir].ent = r /\ md[dir].dir = node[dir].dir
         /\ md[dir].att = node[dir].att /\ md[dir].data = node[dir].data
    <2>1. PICK b : b = [node[dir] EXCEPT !.ent = r]
      OBVIOUS
    <2>2. dir \in Cluster /\ node[dir] \in Node
      BY <1>2, <1>4 DEF Nodes
    <2>3. /\ b \in Node /\ b.ent = r /\ b.dir = node[dir].dir
          /\ b.att = node[dir].att /\ b.data = node[dir].data
      BY <1>20, <2>1, <2>2 DEF Node
    <2>4. md = [node EXCEPT ![dir] = b]
      BY <1>2, <1>12, <1>13, <2>1, <2>2 DEF Nodes
    <2>5. md \in Nodes /\ md[dir] = b /\ \A c \in Cluster : c # dir => md[c] = node[c]
      BY <1>2, <2>2, <2>3, <2>4 DEF Nodes
    <2> QED
      BY <2>3, <2>5
  <1>22. EntryRenamed(node, md, dir, i, y)
    <2>1. /\ Given(node, dir) \subseteq 1 .. Len(ent)
          /\ Indices(node[dir].ent, Self) \subseteq 1 .. Len(ent)
      BY <1>10 DEF Given, Indices
    <2>2. Given(md, dir) = Given(node, dir)
      BY <1>6, <1>10, <1>15, <1>18, <1>19, <1>20, <1>21 DEF Given
    <2>3. Indices(r, Self) = Indices(ent, Self)
      <3>1. y # Self /\ x # Self
        BY <1>6, ConstantsAre
      <3> QED
        BY <1>15, <1>18, <1>19, <1>20, <3>1 DEF Indices
    <2>4. \A j \in (Given(node, dir) \cup Indices(node[dir].ent, Self)) \ {i} :
            md[dir].ent[j] = node[dir].ent[j]
      BY <1>10, <1>19, <1>21, <2>1
    <2>5. md[dir].ent[i].name = y /\ md[dir].ent[i].at = node[dir].ent[i].at
      BY <1>10, <1>16, <1>18, <1>19, <1>21
    <2> QED
      BY <1>10, <1>21, <2>2, <2>3, <2>4, <2>5 DEF EntryRenamed
  <1>23. IsTree(md, live, h) /\ Marked(md, used, live)
    BY <1>1, <1>4, <1>9, <1>22, NodeRenamed
  <1>24. Dotted(node) => Dotted(md)
    <2>1. dir \in Cluster
      BY <1>2, <1>4
    <2> QED
      BY <1>22, <2>1, RenamedDotted
  <1> QED
    BY <1>12, <1>13, <1>23, <1>24 DEF Shaped

-----------------------------------------------------------------------------
(* The calls of _os9_delete_directory *)

Frames == [path : Seq(Names), pos : Nat, pc : {"read", "delete"}]

(* A call whose directory is there, and has no entry before the one it is   *)
(* at but that of the call it made.                                         *)
Passed(nd, live, h, f, x) ==
  /\ Len(f.path) # 0
  /\ \E d \in live : /\ WalkIn(nd, f.path) = {d} /\ h[d] = Len(f.path)
                     /\ \A i \in Given(nd, d) : i > f.pos \/ nd[d].ent[i].name = x

Stack(nd, st, live, h) ==
  /\ st \in Seq(Frames)
  /\ Len(st) # 0 => Passed(nd, live, h, st[Len(st)], NoName)
  /\ \A k \in 1 .. (Len(st) - 1) :
       /\ Passed(nd, live, h, st[k], Last(st[k + 1].path))
       /\ Front(st[k + 1].path) = st[k].path
  /\ \A k \in 1 .. Len(st) : Len(st[k].path) = Len(st[1].path) + (k - 1)

Tidy(nd, u, st) ==
  \E live, h : IsTree(nd, live, h) /\ Marked(nd, u, live) /\ Stack(nd, st, live, h)

LEMMA NoCalls == ASSUME NEW nd, NEW u, Shaped(nd, u) PROVE Tidy(nd, u, << >>)
  <1>1. PICK live, h : IsTree(nd, live, h) /\ Marked(nd, u, live)
    BY DEF Shaped
  <1>2. PICK st : st = << >>
    OBVIOUS
  <1>3. st \in Seq(Frames) /\ Len(st) = 0 /\ 1 .. Len(st) = {} /\ 1 .. (Len(st) - 1) = {}
    BY <1>2
  <1>4. Stack(nd, st, live, h)
    BY <1>3 DEF Stack
  <1> QED
    BY <1>1, <1>2, <1>4 DEF Tidy

LEMMA TidyShaped == ASSUME NEW nd, NEW u, NEW st, Tidy(nd, u, st) PROVE Shaped(nd, u)
  BY DEF Tidy, Shaped

(* md is nd at what is above depth k, all of which stays.                   *)
AboveStays(nd, live, h, md, live2, k) ==
  \A c \in live : h[c] < k => md[c] = nd[c] /\ c \in live2

LEMMA BelowStays ==
  ASSUME NEW nd, NEW live, NEW h, IsTree(nd, live, h), NEW md \in Nodes, NEW live2, NEW k \in Nat,
         AboveStays(nd, live, h, md, live2, k),
         NEW f \in Frames, Len(f.path) < k, NEW x, Passed(nd, live, h, f, x)
  PROVE  Passed(md, live2, h, f, x)
  <1>1. f.path \in Seq(Names)
    BY DEF Frames
  <1>2. PICK d \in live :
          /\ WalkIn(nd, f.path) = {d} /\ h[d] = Len(f.path)
          /\ \A i \in Given(nd, d) : i > f.pos \/ nd[d].ent[i].name = x
    BY DEF Passed
  <1>3. md[d] = nd[d] /\ d \in live2
    BY <1>2 DEF AboveStays
  <1>4. WalkIn(md, f.path) = WalkIn(nd, f.path)
    <2>1. PICK p \in Seq(Names) : p = f.path /\ Len(p) <= k
      BY <1>1
    <2>2. \A c \in live : h[c] < k => md[c] = nd[c]
      BY DEF AboveStays
    <2>3. WalkIn(md, p) = WalkIn(nd, p)
      BY <2>1, <2>2, AboveIsSame
    <2> QED
      BY <2>1, <2>3
  <1>5. Given(md, d) = Given(nd, d)
    BY <1>3 DEF Given
  <1> QED
    BY <1>2, <1>3, <1>4, <1>5 DEF Passed

(* st2 is st, but for the call under way. *)
TopIs(st, st2, f) ==
  /\ st2 \in Seq(Frames) /\ Len(st2) = Len(st) /\ st2[Len(st)] = f
  /\ \A k \in 1 .. (Len(st) - 1) : st2[k] = st[k]

LEMMA Restacked ==
  ASSUME NEW nd, NEW live, NEW h, IsTree(nd, live, h), NEW st, Stack(nd, st, live, h), Len(st) # 0,
         NEW md \in Nodes, NEW live2, NEW k \in Nat, k = Len(st[Len(st)].path),
         AboveStays(nd, live, h, md, live2, k),
         NEW f \in Frames, f.path = st[Len(st)].path, Passed(md, live2, h, f, NoName),
         NEW st2, TopIs(st, st2, f)
  PROVE  Stack(md, st2, live2, h)
  <1>1. PICK n \in Nat \ {0} : n = Len(st)
    BY DEF Stack
  <1>2. /\ \A j \in 1 .. n : st[j] \in Frames /\ st[j].path \in Seq(Names)
        /\ \A j \in 1 .. n : Len(st[j].path) = Len(st[1].path) + (j - 1)
        /\ \A j \in 1 .. (n - 1) : /\ Passed(nd, live, h, st[j], Last(st[j + 1].path))
                                   /\ Front(st[j + 1].path) = st[j].path
    <2>1. st \in Seq(Frames)
      BY DEF Stack
    <2>2. \A j \in 1 .. n : st[j] \in Frames
      BY <1>1, <2>1
    <2>3. \A g \in Frames : g.path \in Seq(Names)
      BY DEF Frames
    <2>4. \A j \in 1 .. n : Len(st[j].path) = Len(st[1].path) + (j - 1)
      BY <1>1 DEF Stack
    <2>5. \A j \in 1 .. (n - 1) : /\ Passed(nd, live, h, st[j], Last(st[j + 1].path))
                                   /\ Front(st[j + 1].path) = st[j].path
      BY <1>1 DEF Stack
    <2> QED
      BY <2>2, <2>3, <2>4, <2>5
  <1>3. /\ st2 \in Seq(Frames) /\ Len(st2) = n /\ st2[n] = f
        /\ \A j \in 1 .. (n - 1) : st2[j] = st[j]
    BY <1>1 DEF TopIs
  <1>4. \A j \in 1 .. n : st2[j].path = st[j].path
    <2> SUFFICES ASSUME NEW j \in 1 .. n PROVE st2[j].path = st[j].path
      OBVIOUS
    <2>1. CASE j = n
      BY <1>1, <1>3, <2>1
    <2>2. CASE j # n
      BY <1>3, <2>2
    <2> QED
      BY <2>1, <2>2
  <1>5. ASSUME NEW j \in 1 .. (n - 1)
        PROVE  /\ Passed(md, live2, h, st2[j], Last(st2[j + 1].path))
               /\ Front(st2[j + 1].path) = st2[j].path
    <2>1. j \in 1 .. n /\ j + 1 \in 1 .. n /\ n \in 1 .. n /\ 1 \in 1 .. n /\ j < n
      BY <1>5
    <2>2. Len(st[1].path) \in Nat /\ Len(st[j].path) \in Nat
      BY <1>2, <2>1
    <2>3. Len(st[j].path) < k
      <3>1. k = Len(st[1].path) + (n - 1) /\ Len(st[j].path) = Len(st[1].path) + (j - 1)
        BY <1>1, <1>2, <2>1
      <3> QED
        BY <2>1, <2>2, <3>1
    <2>4. PICK g \in Frames : g = st[j]
      BY <1>2, <2>1
    <2>8. PICK x : x = Last(st[j + 1].path)
      OBVIOUS
    <2>5. Passed(nd, live, h, g, x) /\ Len(g.path) < k
      BY <1>2, <1>5, <2>3, <2>4, <2>8
    <2>6. Passed(md, live2, h, g, x)
      BY <2>5, BelowStays
    <2>7. st2[j] = g /\ st2[j + 1].path = st[j + 1].path
      BY <1>3, <1>4, <1>5, <2>1, <2>4
    <2> QED
      BY <1>2, <1>5, <2>4, <2>6, <2>7, <2>8
  <1>6. \A j \in 1 .. Len(st2) : Len(st2[j].path) = Len(st2[1].path) + (j - 1)
    <2>1. 1 \in 1 .. n /\ Len(st2) = n
      BY <1>3
    <2>2. ASSUME NEW j \in 1 .. n PROVE Len(st2[j].path) = Len(st2[1].path) + (j - 1)
      <3>1. st2[j].path = st[j].path /\ st2[1].path = st[1].path
        BY <1>4, <2>1
      <3> QED
        BY <1>2, <3>1
    <2> QED
      BY <2>1, <2>2
  <1> QED
    BY <1>3, <1>5, <1>6 DEF Stack

StackIs(nd, live, h, st, n) ==
  /\ \A j \in 1 .. n : st[j] \in Frames /\ st[j].path \in Seq(Names)
  /\ \A j \in 1 .. n : Len(st[j].path) = Len(st[1].path) + (j - 1)
  /\ \A j \in 1 .. (n - 1) : /\ Passed(nd, live, h, st[j], Last(st[j + 1].path))
                             /\ Front(st[j + 1].path) = st[j].path

LEMMA StackFacts ==
  ASSUME NEW nd, NEW live, NEW h, NEW st, Stack(nd, st, live, h), NEW n \in Nat, n = Len(st)
  PROVE  StackIs(nd, live, h, st, n)
  <1>1. st \in Seq(Frames)
    BY DEF Stack
  <1>2. \A j \in 1 .. n : st[j] \in Frames
    BY <1>1
  <1>3. \A g \in Frames : g.path \in Seq(Names)
    BY DEF Frames
  <1>4. \A j \in 1 .. n : Len(st[j].path) = Len(st[1].path) + (j - 1)
    BY DEF Stack
  <1>5. \A j \in 1 .. (n - 1) : /\ Passed(nd, live, h, st[j], Last(st[j + 1].path))
                                /\ Front(st[j + 1].path) = st[j].path
    BY DEF Stack
  <1> QED
    BY <1>2, <1>3, <1>4, <1>5 DEF StackIs

(* A call has returned to the one that made it. *)
LEMMA Popped ==
  ASSUME NEW nd, NEW live, NEW h, IsTree(nd, live, h), NEW st, Stack(nd, st, live, h),
         NEW n \in Nat, n = Len(st), n > 1,
         NEW md \in Nodes, NEW live2, NEW k \in Nat, k = Len(st[n - 1].path),
         AboveStays(nd, live, h, md, live2, k),
         Passed(md, live2, h, st[n - 1], NoName), NEW st2, st2 = Front(st)
  PROVE  Stack(md, st2, live2, h)
  <1>1. StackIs(nd, live, h, st, n)
    BY StackFacts
  <1>2. st2 \in Seq(Frames) /\ Len(st2) = n - 1 /\ \A j \in 1 .. (n - 1) : st2[j] = st[j]
    <2>1. st \in Seq(Frames)
      BY DEF Stack
    <2>2. st2 = SubSeq(st, 1, n - 1)
      BY <2>1 DEF Front
    <2> QED
      BY <2>1, <2>2
  <1>3. \A j \in 1 .. n : st[j] \in Frames /\ Len(st[j].path) = Len(st[1].path) + (j - 1)
    BY <1>1 DEF StackIs
  <1>4. ASSUME NEW j \in 1 .. ((n - 1) - 1)
        PROVE  /\ Passed(md, live2, h, st2[j], Last(st2[j + 1].path))
               /\ Front(st2[j + 1].path) = st2[j].path
    <2>1. /\ j \in 1 .. n /\ j + 1 \in 1 .. n /\ j \in 1 .. (n - 1) /\ j + 1 \in 1 .. (n - 1)
          /\ n - 1 \in 1 .. n /\ 1 \in 1 .. n /\ j < n - 1
      BY <1>4
    <2>2. Len(st[1].path) \in Nat /\ Len(st[j].path) \in Nat
      <3>1. st[1].path \in Seq(Names) /\ st[j].path \in Seq(Names)
        BY <1>1, <2>1 DEF StackIs
      <3> QED
        BY <3>1
    <2>3. Len(st[j].path) < k
      <3>1. k = Len(st[1].path) + ((n - 1) - 1) /\ Len(st[j].path) = Len(st[1].path) + (j - 1)
        BY <1>3, <2>1
      <3> QED
        BY <2>1, <2>2, <3>1
    <2>4. PICK g \in Frames : g = st[j]
      BY <1>3, <2>1
    <2>8. PICK x : x = Last(st[j + 1].path)
      OBVIOUS
    <2>5. Passed(nd, live, h, g, x) /\ Len(g.path) < k /\ Front(st[j + 1].path) = g.path
      BY <1>1, <2>1, <2>3, <2>4, <2>8 DEF StackIs
    <2>6. Passed(md, live2, h, g, x)
      BY <2>5, BelowStays
    <2>7. st2[j] = g /\ st2[j + 1] = st[j + 1]
      BY <1>2, <2>1, <2>4
    <2> QED
      BY <2>4, <2>5, <2>6, <2>7, <2>8
  <1>5. \A j \in 1 .. (n - 1) : Len(st2[j].path) = Len(st2[1].path) + (j - 1)
    <2> SUFFICES ASSUME NEW j \in 1 .. (n - 1) PROVE Len(st2[j].path) = Len(st2[1].path) + (j - 1)
      OBVIOUS
    <2>1. 1 \in 1 .. (n - 1) /\ j \in 1 .. n
      OBVIOUS
    <2>2. st2[j] = st[j] /\ st2[1] = st[1]
      BY <1>2, <2>1
    <2> QED
      BY <1>3, <2>1, <2>2
  <1>6. Passed(md, live2, h, st2[n - 1], NoName)
    <2>1. n - 1 \in 1 .. (n - 1)
      OBVIOUS
    <2> QED
      BY <1>2, <2>1
  <1> QED
    BY <1>2, <1>4, <1>5, <1>6 DEF Stack

(* A call makes another, of one of its entries. *)
LEMMA Pushed ==
  ASSUME NEW nd, NEW live, NEW h, NEW st, Stack(nd, st, live, h),
         NEW n \in Nat \ {0}, n = Len(st),
         NEW f \in Frames, f.path = st[n].path, NEW g \in Frames,
         Passed(nd, live, h, f, Last(g.path)), Front(g.path) = f.path,
         Len(g.path) = Len(f.path) + 1, Passed(nd, live, h, g, NoName),
         NEW st1, TopIs(st, st1, f), NEW st2, st2 = Append(st1, g)
  PROVE  Stack(nd, st2, live, h)
  <1>1. StackIs(nd, live, h, st, n)
    BY StackFacts
  <1>2. st1 \in Seq(Frames) /\ Len(st1) = n /\ st1[n] = f /\ \A j \in 1 .. (n - 1) : st1[j] = st[j]
    BY DEF TopIs
  <1>3. /\ st2 \in Seq(Frames) /\ Len(st2) = n + 1 /\ st2[n + 1] = g
        /\ \A j \in 1 .. n : st2[j] = st1[j]
    BY <1>2, AppendIs
  <1>4. \A j \in 1 .. n : st2[j].path = st[j].path
    <2> SUFFICES ASSUME NEW j \in 1 .. n PROVE st2[j].path = st[j].path
      OBVIOUS
    <2>1. CASE j = n
      BY <1>2, <1>3, <2>1
    <2>2. CASE j # n
      BY <1>2, <1>3, <2>2
    <2> QED
      BY <2>1, <2>2
  <1>5. ASSUME NEW j \in 1 .. ((n + 1) - 1)
        PROVE  /\ Passed(nd, live, h, st2[j], Last(st2[j + 1].path))
               /\ Front(st2[j + 1].path) = st2[j].path
    <2>1. CASE j = n
      <3>1. st2[j] = f /\ st2[j + 1] = g
        BY <1>2, <1>3, <1>5, <2>1
      <3> QED
        BY <3>1
    <2>2. CASE j # n
      <3>1. j \in 1 .. (n - 1) /\ j \in 1 .. n /\ j + 1 \in 1 .. n
        BY <1>5, <2>2
      <3>2. st2[j] = st[j] /\ st2[j + 1].path = st[j + 1].path
        BY <1>2, <1>3, <1>4, <3>1
      <3> QED
        BY <1>1, <3>1, <3>2 DEF StackIs
    <2> QED
      BY <2>1, <2>2
  <1>6. ASSUME NEW j \in 1 .. (n + 1) PROVE Len(st2[j].path) = Len(st2[1].path) + (j - 1)
    <2>1. 1 \in 1 .. n /\ n \in 1 .. n
      OBVIOUS
    <2>2. st2[1].path = st[1].path
      BY <1>4, <2>1
    <2>3. CASE j = n + 1
      <3>1. Len(g.path) = Len(st[n].path) + 1 /\ st2[j] = g
        BY <1>3, <2>3
      <3>2. Len(st[n].path) = Len(st[1].path) + (n - 1) /\ st[1].path \in Seq(Names)
        BY <1>1, <2>1 DEF StackIs
      <3>3. Len(st[1].path) \in Nat
        BY <3>2
      <3> QED
        BY <2>2, <2>3, <3>1, <3>2, <3>3
    <2>4. CASE j # n + 1
      <3>1. j \in 1 .. n
        BY <1>6, <2>4
      <3> QED
        BY <1>1, <1>4, <2>2, <3>1 DEF StackIs
    <2> QED
      BY <2>3, <2>4
  <1> QED
    BY <1>3, <1>5, <1>6 DEF Stack

(* The call under way, and its directory. *)
Works(live, h, n, f, d) ==
  /\ n \in Nat \ {0} /\ n = Len(del) /\ f \in Frames /\ f = del[n] /\ f = Top
  /\ d \in live /\ d \in Cluster /\ f.path \in Seq(Names) /\ Len(f.path) # 0 /\ f.pos \in Nat
  /\ WalkIn(node, f.path) = {d} /\ Walk(f.path) = {d} /\ At(f.path) = d /\ h[d] = Len(f.path)
  /\ \A i \in Given(node, d) : i > f.pos

LEMMA WorksIs ==
  ASSUME NEW live, NEW h, IsTree(node, live, h), Stack(node, del, live, h), del # << >>
  PROVE  \E n, f, d : Works(live, h, n, f, d)
  <1>1. del \in Seq(Frames)
    BY DEF Stack
  <1>2. PICK n \in Nat : n = Len(del)
    BY <1>1
  <1>3. n # 0
    BY <1>1, <1>2
  <1>4. PICK f \in Frames : f = del[n]
    BY <1>1, <1>2, <1>3
  <1>5. f.path \in Seq(Names) /\ f.pos \in Nat
    BY DEF Frames
  <1>6. Passed(node, live, h, f, NoName)
    BY <1>2, <1>3, <1>4 DEF Stack
  <1>7. PICK d \in live :
          /\ WalkIn(node, f.path) = {d} /\ h[d] = Len(f.path)
          /\ \A i \in Given(node, d) : i > f.pos \/ node[d].ent[i].name = NoName
    BY <1>6 DEF Passed
  <1>8. \A i \in Given(node, d) : i > f.pos
    BY <1>7, ConstantsAre DEF Given
  <1>9. node \in Nodes /\ live \subseteq Cluster
    BY DEF IsTree
  <1>10. Walk(f.path) = {d}
    BY <1>5, <1>7, <1>9, WalkIs
  <1>11. At(f.path) = d
    BY <1>10, AtIs
  <1>12. Len(f.path) # 0
    BY <1>6 DEF Passed
  <1>13. d \in Cluster
    BY <1>9
  <1>14. f = Top
    BY <1>2, <1>4 DEF Top
  <1> QED
    BY <1>2, <1>3, <1>4, <1>5, <1>7, <1>8, <1>10, <1>11, <1>12, <1>13, <1>14 DEF Works

LEMMA TopReplaced ==
  ASSUME NEW st \in Seq(Frames), NEW n \in Nat \ {0}, n = Len(st), NEW f \in Frames, NEW st2,
         st2 = [st EXCEPT ![n] = f]
  PROVE  TopIs(st, st2, f)
  <1>1. n \in 1 .. Len(st)
    OBVIOUS
  <1>2. /\ st2 \in Seq(Frames) /\ Len(st2) = Len(st)
        /\ \A j \in 1 .. Len(st) : st2[j] = IF j = n THEN f ELSE st[j]
    BY <1>1, ExceptSeq
  <1> QED
    BY <1>1, <1>2 DEF TopIs

Onward(f) == [f EXCEPT !.pos = @ + 1]

LEMMA OnwardIs ==
  ASSUME NEW f \in Frames
  PROVE  /\ Onward(f) \in Frames /\ Onward(f).path = f.path /\ Onward(f).pos = f.pos + 1
         /\ Onward(f).pc = f.pc
  BY DEF Onward, Frames

LEMMA MovesOn ==
  ASSUME NEW live, NEW h, Stack(node, del, live, h), NEW n, NEW f, NEW d, Works(live, h, n, f, d),
         NEW st2, st2 = [del EXCEPT ![Len(del)].pos = @ + 1]
  PROVE  TopIs(del, st2, Onward(f))
  <1>1. del \in Seq(Frames) /\ n \in Nat \ {0} /\ n = Len(del) /\ f \in Frames /\ f = del[n]
    BY DEF Stack, Works
  <1>2. PICK g \in Frames : g = Onward(f)
    BY <1>1, OnwardIs
  <1>3. st2 = [del EXCEPT ![n] = g]
    BY <1>1, <1>2 DEF Onward
  <1>4. TopIs(del, st2, g)
    BY <1>1, <1>3, TopReplaced
  <1> QED
    BY <1>2, <1>4

(* The entry the call is at. *)
LEMMA NameIs ==
  ASSUME NEW live, NEW h, IsTree(node, live, h), NEW n, NEW f, NEW d, Works(live, h, n, f, d),
         ~ AtEnd
  PROVE  /\ f.pos + 1 \in 1 .. Len(node[d].ent) /\ Name = node[d].ent[f.pos + 1].name
         /\ Name \in Names <=> f.pos + 1 \in Given(node, d)
         /\ Child = Append(f.path, Name)
  <1>1. f.pos \in Nat /\ At(Top.path) = d /\ f = Top /\ d \in Cluster
    BY DEF Works
  <1>2. node[d].ent \in Seq(Entry)
    BY <1>1 DEF IsTree, Nodes, Node
  <1>3. f.pos + 1 \in 1 .. Len(node[d].ent)
    BY <1>1, <1>2 DEF AtEnd
  <1>4. Name = node[d].ent[f.pos + 1].name
    BY <1>1 DEF Name
  <1>5. Child = Append(f.path, Name)
    BY <1>1 DEF Child
  <1> QED
    BY <1>3, <1>4, <1>5 DEF Given

LEMMA SkipTidy ==
  ASSUME Tidy(node, used, del), SkipEntry
  PROVE  Tidy(node', used', del')
  <1>1. PICK live, h :
          IsTree(node, live, h) /\ Marked(node, used, live) /\ Stack(node, del, live, h)
    BY DEF Tidy
  <1>2. /\ del # << >> /\ ~ AtEnd /\ Name \notin Names
        /\ node' = node /\ used' = used
    BY DEF SkipEntry, Reading
  <1>3. PICK n, f, d : Works(live, h, n, f, d)
    BY <1>1, <1>2, WorksIs
  <1>4. PICK st2 : st2 = del' /\ st2 = [del EXCEPT ![Len(del)].pos = @ + 1]
    BY DEF SkipEntry
  <1>5. PICK g \in Frames : g = Onward(f) /\ g.path = f.path /\ g.pos = f.pos + 1
    BY <1>3, OnwardIs DEF Works
  <1>6. TopIs(del, st2, g)
    BY <1>1, <1>3, <1>4, <1>5, MovesOn
  <1>7. Passed(node, live, h, g, NoName)
    <2>1. f.pos + 1 \notin Given(node, d)
      BY <1>1, <1>2, <1>3, NameIs
    <2>2. ASSUME NEW i \in Given(node, d) PROVE i > g.pos
      <3>1. i \in Int /\ i > f.pos /\ i # f.pos + 1 /\ f.pos \in Nat
        BY <1>3, <2>1, <2>2 DEF Works, Given
      <3> QED
        BY <1>5, <3>1
    <2> QED
      BY <1>3, <1>5, <2>2 DEF Passed, Works
  <1>8. Stack(node, st2, live, h)
    <2>1. PICK k \in Nat : k = Len(del[Len(del)].path)
      <3>1. f.path \in Seq(Names) /\ f = del[Len(del)]
        BY <1>3 DEF Works
      <3> QED
        BY <3>1
    <2>2. AboveStays(node, live, h, node, live, k) /\ node \in Nodes
      BY <1>1 DEF AboveStays, IsTree
    <2>3. Len(del) # 0 /\ g.path = del[Len(del)].path
      BY <1>3, <1>5 DEF Works
    <2> QED
      BY <1>1, <1>6, <1>7, <2>1, <2>2, <2>3, Restacked
  <1> QED
    BY <1>1, <1>2, <1>4, <1>8 DEF Tidy

LEMMA EnterTidy ==
  ASSUME Tidy(node, used, del), EnterDirectory
  PROVE  Tidy(node', used', del')
  <1>1. PICK live, h :
          IsTree(node, live, h) /\ Marked(node, used, live) /\ Stack(node, del, live, h)
    BY DEF Tidy
  <1>2. /\ del # << >> /\ ~ AtEnd /\ Name \in Names /\ Opens(Child, TRUE, {"read"})
        /\ node' = node /\ used' = used
    BY DEF EnterDirectory, Reading
  <1>3. PICK n, f, d : Works(live, h, n, f, d)
    BY <1>1, <1>2, WorksIs
  <1>4. PICK st1 : st1 = [del EXCEPT ![Len(del)].pos = @ + 1]
    OBVIOUS
  <1>5. PICK x \in Names : x = Name
    BY <1>2
  <1>6. PICK p : p = Append(f.path, x)
    OBVIOUS
  <1>7. /\ p \in Seq(Names) /\ Len(p) = Len(f.path) + 1 /\ Front(p) = f.path /\ Last(p) = x
        /\ Child = p
    <2>1. f.path \in Seq(Names)
      BY <1>3 DEF Works
    <2>2. p \in Seq(Names) /\ Len(p) = Len(f.path) + 1
      BY <1>6, <2>1, AppendIs
    <2>3. Front(p) = f.path /\ Last(p) = x
      BY <1>6, <2>1, FrontOfAppend
    <2>4. Child = p
      BY <1>1, <1>2, <1>3, <1>5, <1>6, NameIs
    <2> QED
      BY <2>2, <2>3, <2>4
  <1>8. PICK b : b = Frame(p)
    OBVIOUS
  <1>9. b \in Frames /\ b.path = p /\ b.pos = 0
    BY <1>7, <1>8 DEF Frame, Frames
  <1>10. PICK st2 : st2 = del' /\ st2 = Append(st1, b)
    BY <1>4, <1>7, <1>8 DEF EnterDirectory
  <1>11. PICK g \in Frames : g = Onward(f) /\ g.path = f.path /\ g.pos = f.pos + 1
    BY <1>3, OnwardIs DEF Works
  <1>12. TopIs(del, st1, g)
    BY <1>1, <1>3, <1>4, <1>11, MovesOn
  <1>13. Passed(node, live, h, g, x)
    <2>1. ASSUME NEW i \in Given(node, d) PROVE i > g.pos \/ node[d].ent[i].name = x
      <3>1. i \in Int /\ i > f.pos /\ f.pos \in Nat
        BY <1>3, <2>1 DEF Works, Given
      <3>2. i = f.pos + 1 => node[d].ent[i].name = x
        BY <1>1, <1>2, <1>3, <1>5, NameIs
      <3> QED
        BY <1>11, <3>1, <3>2
    <2> QED
      BY <1>3, <1>11, <2>1 DEF Passed, Works
  <1>14. Passed(node, live, h, b, NoName)
    <2>1. Walk(p) # {} /\ Walk(p) = WalkIn(node, p)
      <3>1. node \in Nodes
        BY <1>1 DEF IsTree
      <3> QED
        BY <1>2, <1>7, <3>1, WalkIs DEF Opens
    <2>2. PICK c \in live : WalkIn(node, p) = {c} /\ h[c] = Len(p)
      <3>1. Leads(node, live, h, p)
        BY <1>1, <1>7, WalkLeads
      <3> QED
        BY <2>1, <3>1 DEF Leads
    <2>3. \A i \in Given(node, c) : i > 0
      BY DEF Given
    <2>4. Len(p) # 0
      <3>1. Len(f.path) \in Nat
        BY <1>3 DEF Works
      <3> QED
        BY <1>7, <3>1
    <2> QED
      BY <1>9, <2>2, <2>3, <2>4 DEF Passed
  <1>15. Stack(node, st2, live, h)
    <2>1. n \in Nat \ {0} /\ n = Len(del) /\ g.path = del[n].path
      BY <1>3, <1>11 DEF Works
    <2>2. /\ Passed(node, live, h, g, Last(b.path)) /\ Front(b.path) = g.path
          /\ Len(b.path) = Len(g.path) + 1
      BY <1>7, <1>9, <1>11, <1>13
    <2> QED
      BY <1>1, <1>9, <1>10, <1>12, <1>14, <2>1, <2>2, Pushed
  <1> QED
    BY <1>1, <1>2, <1>10, <1>15 DEF Tidy

OnlyBelow(nd, live, h, md, d, c, k) ==
  /\ AboveStays(nd, live, h, md, live \ {c}, k) /\ k \in Nat /\ md \in Nodes
  /\ d \in live \ {c}
  /\ \A p \in Seq(Names) : Len(p) <= k => WalkIn(md, p) = WalkIn(nd, p)

LEMMA AboveGone ==
  ASSUME NEW nd, NEW live, NEW h, IsTree(nd, live, h), NEW d \in live, NEW i \in Given(nd, d),
         NEW c, c = nd[d].ent[i].at, NEW md, EntryGone(nd, md, d, i), NEW k, k = h[d]
  PROVE  OnlyBelow(nd, live, h, md, d, c, k)
  <1>1. /\ h[d] \in 0 .. MaxDepth /\ c \in live /\ h[c] = h[d] + 1 /\ c # d
    BY DepthIs
  <1>2. k \in Nat /\ d \in Cluster /\ live \subseteq Cluster
    BY <1>1, ConstantsAre DEF IsTree
  <1>3. md \in Nodes /\ \A e \in Cluster : e # d => md[e] = nd[e]
    BY DEF EntryGone
  <1>4. ASSUME NEW e \in live, h[e] < k PROVE md[e] = nd[e] /\ e \in live \ {c}
    <2>1. e # d /\ e # c
      BY <1>1, <1>2, <1>4
    <2> QED
      BY <1>2, <1>3, <2>1
  <1>5. ASSUME NEW p \in Seq(Names), Len(p) <= k PROVE WalkIn(md, p) = WalkIn(nd, p)
    <2>1. \A e \in live : h[e] < k => md[e] = nd[e]
      BY <1>4
    <2> QED
      BY <1>2, <1>3, <1>5, <2>1, AboveIsSame
  <1> QED
    BY <1>1, <1>2, <1>3, <1>4, <1>5 DEF AboveStays, OnlyBelow

(* What deleting a file does to the tree. *)
Unlinked(live, h, path, d, i, c) ==
  /\ d \in live /\ i \in Given(node, d) /\ c = node[d].ent[i].at
  /\ WalkIn(node, Front(path)) = {d} /\ h[d] = Len(path) - 1
  /\ node[d].ent[i].name = Last(path) /\ WalkIn(node, path) = {c} /\ Given(node, c) = {}
  /\ EntryGone(node, node', d, i)
  /\ IsTree(node', live \ {c}, h) /\ Marked(node', used', live \ {c})

LEMMA UnlinkedIs ==
  ASSUME NEW live, NEW h, IsTree(node, live, h), Marked(node, used, live),
         NEW path \in Seq(Names), Len(path) # 0, DeleteResult(path) = "ok", Unlink(path)
  PROVE  \E d, i, c : Unlinked(live, h, path, d, i, c)
  <1>1. PICK d \in live : \E i \in Given(node, d) :
           /\ WalkIn(node, Front(path)) = {d} /\ h[d] = Len(path) - 1
           /\ node[d].ent[i].name = Last(path) /\ Place(node[d].ent, Last(path)) = i
           /\ node[d].ent[i].at = At(path) /\ Walk(path) = {At(path)} /\ At(path) \in live
           /\ Given(node, At(path)) = {} /\ EntryGone(node, node', d, i)
           /\ used' = used \ ({At(path)} \cup node[At(path)].data)
    BY UnlinkIs
  <1>2. PICK i \in Given(node, d) :
           /\ WalkIn(node, Front(path)) = {d} /\ h[d] = Len(path) - 1
           /\ node[d].ent[i].name = Last(path) /\ Place(node[d].ent, Last(path)) = i
           /\ node[d].ent[i].at = At(path) /\ Walk(path) = {At(path)} /\ At(path) \in live
           /\ Given(node, At(path)) = {} /\ EntryGone(node, node', d, i)
           /\ used' = used \ ({At(path)} \cup node[At(path)].data)
    BY <1>1
  <1>3. PICK c : c = At(path)
    OBVIOUS
  <1>4. PICK md : md = node'
    OBVIOUS
  <1>5. c = node[d].ent[i].at /\ Given(node, c) = {} /\ EntryGone(node, md, d, i)
    BY <1>2, <1>3, <1>4
  <1>6. IsTree(md, live \ {c}, h) /\ Marked(md, used \ ({c} \cup node[c].data), live \ {c})
    BY <1>5, LeafRemoved
  <1>7. WalkIn(node, path) = {c}
    BY <1>2, <1>3, WalkIs DEF IsTree
  <1>8. Unlinked(live, h, path, d, i, c)
    BY <1>2, <1>3, <1>4, <1>5, <1>6, <1>7 DEF Unlinked
  <1> QED
    BY <1>8

LEMMA EntryTidy ==
  ASSUME Tidy(node, used, del), DeleteEntry
  PROVE  Tidy(node', used', del')
  <1>1. PICK live, h :
          IsTree(node, live, h) /\ Marked(node, used, live) /\ Stack(node, del, live, h)
    BY DEF Tidy
  <1>2. del # << >> /\ ~ AtEnd /\ Name \in Names
    BY DEF DeleteEntry, Reading
  <1>3. CASE DeleteResult(Child) # "ok"
    <2>1. del' = << >> /\ node' = node /\ used' = used
      BY <1>3 DEF DeleteEntry, Return
    <2> QED
      BY <2>1, TidyShaped, NoCalls
  <1>4. CASE DeleteResult(Child) = "ok"
    <2>1. PICK n, f, d : Works(live, h, n, f, d)
      BY <1>1, <1>2, WorksIs
    <2>2. Unlink(Child)
      BY <1>4 DEF DeleteEntry
    <2>3. PICK st2 : st2 = del' /\ st2 = [del EXCEPT ![Len(del)].pos = @ + 1]
      BY <1>4 DEF DeleteEntry
    <2>4. PICK x \in Names : x = Name
      BY <1>2
    <2>5. PICK p : p = Append(f.path, x)
      OBVIOUS
    <2>6. /\ p \in Seq(Names) /\ Len(p) = Len(f.path) + 1 /\ Len(p) # 0
          /\ Front(p) = f.path /\ Last(p) = x /\ Child = p
      <3>1. f.path \in Seq(Names)
        BY <2>1 DEF Works
      <3>2. p \in Seq(Names) /\ Len(p) = Len(f.path) + 1 /\ Len(p) # 0
        BY <2>5, <3>1, AppendIs
      <3>3. Front(p) = f.path /\ Last(p) = x
        BY <2>5, <3>1, FrontOfAppend
      <3>4. Child = p
        BY <1>1, <1>2, <2>1, <2>4, <2>5, NameIs
      <3> QED
        BY <3>2, <3>3, <3>4
    <2>7. PICK e, i, c : Unlinked(live, h, p, e, i, c)
      BY <1>1, <1>4, <2>2, <2>6, UnlinkedIs
    <2>8. e = d
      BY <2>1, <2>6, <2>7 DEF Works, Unlinked
    <2>9. i = f.pos + 1
      <3>1. f.pos + 1 \in Given(node, d) /\ node[d].ent[f.pos + 1].name = x
        BY <1>1, <1>2, <2>1, <2>4, NameIs
      <3>2. i \in Given(node, d) /\ node[d].ent[i].name = x /\ d \in live
        BY <2>6, <2>7, <2>8 DEF Unlinked
      <3> QED
        BY <1>1, <3>1, <3>2 DEF IsTree, Listed
    <2>10. PICK md : md = node'
      OBVIOUS
    <2>11. /\ d \in live /\ i \in Given(node, d) /\ c = node[d].ent[i].at /\ EntryGone(node, md, d, i)
           /\ IsTree(md, live \ {c}, h) /\ Marked(md, used', live \ {c})
      BY <2>7, <2>8, <2>10 DEF Unlinked
    <2>12. PICK k : k = h[d]
      OBVIOUS
    <2>13. /\ AboveStays(node, live, h, md, live \ {c}, k) /\ k \in Nat /\ md \in Nodes
           /\ d \in live \ {c}
           /\ \A q \in Seq(Names) : Len(q) <= k => WalkIn(md, q) = WalkIn(node, q)
      <3>1. OnlyBelow(node, live, h, md, d, c, k)
        BY ONLY <1>1, <2>11, <2>12, AboveGone
      <3> QED
        BY <3>1 DEF OnlyBelow
    <2>14. PICK g \in Frames : g = Onward(f) /\ g.path = f.path /\ g.pos = f.pos + 1
      BY <2>1, OnwardIs DEF Works
    <2>15. TopIs(del, st2, g)
      BY <1>1, <2>1, <2>3, <2>14, MovesOn
    <2>16. Passed(md, live \ {c}, h, g, NoName)
      <3>1. WalkIn(md, f.path) = {d} /\ h[d] = Len(f.path) /\ Len(f.path) # 0
        BY <2>1, <2>12, <2>13 DEF Works
      <3>2. Given(md, d) = Given(node, d) \ {i}
        BY <1>1, <2>1, <2>11, GoneGiven DEF IsTree, Works
      <3>3. ASSUME NEW j \in Given(md, d) PROVE j > g.pos
        <4>1. j \in Int /\ j > f.pos /\ j # f.pos + 1 /\ f.pos \in Nat
          BY <2>1, <2>9, <3>2, <3>3 DEF Works, Given
        <4> QED
          BY <2>14, <4>1
      <3> QED
        BY <2>13, <2>14, <3>1, <3>3 DEF Passed
    <2>17. Stack(md, st2, live \ {c}, h)
      <3>1. Len(del) # 0 /\ g.path = del[Len(del)].path /\ k = Len(del[Len(del)].path)
        BY <2>1, <2>12, <2>14 DEF Works
      <3> QED
        BY <1>1, <2>13, <2>15, <2>16, <3>1, Restacked
    <2> QED
      BY <2>3, <2>10, <2>11, <2>17 DEF Tidy
  <1> QED
    BY <1>3, <1>4

LEMMA ClearTidy ==
  ASSUME Tidy(node, used, del), ClearAttribute
  PROVE  Tidy(node', used', del')
  <1>1. PICK live, h :
          IsTree(node, live, h) /\ Marked(node, used, live) /\ Stack(node, del, live, h)
    BY DEF Tidy
  <1>2. del # << >> /\ AtEnd /\ used' = used
    BY DEF ClearAttribute, Reading
  <1>3. CASE ~ Opens(Top.path, TRUE, {"write"})
    <2>1. del' = << >> /\ node' = node
      BY <1>3 DEF ClearAttribute, Return
    <2> QED
      BY <1>2, <2>1, TidyShaped, NoCalls
  <1>4. CASE Opens(Top.path, TRUE, {"write"})
    <2>1. PICK n, f, d : Works(live, h, n, f, d)
      BY <1>1, <1>2, WorksIs
    <2>2. /\ d \in live /\ d \in Cluster /\ f.path \in Seq(Names) /\ f = Top /\ At(f.path) = d
          /\ WalkIn(node, f.path) = {d} /\ h[d] = Len(f.path) /\ Len(f.path) # 0
          /\ n \in Nat \ {0} /\ n = Len(del) /\ f = del[n] /\ f \in Frames
      BY <2>1 DEF Works
    <2>3. PICK md : md = node' /\ md = [node EXCEPT ![d].dir = FALSE]
      BY <1>4, <2>2 DEF ClearAttribute
    <2>4. PICK st2 : st2 = del' /\ st2 = [del EXCEPT ![Len(del)].pc = "delete"]
      BY <1>4 DEF ClearAttribute
    <2>5. Given(node, d) = {}
      <3> SUFFICES ASSUME NEW i \in Given(node, d) PROVE FALSE
        OBVIOUS
      <3>1. i > f.pos /\ f.pos \in Nat
        BY <2>1 DEF Works
      <3>2. f.pos >= Len(node[d].ent)
        BY <1>2, <2>2 DEF AtEnd
      <3>3. node[d].ent \in Seq(Entry)
        BY <1>1, <2>2 DEF IsTree, Nodes, Node
      <3>4. i \in 1 .. Len(node[d].ent) /\ Len(node[d].ent) \in Nat
        BY <3>3 DEF Given
      <3> QED
        BY <3>1, <3>2, <3>4
    <2>6. /\ md \in Nodes /\ \A e \in Cluster : e # d => md[e] = node[e]
          /\ md[d].ent = node[d].ent /\ md[d].data = node[d].data /\ md[d].att = node[d].att
      <3>1. node \in Nodes /\ node[d] \in Node
        BY <1>1, <2>2 DEF IsTree, Nodes
      <3>2. PICK b : b = [node[d] EXCEPT !.dir = FALSE]
        OBVIOUS
      <3>3. b \in Node /\ b.ent = node[d].ent /\ b.data = node[d].data /\ b.att = node[d].att
        BY <3>1, <3>2 DEF Node
      <3>4. md = [node EXCEPT ![d] = b]
        BY <2>2, <2>3, <3>1, <3>2 DEF Nodes
      <3>5. md \in Nodes /\ md[d] = b /\ \A e \in Cluster : e # d => md[e] = node[e]
        BY <2>2, <3>1, <3>3, <3>4 DEF Nodes
      <3> QED
        BY <3>3, <3>5
    <2>7. ASSUME NEW e \in live
          PROVE  /\ md[e].ent = node[e].ent /\ md[e].data = node[e].data
                 /\ "read" \in md[e].att /\ (Given(node, e) # {} => md[e].dir)
      <3>1. "read" \in node[e].att /\ (Given(node, e) # {} => node[e].dir) /\ e \in Cluster
        BY <1>1 DEF IsTree, Listed
      <3>2. CASE e = d
        BY <2>5, <2>6, <3>1, <3>2
      <3>3. CASE e # d
        BY <2>6, <3>1, <3>3
      <3> QED
        BY <3>2, <3>3
    <2>8. IsTree(md, live, h) /\ Marked(md, used, live)
      BY <1>1, <2>6, <2>7, NodeMarked
    <2>9. PICK g : g = [f EXCEPT !.pc = "delete"]
      OBVIOUS
    <2>10. g \in Frames /\ g.path = f.path /\ g.pos = f.pos
      BY <2>2, <2>9 DEF Frames
    <2>11. TopIs(del, st2, g)
      <3>1. del \in Seq(Frames)
        BY <1>1 DEF Stack
      <3>2. st2 = [del EXCEPT ![n] = g]
        BY <2>2, <2>4, <2>9, <3>1
      <3> QED
        BY <2>2, <2>10, <3>1, <3>2, TopReplaced
    <2>12. PICK k \in Nat : k = Len(f.path)
      BY <2>2
    <2>13. \A e \in live : h[e] < k => md[e] = node[e] /\ e \in live
      <3> SUFFICES ASSUME NEW e \in live, h[e] < k PROVE md[e] = node[e]
        OBVIOUS
      <3>1. e # d /\ e \in Cluster
        BY <1>1, <2>2, <2>12 DEF IsTree
      <3> QED
        BY <2>6, <3>1
    <2>14. WalkIn(md, f.path) = {d}
      <3>1. PICK p \in Seq(Names) : p = f.path /\ Len(p) <= k
        BY <2>2, <2>12
      <3>2. WalkIn(md, p) = WalkIn(node, p)
        BY <1>1, <2>6, <2>12, <2>13, <3>1, AboveIsSame
      <3> QED
        BY <2>2, <3>1, <3>2
    <2>15. Passed(md, live, h, g, NoName)
      <3>1. Given(md, d) = {}
        BY <2>5, <2>6 DEF Given
      <3> QED
        BY <2>2, <2>10, <2>14, <3>1 DEF Passed
    <2>16. Stack(md, st2, live, h)
      <3>1. AboveStays(node, live, h, md, live, k)
        BY <2>13 DEF AboveStays
      <3>2. Len(del) # 0 /\ g.path = del[Len(del)].path /\ k = Len(del[Len(del)].path)
        BY <2>2, <2>10, <2>12
      <3> QED
        BY <1>1, <2>6, <2>10, <2>11, <2>12, <2>15, <3>1, <3>2, Restacked
    <2> QED
      BY <1>2, <2>3, <2>4, <2>8, <2>16 DEF Tidy
  <1> QED
    BY <1>3, <1>4

LEMMA ClearedTidy ==
  ASSUME Tidy(node, used, del), DeleteCleared
  PROVE  Tidy(node', used', del')
  <1>1. PICK live, h :
          IsTree(node, live, h) /\ Marked(node, used, live) /\ Stack(node, del, live, h)
    BY DEF Tidy
  <1>2. del # << >>
    BY DEF DeleteCleared
  <1>3. CASE DeleteResult(Top.path) # "ok"
    <2>1. del' = << >> /\ node' = node /\ used' = used
      BY <1>3 DEF DeleteCleared, Return
    <2> QED
      BY <2>1, TidyShaped, NoCalls
  <1>4. CASE DeleteResult(Top.path) = "ok"
    <2>1. PICK n, f, w : Works(live, h, n, f, w)
      BY <1>1, <1>2, WorksIs
    <2>2. /\ n \in Nat \ {0} /\ n = Len(del) /\ f = del[n] /\ f = Top
          /\ f.path \in Seq(Names) /\ Len(f.path) # 0
      BY <2>1 DEF Works
    <2>3. PICK p \in Seq(Names) : p = f.path /\ Len(p) # 0
      BY <2>2
    <2>4. Unlink(p) /\ DeleteResult(p) = "ok"
      BY <1>4, <2>2, <2>3 DEF DeleteCleared
    <2>5. CASE n = 1
      <3>1. del' = << >>
        BY <1>4, <2>2, <2>5 DEF DeleteCleared, Return
      <3>2. Shaped(node', used')
        <4>1. Shaped(node, used)
          BY <1>1 DEF Shaped
        <4> QED
          BY <2>3, <2>4, <4>1, UnlinkShapes
      <3> QED
        BY <3>1, <3>2, NoCalls
    <2>6. CASE n # 1
      <3>1. PICK d, i, c : Unlinked(live, h, p, d, i, c)
        BY <1>1, <2>3, <2>4, UnlinkedIs
      <3>2. PICK md : md = node'
        OBVIOUS
      <3>3. PICK st2 : st2 = del' /\ st2 = Front(del)
        BY <1>4, <2>2, <2>6 DEF DeleteCleared
      <3>4. /\ d \in live /\ i \in Given(node, d) /\ c = node[d].ent[i].at
            /\ EntryGone(node, md, d, i)
            /\ IsTree(md, live \ {c}, h) /\ Marked(md, used', live \ {c})
            /\ WalkIn(node, Front(p)) = {d} /\ node[d].ent[i].name = Last(p)
        BY <3>1, <3>2 DEF Unlinked
      <3>5. StackIs(node, live, h, del, n)
        BY <1>1, <2>2, StackFacts
      <3>6. PICK m \in Nat \ {0} : m = n - 1 /\ m \in 1 .. n /\ m \in 1 .. (n - 1) /\ m + 1 = n
        BY <2>2, <2>6
      <3>7. PICK g \in Frames : g = del[m]
        BY <3>5, <3>6 DEF StackIs
      <3>8. /\ Passed(node, live, h, g, Last(p)) /\ g.path = Front(p) /\ g.path \in Seq(Names)
        BY <2>2, <2>3, <3>5, <3>6, <3>7 DEF StackIs
      <3>9. /\ WalkIn(node, g.path) = {d} /\ h[d] = Len(g.path) /\ Len(g.path) # 0
            /\ \A j \in Given(node, d) : j > g.pos \/ node[d].ent[j].name = Last(p)
        BY <3>4, <3>8 DEF Passed
      <3>10. PICK k : k = h[d]
        OBVIOUS
      <3>11. /\ AboveStays(node, live, h, md, live \ {c}, k) /\ k \in Nat /\ md \in Nodes
             /\ d \in live \ {c}
             /\ \A q \in Seq(Names) : Len(q) <= k => WalkIn(md, q) = WalkIn(node, q)
        <4>1. OnlyBelow(node, live, h, md, d, c, k)
          BY ONLY <1>1, <3>4, <3>10, AboveGone
        <4> QED
          BY <4>1 DEF OnlyBelow
      <3>12. Passed(md, live \ {c}, h, g, NoName)
        <4>1. WalkIn(md, g.path) = {d}
          BY <3>8, <3>9, <3>10, <3>11
        <4>2. Given(md, d) = Given(node, d) \ {i}
          <5>1. node \in Nodes /\ d \in Cluster
            BY <1>1, <3>4 DEF IsTree
          <5> QED
            BY <3>4, <5>1, GoneGiven
        <4>3. ASSUME NEW j \in Given(md, d) PROVE j > g.pos
          <5>1. j \in Given(node, d) /\ j # i
            BY <4>2, <4>3
          <5>2. node[d].ent[j].name # Last(p)
            <6>1. Listed(node, live, h, d)
              BY <1>1, <3>4 DEF IsTree
            <6>2. \A a, b \in Given(node, d) : node[d].ent[a].name = node[d].ent[b].name => a = b
              BY ONLY <6>1 DEF Listed
            <6> QED
              BY <3>4, <5>1, <6>2
          <5> QED
            BY <3>9, <5>1, <5>2
        <4> QED
          BY <3>9, <3>11, <4>1, <4>3 DEF Passed
      <3>13. Stack(md, st2, live \ {c}, h)
        <4>1. /\ n \in Nat /\ n = Len(del) /\ n > 1 /\ k = Len(del[n - 1].path)
              /\ Passed(md, live \ {c}, h, del[n - 1], NoName)
          BY <2>2, <2>6, <3>6, <3>7, <3>9, <3>10, <3>12
        <4> QED
          BY <1>1, <3>3, <3>11, <4>1, Popped
      <3> QED
        BY <3>2, <3>3, <3>4, <3>13 DEF Tidy
    <2> QED
      BY <2>5, <2>6
  <1> QED
    BY <1>3, <1>4

LEMMA InitTidy == ASSUME Init PROVE Tidy(node, used, del) /\ Dotted(node)
  <1>1. /\ used = System \cup {Root, Root + 1} /\ del = << >>
        /\ node = [c \in Cluster |-> IF c = Root THEN RootNode ELSE NoNode]
    BY DEF Init
  <1>2. PICK u \in Entry, v \in Entry :
          u = [name |-> Up, at |-> Root] /\ v = [name |-> Self, at |-> Root]
    BY ConstantsAre DEF Entry
  <1>3. u.name = Up /\ v.name = Self /\ v.at = Root
    BY <1>2
  <1>4. PICK E : E = << u, v >>
    OBVIOUS
  <1>5. E \in Seq(Entry) /\ Len(E) = 2 /\ E[1] = u /\ E[2] = v
    BY <1>4
  <1>6. RootNode = [dir |-> TRUE, att |-> Owner, data |-> {Root + 1}, ent |-> E]
    BY <1>2, <1>4 DEF RootNode
  <1>7. /\ RootNode \in Node /\ RootNode.ent = E /\ RootNode.data = {Root + 1}
        /\ RootNode.att = Owner /\ RootNode.dir = TRUE
    <2>1. {Root + 1} \in SUBSET Cluster
      BY ConstantsAre
    <2> QED
      BY <1>5, <1>6, <2>1 DEF Node
  <1>8. NoNode \in Node
    <2>1. << >> \in Seq(Entry)
      OBVIOUS
    <2> QED
      BY <2>1 DEF NoNode, Node
  <1>9. node \in Nodes /\ node[Root] = RootNode
    BY <1>1, <1>7, <1>8, ConstantsAre DEF Nodes
  <1>10. \A j \in 1 .. Len(E) : j = 1 \/ j = 2
    BY <1>5
  <1>11. Given(node, Root) = {}
    <2>1. Up \notin Names /\ Self \notin Names
      BY ConstantsAre
    <2> QED
      BY <1>3, <1>5, <1>7, <1>9, <1>10, <2>1 DEF Given
  <1>12. \A j \in Indices(node[Root].ent, Self) : node[Root].ent[j].at = Root
    <2>1. Up # Self
      BY TreeAssumption
    <2> QED
      BY <1>3, <1>5, <1>7, <1>9, <1>10, <2>1 DEF Indices
  <1> DEFINE h == [c \in Cluster |-> 0]
  <1>13. IsTree(node, {Root}, h)
    <2>1. h \in [Cluster -> 0 .. MaxDepth] /\ h[Root] = 0 /\ Root \in Cluster
      BY ConstantsAre
    <2>2. {Root} \cap System = {}
      BY DEF Root, System
    <2> HIDE DEF h
    <2>3. Listed(node, {Root}, h, Root)
      BY <1>7, <1>9, <1>11, <1>12 DEF Listed, Owner
    <2>4. Parented(node, {Root})
      BY <1>11 DEF Parented
    <2> QED
      BY <1>9, <2>1, <2>2, <2>3, <2>4 DEF IsTree
  <1>14. Marked(node, used, {Root})
    <2>1. Root + 1 \notin {Root} \cup System
      BY DEF Root, System
    <2>2. node[Root].data = {Root + 1}
      BY <1>7, <1>9
    <2>3. UNION { node[c].data : c \in {Root} } = {Root + 1}
      BY <2>2
    <2> QED
      BY <1>1, <2>1, <2>2, <2>3 DEF Marked
  <1>15. Shaped(node, used)
    BY <1>13, <1>14 DEF Shaped
  <1>16. Dotted(node)
    <2>1. "write" \in node[Root].att
      BY <1>7, <1>9 DEF Owner
    <2>2. ASSUME NEW c \in Cluster PROVE Given(node, c) = {}
      <3>1. CASE c = Root
        BY <1>11, <3>1
      <3>2. CASE c # Root
        <4>1. node[c] = NoNode
          BY <1>1, <3>2
        <4>2. Len(node[c].ent) = 0
          BY <4>1 DEF NoNode
        <4> QED
          BY <4>2 DEF Given
      <3> QED
        BY <3>1, <3>2
    <2> QED
      BY <2>1, <2>2 DEF Dotted
  <1> QED
    BY <1>1, <1>15, <1>16, NoCalls

LEMMA AttributesTidy ==
  ASSUME Shaped(node, used), NEW path \in Seq(Names), Len(path) # 0,
         NEW att \in Attributes, "read" \in att, SetAttributes(path, att)
  PROVE  Shaped(node', used') /\ (Dotted(node) => Dotted(node'))
  <1>1. PICK live, h : IsTree(node, live, h) /\ Marked(node, used, live)
    BY DEF Shaped
  <1>2. node \in Nodes /\ live \subseteq Cluster
    BY <1>1 DEF IsTree
  <1>3. PICK c \in live : Walk(path) = {c} /\ c # Root
    <2>1. Walk(path) = WalkIn(node, path)
      BY <1>2, WalkIs
    <2>2. Walk(path) # {}
      BY DEF SetAttributes, Opens
    <2>3. Leads(node, live, h, path)
      BY <1>1, WalkLeads
    <2>4. h[Root] = 0
      BY <1>1 DEF IsTree
    <2> QED
      BY <2>1, <2>2, <2>3, <2>4 DEF Leads
  <1>4. PICK md : md = node' /\ md = [node EXCEPT ![c].att = att]
    <2>1. At(path) = c
      BY <1>3, AtIs
    <2> QED
      BY <2>1 DEF SetAttributes
  <1>5. used' = used
    BY DEF SetAttributes
  <1>6. /\ md \in Nodes /\ \A e \in Cluster : e # c => md[e] = node[e]
        /\ md[c].ent = node[c].ent /\ md[c].data = node[c].data /\ md[c].dir = node[c].dir
        /\ md[c].att = att
    <2>1. node[c] \in Node /\ c \in Cluster
      BY <1>2, <1>3 DEF Nodes
    <2>2. PICK b : b = [node[c] EXCEPT !.att = att]
      OBVIOUS
    <2>3. /\ b \in Node /\ b.ent = node[c].ent /\ b.data = node[c].data /\ b.dir = node[c].dir
          /\ b.att = att
      BY <2>1, <2>2, TreeAssumption DEF Node
    <2>4. md = [node EXCEPT ![c] = b]
      BY <1>2, <1>4, <2>1, <2>2 DEF Nodes
    <2>5. md \in Nodes /\ md[c] = b /\ \A e \in Cluster : e # c => md[e] = node[e]
      BY <1>2, <2>1, <2>3, <2>4 DEF Nodes
    <2> QED
      BY <2>3, <2>5
  <1>7. ASSUME NEW e \in live
        PROVE  /\ md[e].ent = node[e].ent /\ md[e].data = node[e].data
               /\ "read" \in md[e].att /\ (Given(node, e) # {} => md[e].dir)
    <2>1. "read" \in node[e].att /\ (Given(node, e) # {} => node[e].dir) /\ e \in Cluster
      BY <1>1 DEF IsTree, Listed
    <2>2. CASE e = c
      BY <1>6, <2>1, <2>2
    <2>3. CASE e # c
      BY <1>6, <2>1, <2>3
    <2> QED
      BY <2>2, <2>3
  <1>8. IsTree(md, live, h) /\ Marked(md, used, live)
    BY <1>1, <1>6, <1>7, NodeMarked
  <1>9. Dotted(node) => Dotted(md)
    <2>1. \A e \in Cluster : md[e].ent = node[e].ent
      BY <1>6
    <2>2. md[Root] = node[Root]
      BY <1>3, <1>6, ConstantsAre
    <2> QED
      BY <2>1, <2>2, SameDotted DEF Dotted
  <1> QED
    BY <1>4, <1>5, <1>8, <1>9 DEF Shaped

LEMMA BeginTidy ==
  ASSUME Tidy(node, used, del), NEW path \in Seq(Names), Len(path) # 0, DeleteDirectory(path)
  PROVE  Tidy(node', used', del')
  <1>1. PICK live, h :
          IsTree(node, live, h) /\ Marked(node, used, live) /\ Stack(node, del, live, h)
    BY DEF Tidy
  <1>2. node' = node /\ used' = used /\ Opens(path, TRUE, {"read"})
    BY DEF DeleteDirectory
  <1>3. PICK f : f = Frame(path)
    OBVIOUS
  <1>4. f \in Frames /\ f.path = path /\ f.pos = 0
    BY <1>3 DEF Frame, Frames
  <1>5. PICK st2 : st2 = del' /\ st2 = << f >>
    BY <1>3 DEF DeleteDirectory
  <1>6. st2 \in Seq(Frames) /\ Len(st2) = 1 /\ st2[1] = f
    BY <1>4, <1>5
  <1>7. PICK d \in live : WalkIn(node, path) = {d} /\ h[d] = Len(path)
    <2>1. Walk(path) # {}
      BY <1>2 DEF Opens
    <2>2. Walk(path) = WalkIn(node, path)
      BY <1>1, WalkIs DEF IsTree
    <2>3. Leads(node, live, h, path)
      BY <1>1, WalkLeads
    <2> QED
      BY <2>1, <2>2, <2>3 DEF Leads
  <1>8. Passed(node, live, h, f, NoName)
    <2>1. \A i \in Given(node, d) : i > 0
      BY DEF Given
    <2> QED
      BY <1>4, <1>7, <2>1 DEF Passed
  <1>9. Stack(node, st2, live, h)
    <2>1. Len(f.path) \in Nat
      BY <1>4
    <2>2. \A k \in 1 .. 1 : k = 1
      OBVIOUS
    <2>3. 1 .. (1 - 1) = {}
      OBVIOUS
    <2>4. \A k \in 1 .. Len(st2) : Len(st2[k].path) = Len(st2[1].path) + (k - 1)
      BY <1>6, <2>1, <2>2
    <2> QED
      BY <1>6, <1>8, <2>3, <2>4 DEF Stack
  <1> QED
    BY <1>1, <1>2, <1>5, <1>9 DEF Tidy

-----------------------------------------------------------------------------
(* The theorem *)

(* No owner has a file or directory that he may not read. *)
Readable == \A att \in Attributes : "read" \in att

TreeInv == Tidy(node, used, del)

(* A call that returns in its step leaves a tree, and no call under way. *)
LEMMA CallShapes ==
  ASSUME Readable, TreeInv, NEW path \in Path(MaxDepth),
         \/ MakeFile(path)
         \/ MakeDir(path)
         \/ Delete(path)
         \/ \E name \in Names : Rename(path, name)
         \/ \E att \in Attributes : SetAttributes(path, att)
  PROVE  Shaped(node', used') /\ (Dotted(node) => Dotted(node')) /\ del' = << >>
  <1>1. path \in Seq(Names) /\ Len(path) \in 1 .. MaxDepth /\ Len(path) # 0
    BY PathsAre
  <1>2. Shaped(node, used)
    BY TidyShaped DEF TreeInv
  <1>3. \A d \in BOOLEAN : LET f == [dir |-> d, att |-> Owner, data |-> {}, ent |-> << >>]
                           IN  f \in Node /\ "read" \in f.att
    <2>1. << >> \in Seq(Entry)
      OBVIOUS
    <2> QED
      BY <2>1 DEF Node, Owner
  <1>4. CASE MakeFile(path)
    <2>1. PICK size \in {0, 1} :
            Create(path, [dir |-> FALSE, att |-> Owner, data |-> {}, ent |-> << >>], size)
      BY <1>4 DEF MakeFile
    <2>2. PICK f \in Node :
            f = [dir |-> FALSE, att |-> Owner, data |-> {}, ent |-> << >>] /\ "read" \in f.att
      BY <1>3
    <2>3. Create(path, f, size) /\ size \in Nat
      BY <2>1, <2>2
    <2>4. Shaped(node', used') /\ (Dotted(node) => Dotted(node'))
      BY <1>1, <1>2, <2>2, <2>3, CreateShapes
    <2>5. del' = << >>
      BY <2>3 DEF Create
    <2> QED
      BY <2>4, <2>5
  <1>5. CASE MakeDir(path)
    <2>1. PICK f \in Node :
            f = [dir |-> TRUE, att |-> Owner, data |-> {}, ent |-> << >>] /\ "read" \in f.att
      BY <1>3
    <2>2. Create(path, f, 1)
      BY <1>5, <2>1 DEF MakeDir
    <2>3. Shaped(node', used') /\ (Dotted(node) => Dotted(node'))
      BY <1>1, <1>2, <2>1, <2>2, CreateShapes
    <2>4. del' = << >>
      BY <2>2 DEF Create
    <2> QED
      BY <2>3, <2>4
  <1>6. CASE Delete(path)
    <2>1. DeleteResult(path) = "ok" /\ Unlink(path) /\ del' = << >>
      BY <1>6 DEF Delete
    <2>2. Shaped(node', used') /\ (Dotted(node) => Dotted(node'))
      BY <1>1, <1>2, <2>1, UnlinkShapes
    <2> QED
      BY <2>1, <2>2
  <1>7. CASE \E name \in Names : Rename(path, name)
    <2>1. PICK name \in Names : Rename(path, name)
      BY <1>7
    <2>2. Shaped(node', used') /\ (Dotted(node) => Dotted(node'))
      BY <1>1, <1>2, <2>1, RenameShapes
    <2>3. del' = << >>
      BY <2>1 DEF Rename
    <2> QED
      BY <2>2, <2>3
  <1>8. CASE \E att \in Attributes : SetAttributes(path, att)
    <2>1. PICK att \in Attributes : SetAttributes(path, att)
      BY <1>8
    <2>2. "read" \in att
      BY DEF Readable
    <2>3. Shaped(node', used') /\ (Dotted(node) => Dotted(node'))
      BY <1>1, <1>2, <2>1, <2>2, AttributesTidy
    <2>4. del' = << >>
      BY <2>1 DEF SetAttributes
    <2> QED
      BY <2>3, <2>4
  <1> QED
    BY <1>4, <1>5, <1>6, <1>7, <1>8

LEMMA PathNextTidy ==
  ASSUME Readable, TreeInv, NEW path \in Path(MaxDepth),
         \/ MakeFile(path)
         \/ MakeDir(path)
         \/ Delete(path)
         \/ DeleteDirectory(path)
         \/ \E name \in Names : Rename(path, name)
         \/ \E att \in Attributes : SetAttributes(path, att)
  PROVE  TreeInv'
  <1>1. CASE DeleteDirectory(path)
    <2>1. path \in Seq(Names) /\ Len(path) # 0
      BY PathsAre
    <2> QED
      BY <1>1, <2>1, BeginTidy DEF TreeInv
  <1>2. CASE ~ DeleteDirectory(path)
    <2>1. Shaped(node', used') /\ del' = << >>
      BY <1>2, CallShapes
    <2> QED
      BY <2>1, NoCalls DEF TreeInv
  <1> QED
    BY <1>1, <1>2

LEMMA TreeInvNext == ASSUME Readable, TreeInv, [Next]_vars PROVE TreeInv'
  <1>1. CASE UNCHANGED vars
    BY <1>1 DEF vars, TreeInv
  <1>2. CASE \E path \in Path(MaxDepth) :
               \/ MakeFile(path)
               \/ MakeDir(path)
               \/ Delete(path)
               \/ DeleteDirectory(path)
               \/ \E name \in Names : Rename(path, name)
               \/ \E att \in Attributes : SetAttributes(path, att)
    BY <1>2, PathNextTidy
  <1>3. CASE SkipEntry
    BY <1>3, SkipTidy DEF TreeInv
  <1>4. CASE EnterDirectory
    BY <1>4, EnterTidy DEF TreeInv
  <1>5. CASE DeleteEntry
    BY <1>5, EntryTidy DEF TreeInv
  <1>6. CASE ClearAttribute
    BY <1>6, ClearTidy DEF TreeInv
  <1>7. CASE DeleteCleared
    BY <1>7, ClearedTidy DEF TreeInv
  <1>8. CASE Interrupt
    <2>1. del' = << >> /\ node' = node /\ used' = used
      BY <1>8 DEF Interrupt, Return
    <2> QED
      BY <2>1, TidyShaped, NoCalls DEF TreeInv
  <1> QED
    BY <1>1, <1>2, <1>3, <1>4, <1>5, <1>6, <1>7, <1>8 DEF Next

(* The nodes that have a name are a tree, each with clusters of its own,    *)
(* and a directory that is being deleted has nothing left of what its       *)
(* deletion has passed: for every disk, size of a directory's cluster, set  *)
(* of names and depth.                                                      *)
THEOREM TreeInvHolds == ASSUME Readable PROVE Spec => []TreeInv
  <1>1. Init => TreeInv
    BY InitTidy DEF TreeInv
  <1>2. TreeInv /\ [Next]_vars => TreeInv'
    BY TreeInvNext
  <1> QED
    BY <1>1, <1>2, PTL DEF Spec

(* If all files can be read, no cluster is lost and none is used without    *)
(* being marked, whatever is made, renamed and deleted in what order, while *)
(* a directory is being deleted, and when its deletion is interrupted.      *)
THEOREM NothingOrphaned == ASSUME Readable PROVE Spec => []NoOrphans
  <1>1. TreeInv => NoOrphans
    <2> SUFFICES ASSUME TreeInv PROVE NoOrphans
      OBVIOUS
    <2>1. PICK live, h : IsTree(node, live, h) /\ Marked(node, used, live)
      BY DEF TreeInv, Tidy
    <2>2. {Root} \cup UNION { Walk(path) : path \in Tree } = live
      BY <2>1, ReachedIs
    <2>3. used = System \cup live \cup UNION { node[c].data : c \in live }
      BY <2>1 DEF Marked
    <2> QED
      BY <2>2, <2>3 DEF NoOrphans
  <1> QED
    BY <1>1, TreeInvHolds, PTL

-----------------------------------------------------------------------------
(* The pathnames there are *)

(* The pathnames that lead somewhere. *)
TreeIn(nd) == { path \in Path(MaxDepth) : WalkIn(nd, path) # {} }

LEMMA TreeIs == node \in Nodes => Tree = TreeIn(node)
  <1> SUFFICES ASSUME node \in Nodes PROVE Tree = TreeIn(node)
    OBVIOUS
  <1>1. ASSUME NEW p \in Path(MaxDepth) PROVE Exists(p) <=> WalkIn(node, p) # {}
    <2>1. p \in Seq(Names)
      BY PathsAre
    <2> QED
      BY <2>1, WalkIs DEF Exists
  <1> QED
    BY <1>1 DEF Tree, TreeIn

LEMMA TreeNext == node' \in Nodes => Tree' = TreeIn(node')
  <1>1. (node \in Nodes => Tree = TreeIn(node))'
    BY TreeIs, PTL
  <1> QED
    BY <1>1

(* A pathname that begins another. *)
LEMMA PrefixIs ==
  ASSUME NEW S, NEW p \in Seq(S), NEW q \in Seq(S)
  PROVE  IsPrefix(p, q) <=> Len(p) <= Len(q) /\ \A i \in 1 .. Len(p) : p[i] = q[i]
  <1>1. Len(p) \in Nat /\ Len(q) \in Nat
    OBVIOUS
  <1>2. CASE ~ (Len(p) <= Len(q))
    BY <1>2 DEF IsPrefix
  <1>3. CASE Len(p) <= Len(q)
    <2>1. PICK u : u = SubSeq(p, 1, Len(p))
      OBVIOUS
    <2>2. PICK v : v = SubSeq(q, 1, Len(p))
      OBVIOUS
    <2>3. u \in Seq(S) /\ Len(u) = Len(p) /\ \A i \in 1 .. Len(p) : u[i] = p[i]
      BY <1>1, <2>1
    <2>4. v \in Seq(S) /\ Len(v) = Len(p) /\ \A i \in 1 .. Len(p) : v[i] = q[i]
      BY <1>1, <1>3, <2>2
    <2>5. u = v <=> \A i \in 1 .. Len(p) : u[i] = v[i]
      BY <2>3, <2>4, SeqEqual
    <2>6. IsPrefix(p, q) <=> u = v
      BY <1>3, <2>1, <2>2 DEF IsPrefix
    <2> QED
      BY <1>3, <2>3, <2>4, <2>5, <2>6
  <1> QED
    BY <1>2, <1>3

LEMMA PrefixSelf == ASSUME NEW S, NEW p \in Seq(S) PROVE IsPrefix(p, p)
  BY PrefixIs

LEMMA PrefixAppend ==
  ASSUME NEW S, NEW p \in Seq(S), NEW q \in Seq(S), NEW x \in S
  PROVE  IsPrefix(p, Append(q, x)) <=> IsPrefix(p, q) \/ p = Append(q, x)
  <1>1. PICK r : r = Append(q, x)
    OBVIOUS
  <1>2. /\ r \in Seq(S) /\ Len(r) = Len(q) + 1 /\ r[Len(q) + 1] = x
        /\ \A i \in 1 .. Len(q) : r[i] = q[i]
    BY <1>1, AppendIs
  <1>3. Len(p) \in Nat /\ Len(q) \in Nat
    OBVIOUS
  <1>4. /\ IsPrefix(p, q) <=> Len(p) <= Len(q) /\ \A i \in 1 .. Len(p) : p[i] = q[i]
        /\ IsPrefix(p, r) <=> Len(p) <= Len(r) /\ \A i \in 1 .. Len(p) : p[i] = r[i]
    BY <1>2, PrefixIs
  <1>5. CASE Len(p) <= Len(q)
    <2>1. \A i \in 1 .. Len(p) : r[i] = q[i]
      BY <1>2, <1>3, <1>5
    <2>2. p # r /\ Len(p) <= Len(r)
      BY <1>2, <1>3, <1>5
    <2> QED
      BY <1>1, <1>4, <1>5, <2>1, <2>2
  <1>6. CASE ~ (Len(p) <= Len(q))
    <2>1. Len(p) <= Len(r) <=> Len(p) = Len(r)
      BY <1>2, <1>3, <1>6
    <2>2. p = r <=> Len(p) = Len(r) /\ \A i \in 1 .. Len(p) : p[i] = r[i]
      BY <1>2, SeqEqual
    <2> QED
      BY <1>1, <1>4, <1>6, <2>1, <2>2
  <1> QED
    BY <1>5, <1>6

(* What is at the entries alone. *)
LEMMA SameEntries ==
  ASSUME NEW nd \in Nodes, NEW md \in Nodes, \A c \in Cluster : md[c].ent = nd[c].ent,
         NEW path \in Seq(Names)
  PROVE  WalkIn(md, path) = WalkIn(nd, path)
  <1>1. PICK k \in Nat : k = Len(path)
    OBVIOUS
  <1>2. PICK v : Walked(nd, path, k, v) /\ WalkIn(nd, path) = v[k]
    BY <1>1, WalkInIs
  <1>3. PICK w : Walked(md, path, k, w) /\ WalkIn(md, path) = w[k]
    BY <1>1, WalkInIs
  <1>4. SameSteps(nd, md, path, path, k, v)
    <2>1. ASSUME NEW C \in SUBSET Cluster, NEW x PROVE NextAt(nd, C, x) = NextAt(md, C, x)
      BY DEF NextAt, FindIn
    <2>2. \A i \in 0 .. k : v[i] \in SUBSET Cluster
      BY <1>2 DEF Walked
    <2>3. \A i \in 1 .. k : i - 1 \in 0 .. k
      OBVIOUS
    <2> QED
      BY <2>1, <2>2, <2>3 DEF SameSteps
  <1>5. v[k] = w[k]
    <2>1. k <= k /\ k \in 0 .. k
      OBVIOUS
    <2> QED
      BY <1>2, <1>3, <1>4, <2>1, WalkedAgree
  <1> QED
    BY <1>2, <1>3, <1>5

(* A pathname is an earlier one and a name more. *)
LEMMA Longer ==
  ASSUME NEW p \in Seq(Names), NEW k \in Nat, Len(p) = k + 1
  PROVE  \E q \in Seq(Names), x \in Names : Len(q) = k /\ p = Append(q, x)
  <1>1. Len(p) # 0 /\ Len(p) - 1 = k
    OBVIOUS
  <1>2. /\ Front(p) \in Seq(Names) /\ Len(Front(p)) = k /\ Last(p) \in Names
        /\ p = Append(Front(p), Last(p))
    BY <1>1, FrontIs
  <1> QED
    BY <1>2

(* A node has one pathname. *)
LEMMA PathIsUnique ==
  ASSUME NEW nd, NEW live, NEW h, IsTree(nd, live, h)
  PROVE  \A p, q \in Seq(Names) :
           WalkIn(nd, p) # {} /\ WalkIn(nd, p) = WalkIn(nd, q) => p = q
  <1> DEFINE T == { k \in Nat : \A p, q \in Seq(Names) :
                      Len(p) = k /\ WalkIn(nd, p) # {} /\ WalkIn(nd, p) = WalkIn(nd, q) => p = q }
  <1>1. ASSUME NEW p \in Seq(Names), NEW q \in Seq(Names), WalkIn(nd, p) # {},
               WalkIn(nd, p) = WalkIn(nd, q)
        PROVE  Len(p) = Len(q)
    <2>1. Leads(nd, live, h, p) /\ Leads(nd, live, h, q)
      BY WalkLeads
    <2>2. PICK c \in live : WalkIn(nd, p) = {c} /\ h[c] = Len(p)
      BY <1>1, <2>1 DEF Leads
    <2>3. PICK e \in live : WalkIn(nd, q) = {e} /\ h[e] = Len(q)
      BY <1>1, <2>1 DEF Leads
    <2> QED
      BY <1>1, <2>2, <2>3
  <1>2. 0 \in T
    <2>1. \A p, q \in Seq(Names) : Len(p) = 0 /\ Len(q) = 0 => p = q
      BY SeqEqual
    <2> QED
      BY <1>1, <2>1
  <1>3. ASSUME NEW k \in Nat, k \in T PROVE k + 1 \in T
    <2> SUFFICES ASSUME NEW p \in Seq(Names), NEW q \in Seq(Names), Len(p) = k + 1,
                        WalkIn(nd, p) # {}, WalkIn(nd, p) = WalkIn(nd, q)
                 PROVE  p = q
      OBVIOUS
    <2>1. Len(q) = k + 1
      BY <1>1
    <2>2. PICK r \in Seq(Names), x \in Names : Len(r) = k /\ p = Append(r, x)
      BY Longer
    <2>3. PICK s \in Seq(Names), y \in Names : Len(s) = k /\ q = Append(s, y)
      BY <2>1, Longer
    <2>4. PICK c : c \in WalkIn(nd, p)
      OBVIOUS
    <2>5. c \in WalkIn(nd, Append(r, x)) /\ c \in WalkIn(nd, Append(s, y))
      BY <2>2, <2>3, <2>4
    <2>6. PICK d \in live : \E i \in Given(nd, d) :
            WalkIn(nd, r) = {d} /\ nd[d].ent[i].name = x /\ nd[d].ent[i].at = c
      BY <2>5, StepTo
    <2>7. PICK e \in live : \E j \in Given(nd, e) :
            WalkIn(nd, s) = {e} /\ nd[e].ent[j].name = y /\ nd[e].ent[j].at = c
      BY <2>5, StepTo
    <2>8. d = e /\ x = y
      BY <2>6, <2>7 DEF IsTree, Parented
    <2>9. WalkIn(nd, r) = WalkIn(nd, s) /\ WalkIn(nd, r) # {}
      BY <2>6, <2>7, <2>8
    <2>10. r = s
      BY <1>3, <2>2, <2>9
    <2> QED
      BY <2>2, <2>3, <2>8, <2>10
  <1> HIDE DEF T
  <1>4. Nat \subseteq T
    BY <1>2, <1>3, AllNumbers
  <1> SUFFICES ASSUME NEW p \in Seq(Names), NEW q \in Seq(Names),
                      WalkIn(nd, p) # {}, WalkIn(nd, p) = WalkIn(nd, q)
               PROVE  p = q
    OBVIOUS
  <1>5. Len(p) \in T
    BY <1>4
  <1> QED
    BY <1>5 DEF T

(* Nothing is below what has no files. *)
LEMMA NothingFound ==
  ASSUME NEW nd, NEW live, NEW h, IsTree(nd, live, h), NEW c \in live, Given(nd, c) = {},
         NEW q \in Seq(Names), WalkIn(nd, q) = {c}, NEW x \in Names
  PROVE  WalkIn(nd, Append(q, x)) = {}
  <1>1. nd \in Nodes
    BY DEF IsTree
  <1>2. WalkIn(nd, Append(q, x)) = FindIn(nd, c, x)
    <2>1. WalkIn(nd, Append(q, x)) = NextAt(nd, WalkIn(nd, q), x)
      BY <1>1, NamesAppend
    <2>2. NextAt(nd, {c}, x) = FindIn(nd, c, x)
      BY DEF NextAt
    <2> QED
      BY <2>1, <2>2
  <1>3. FindIn(nd, c, x) = {}
    BY FindsGiven
  <1> QED
    BY <1>2, <1>3

LEMMA NothingBelow ==
  ASSUME NEW nd, NEW live, NEW h, IsTree(nd, live, h), NEW c \in live, Given(nd, c) = {},
         NEW p \in Seq(Names), WalkIn(nd, p) = {c}
  PROVE  \A q \in Seq(Names) : IsPrefix(p, q) /\ WalkIn(nd, q) # {} => q = p
  <1> DEFINE T == { k \in Nat : \A q \in Seq(Names) :
                      Len(q) = k /\ IsPrefix(p, q) /\ WalkIn(nd, q) # {} => q = p }
  <1>1. nd \in Nodes
    BY DEF IsTree
  <1>2. 0 \in T
    <2> SUFFICES ASSUME NEW q \in Seq(Names), Len(q) = 0, IsPrefix(p, q) PROVE q = p
      OBVIOUS
    <2>1. Len(p) <= Len(q) /\ Len(p) \in Nat
      BY DEF IsPrefix
    <2>2. Len(p) = 0
      BY <2>1
    <2> QED
      BY <2>2, SeqEqual
  <1>3. ASSUME NEW k \in Nat, k \in T PROVE k + 1 \in T
    <2> SUFFICES ASSUME NEW q \in Seq(Names), Len(q) = k + 1, IsPrefix(p, q), WalkIn(nd, q) # {},
                        q # p
                 PROVE  FALSE
      OBVIOUS
    <2>1. PICK r \in Seq(Names), x \in Names : Len(r) = k /\ q = Append(r, x)
      BY Longer
    <2>2. IsPrefix(p, r)
      BY <2>1, PrefixAppend
    <2>3. WalkIn(nd, q) = NextAt(nd, WalkIn(nd, r), x)
      BY <1>1, <2>1, WalkAppend
    <2>4. WalkIn(nd, r) # {}
      BY <2>3 DEF NextAt
    <2>5. r = p
      BY <1>3, <2>1, <2>2, <2>4
    <2>6. WalkIn(nd, Append(r, x)) = {}
      BY <2>5, NothingFound
    <2> QED
      BY <2>1, <2>6
  <1> HIDE DEF T
  <1>4. Nat \subseteq T
    BY <1>2, <1>3, AllNumbers
  <1> SUFFICES ASSUME NEW q \in Seq(Names), IsPrefix(p, q), WalkIn(nd, q) # {} PROVE q = p
    OBVIOUS
  <1>5. Len(q) \in T
    BY <1>4
  <1> QED
    BY <1>5 DEF T

(* md's pathnames are nd's but p. *)
OnlyGone(nd, md, p) == \A q \in Seq(Names) : WalkIn(md, q) = IF q = p THEN {} ELSE WalkIn(nd, q)

LEMMA FindsName ==
  ASSUME NEW nd, NEW live, NEW h, IsTree(nd, live, h), NEW d \in live, NEW x \in Names,
         FindIn(nd, d, x) # {}
  PROVE  \E j \in Given(nd, d) : nd[d].ent[j].name = x /\ FindIn(nd, d, x) = {nd[d].ent[j].at}
  BY FindsGiven

(* A directory finds the names it found, but that of the entry deleted. *)
LEMMA GoneFinds ==
  ASSUME NEW nd, NEW live, NEW h, IsTree(nd, live, h), NEW d \in live, NEW i \in Given(nd, d),
         NEW md, NEW rest, IsTree(md, rest, h), d \in rest, Given(md, d) = Given(nd, d) \ {i},
         \A j \in Given(md, d) : md[d].ent[j] = nd[d].ent[j], NEW x \in Names
  PROVE  FindIn(md, d, x) = IF x = nd[d].ent[i].name THEN {} ELSE FindIn(nd, d, x)
  <1>1. FindIn(md, d, x) # {} =>
          \E j \in Given(md, d) : md[d].ent[j].name = x /\ FindIn(md, d, x) = {md[d].ent[j].at}
    BY FindsName
  <1>2. ASSUME FindIn(md, d, x) # {} PROVE FindIn(md, d, x) = FindIn(nd, d, x) /\ x # nd[d].ent[i].name
    <2>1. PICK j \in Given(md, d) : md[d].ent[j].name = x /\ FindIn(md, d, x) = {md[d].ent[j].at}
      BY <1>1, <1>2
    <2>2. j \in Given(nd, d) /\ j # i /\ nd[d].ent[j].name = x /\ nd[d].ent[j] = md[d].ent[j]
      BY <2>1
    <2>3. FindIn(nd, d, x) = {nd[d].ent[j].at}
      BY <2>2, FindsGiven
    <2>4. x # nd[d].ent[i].name
      BY <2>2 DEF IsTree, Listed
    <2> QED
      BY <2>1, <2>2, <2>3, <2>4
  <1>3. ASSUME FindIn(nd, d, x) # {}, x # nd[d].ent[i].name PROVE FindIn(md, d, x) # {}
    <2>1. PICK j \in Given(nd, d) : nd[d].ent[j].name = x
      BY <1>3, FindsName
    <2>2. j \in Given(md, d) /\ md[d].ent[j].name = x
      BY <1>3, <2>1
    <2>3. FindIn(md, d, x) = {md[d].ent[j].at}
      BY <2>2, FindsGiven
    <2> QED
      BY <2>3
  <1> QED
    BY <1>2, <1>3

(* Deleting an entry takes its pathname out of the tree, and no other. *)
LEMMA GoneWalk ==
  ASSUME NEW nd, NEW live, NEW h, IsTree(nd, live, h), NEW d \in live, NEW i \in Given(nd, d),
         NEW c, c = nd[d].ent[i].at, Given(nd, c) = {}, NEW md, EntryGone(nd, md, d, i),
         IsTree(md, live \ {c}, h), NEW p \in Seq(Names), WalkIn(nd, p) = {c}
  PROVE  OnlyGone(nd, md, p)
  <1> DEFINE Same(q) == WalkIn(md, q) = IF q = p THEN {} ELSE WalkIn(nd, q)
             T == { k \in Nat : \A q \in Seq(Names) : Len(q) = k => Same(q) }
  <1>1. nd \in Nodes /\ md \in Nodes /\ live \subseteq Cluster
    BY DEF IsTree
  <1>2. c \in live /\ c # d /\ c # Root
    BY DepthIs
  <1>3. /\ Given(md, d) = Given(nd, d) \ {i}
        /\ \A j \in Given(md, d) : md[d].ent[j] = nd[d].ent[j]
    BY <1>1, GoneGiven
  <1>4. d \in live \ {c} /\ nd[d].ent[i].name \in Names
    BY <1>1, <1>2, GivenIs
  <1>9. PICK rest : rest = live \ {c} /\ IsTree(md, rest, h) /\ d \in rest
    BY <1>4
  <1>5. 0 \in T
    <2> SUFFICES ASSUME NEW q \in Seq(Names), Len(q) = 0 PROVE Same(q)
      OBVIOUS
    <2>1. WalkIn(md, q) = {Root} /\ WalkIn(nd, q) = {Root}
      BY <1>1, WalkNone
    <2> QED
      BY <1>2, <2>1
  <1>6. ASSUME NEW k \in Nat, k \in T PROVE k + 1 \in T
    <2> SUFFICES ASSUME NEW q \in Seq(Names), Len(q) = k + 1 PROVE Same(q)
      OBVIOUS
    <2>1. PICK r \in Seq(Names), x \in Names : Len(r) = k /\ q = Append(r, x)
      BY Longer
    <2>2. Same(r)
      BY <1>6, <2>1
    <2>3. WalkIn(md, q) = NextAt(md, WalkIn(md, r), x) /\ WalkIn(nd, q) = NextAt(nd, WalkIn(nd, r), x)
      BY <1>1, <2>1, WalkAppend
    <2>4. WalkIn(nd, q) = {c} => q = p
      BY PathIsUnique
    <2>5. CASE r = p
      <3>1. WalkIn(md, q) = {}
        BY <2>2, <2>3, <2>5 DEF NextAt
      <3>2. WalkIn(nd, q) = {}
        BY <1>2, <2>1, <2>5, NothingFound
      <3> QED
        BY <3>1, <3>2
    <2>6. CASE r # p /\ WalkIn(nd, r) = {}
      <3>1. WalkIn(md, q) = {} /\ WalkIn(nd, q) = {}
        BY <2>2, <2>3, <2>6 DEF NextAt
      <3> QED
        BY <3>1
    <2>7. CASE r # p /\ WalkIn(nd, r) # {}
      <3>1. PICK e \in live : WalkIn(nd, r) = {e}
        BY <2>7, WalkLeads DEF Leads
      <3>2. WalkIn(md, r) = {e}
        BY <2>2, <2>7, <3>1
      <3>3. WalkIn(md, q) = FindIn(md, e, x) /\ WalkIn(nd, q) = FindIn(nd, e, x)
        BY <2>3, <3>1, <3>2 DEF NextAt
      <3>4. c \in WalkIn(nd, q) => e = d /\ x = nd[d].ent[i].name
        <4> SUFFICES ASSUME c \in WalkIn(nd, q) PROVE e = d /\ x = nd[d].ent[i].name
          OBVIOUS
        <4>4. c \in WalkIn(nd, Append(r, x))
          BY <2>1
        <4>1. PICK b \in live : \E j \in Given(nd, b) :
                WalkIn(nd, r) = {b} /\ nd[b].ent[j].name = x /\ nd[b].ent[j].at = c
          BY ONLY IsTree(nd, live, h), r \in Seq(Names), x \in Names, <4>4, StepTo
        <4>2. PICK j \in Given(nd, b) :
                WalkIn(nd, r) = {b} /\ nd[b].ent[j].name = x /\ nd[b].ent[j].at = c
          BY <4>1
        <4>3. b = d /\ j = i
          BY <4>2 DEF IsTree, Parented
        <4> QED
          BY <3>1, <4>2, <4>3
      <3>5. q = p => c \in WalkIn(nd, q)
        OBVIOUS
      <3>6. CASE e # d
        <4>1. md[e] = nd[e]
          BY <1>1, <3>6 DEF EntryGone
        <4>2. FindIn(md, e, x) = FindIn(nd, e, x)
          BY <4>1 DEF FindIn
        <4> QED
          BY <3>3, <3>4, <3>5, <3>6, <4>2
      <3>7. CASE e = d
        <4>1. FindIn(md, d, x) = IF x = nd[d].ent[i].name THEN {} ELSE FindIn(nd, d, x)
          BY <1>3, <1>9, GoneFinds
        <4>2. x = nd[d].ent[i].name => FindIn(nd, d, x) = {c}
          BY FindsGiven
        <4>3. CASE x = nd[d].ent[i].name
          BY <2>4, <3>3, <3>7, <4>1, <4>2, <4>3
        <4>4. CASE x # nd[d].ent[i].name
          BY <3>3, <3>4, <3>5, <3>7, <4>1, <4>4
        <4> QED
          BY <4>3, <4>4
      <3> QED
        BY <3>6, <3>7
    <2> QED
      BY <2>5, <2>6, <2>7
  <1> HIDE DEF T
  <1>7. Nat \subseteq T
    BY <1>5, <1>6, AllNumbers
  <1> SUFFICES ASSUME NEW q \in Seq(Names) PROVE Same(q)
    BY DEF OnlyGone
  <1>8. Len(q) \in T
    BY <1>7
  <1> QED
    BY <1>8 DEF T

LEMMA GoneTree ==
  ASSUME NEW nd, NEW live, NEW h, IsTree(nd, live, h), NEW d \in live, NEW i \in Given(nd, d),
         NEW c, c = nd[d].ent[i].at, Given(nd, c) = {}, NEW md, EntryGone(nd, md, d, i),
         IsTree(md, live \ {c}, h), NEW p \in Seq(Names), WalkIn(nd, p) = {c}
  PROVE  TreeIn(md) = TreeIn(nd) \ {p}
  <1>1. OnlyGone(nd, md, p)
    BY GoneWalk
  <1>2. \A q \in Path(MaxDepth) : q \in Seq(Names)
    BY PathsAre
  <1> QED
    BY <1>1, <1>2 DEF TreeIn, OnlyGone

-----------------------------------------------------------------------------
(* What the calls of _os9_delete_directory are at *)

(* They are below the directory the first was given; those that wait read  *)
(* their directories, and the last works on a directory until it has turned *)
(* its attribute off.                                                       *)
Calls(nd, st, e) ==
  Len(st) # 0 =>
    /\ e = "running"
    /\ \A k \in 1 .. Len(st) : IsPrefix(st[1].path, st[k].path)
    /\ \A k \in 1 .. (Len(st) - 1) : st[k].pc = "read"
    /\ \A d \in WalkIn(nd, st[Len(st)].path) : nd[d].dir <=> st[Len(st)].pc = "read"

LEMMA CallsNone == ASSUME NEW nd, NEW e PROVE Calls(nd, << >>, e)
  BY DEF Calls

LEMMA CallsOne ==
  ASSUME NEW nd, NEW f \in Frames, NEW st, st = << f >>,
         \A d \in WalkIn(nd, f.path) : nd[d].dir <=> f.pc = "read"
  PROVE  Calls(nd, st, "running")
  <1>1. st \in Seq(Frames) /\ Len(st) = 1 /\ st[1] = f
    OBVIOUS
  <1>2. IsPrefix(f.path, f.path)
    BY PrefixSelf DEF Frames
  <1>3. \A k \in 1 .. Len(st) : k = 1
    BY <1>1
  <1>4. 1 .. (Len(st) - 1) = {}
    BY <1>1
  <1> QED
    BY <1>1, <1>2, <1>3, <1>4 DEF Calls

LEMMA CallsTop ==
  ASSUME NEW nd, NEW st \in Seq(Frames), NEW e, Calls(nd, st, e), Len(st) # 0,
         NEW md, NEW g, g.path = st[Len(st)].path, NEW st2, TopIs(st, st2, g),
         \A d \in WalkIn(md, g.path) : md[d].dir <=> g.pc = "read"
  PROVE  Calls(md, st2, e)
  <1>1. PICK n \in Nat : n = Len(st) /\ n # 0
    OBVIOUS
  <1>2. Len(st2) = n /\ st2[n] = g /\ \A k \in 1 .. (n - 1) : st2[k] = st[k]
    BY <1>1 DEF TopIs
  <1>3. \A k \in 1 .. n : st2[k].path = st[k].path
    <2> SUFFICES ASSUME NEW k \in 1 .. n PROVE st2[k].path = st[k].path
      OBVIOUS
    <2>1. CASE k = n
      BY <1>1, <1>2, <2>1
    <2>2. CASE k # n
      <3>1. k \in 1 .. (n - 1)
        BY <1>1, <2>2
      <3> QED
        BY <1>2, <3>1
    <2> QED
      BY <2>1, <2>2
  <1>4. /\ e = "running" /\ \A k \in 1 .. n : IsPrefix(st[1].path, st[k].path)
        /\ \A k \in 1 .. (n - 1) : st[k].pc = "read"
    BY <1>1 DEF Calls
  <1>5. \A k \in 1 .. n : IsPrefix(st2[1].path, st2[k].path)
    <2>1. 1 \in 1 .. n
      BY <1>1
    <2> QED
      BY <1>3, <1>4, <2>1
  <1>6. \A k \in 1 .. (n - 1) : st2[k].pc = "read"
    BY <1>2, <1>4
  <1> QED
    BY <1>2, <1>4, <1>5, <1>6 DEF Calls

LEMMA CallsPush ==
  ASSUME NEW nd, NEW st \in Seq(Frames), NEW e, Calls(nd, st, e), Len(st) # 0,
         st[Len(st)].pc = "read", NEW b \in Frames, IsPrefix(st[1].path, b.path),
         NEW st2, st2 = Append(st, b),
         \A d \in WalkIn(nd, b.path) : nd[d].dir <=> b.pc = "read"
  PROVE  Calls(nd, st2, e)
  <1>1. PICK n \in Nat : n = Len(st) /\ n # 0
    OBVIOUS
  <1>2. Len(st2) = n + 1 /\ st2[n + 1] = b /\ \A k \in 1 .. n : st2[k] = st[k]
    BY <1>1, AppendIs
  <1>3. /\ e = "running" /\ \A k \in 1 .. n : IsPrefix(st[1].path, st[k].path)
        /\ \A k \in 1 .. (n - 1) : st[k].pc = "read"
    BY <1>1 DEF Calls
  <1>4. ASSUME NEW k \in 1 .. Len(st2) PROVE IsPrefix(st2[1].path, st2[k].path)
    <2>1. 1 \in 1 .. n /\ st2[1] = st[1]
      BY <1>1, <1>2
    <2>2. CASE k = n + 1
      BY <1>2, <2>1, <2>2
    <2>3. CASE k # n + 1
      <3>1. k \in 1 .. n
        BY <1>1, <1>2, <2>3
      <3> QED
        BY <1>2, <1>3, <2>1, <3>1
    <2> QED
      BY <2>2, <2>3
  <1>5. ASSUME NEW k \in 1 .. (Len(st2) - 1) PROVE st2[k].pc = "read"
    <2>1. k \in 1 .. n
      BY <1>1, <1>2
    <2>2. CASE k = n
      BY <1>1, <1>2, <2>1, <2>2
    <2>3. CASE k # n
      <3>1. k \in 1 .. (n - 1)
        BY <1>1, <2>1, <2>3
      <3> QED
        BY <1>2, <1>3, <2>1, <3>1
    <2> QED
      BY <2>2, <2>3
  <1> QED
    BY <1>2, <1>3, <1>4, <1>5 DEF Calls

LEMMA CallsPop ==
  ASSUME NEW nd, NEW st \in Seq(Frames), NEW e, Calls(nd, st, e), NEW m \in Nat \ {0},
         Len(st) = m + 1, NEW st2, st2 = Front(st), NEW md,
         \A d \in WalkIn(md, st[m].path) : md[d].dir
  PROVE  Calls(md, st2, e)
  <1>1. Len(st2) = m /\ \A k \in 1 .. m : st2[k] = st[k]
    <2>1. st2 = SubSeq(st, 1, m)
      BY DEF Front
    <2> QED
      BY <2>1
  <1>2. /\ e = "running" /\ \A k \in 1 .. (m + 1) : IsPrefix(st[1].path, st[k].path)
        /\ \A k \in 1 .. m : st[k].pc = "read"
    <2>1. Len(st) # 0 /\ Len(st) - 1 = m
      OBVIOUS
    <2> QED
      BY <2>1 DEF Calls
  <1>3. \A k \in 1 .. m : IsPrefix(st2[1].path, st2[k].path)
    <2>1. 1 \in 1 .. m /\ \A k \in 1 .. m : k \in 1 .. (m + 1)
      OBVIOUS
    <2> QED
      BY <1>1, <1>2, <2>1
  <1>4. \A k \in 1 .. (m - 1) : st2[k].pc = "read"
    <2>1. \A k \in 1 .. (m - 1) : k \in 1 .. m
      OBVIOUS
    <2> QED
      BY <1>1, <1>2, <2>1
  <1>5. st2[m] = st[m] /\ st2[m].pc = "read"
    <2>1. m \in 1 .. m
      OBVIOUS
    <2> QED
      BY <1>1, <1>2, <2>1
  <1> QED
    BY <1>1, <1>2, <1>3, <1>4, <1>5 DEF Calls

(* There is a directory that its owner may not write. *)
Unwritable(nd) ==
  \E path \in TreeIn(nd) : \E c \in WalkIn(nd, path) : nd[c].dir /\ "write" \notin nd[c].att

(* What a step of a call for the directory at p may do to the tree. *)
Deletes(nd, T, T2, p, e) ==
  /\ T2 \ Below(p) = T \ Below(p)
  /\ T2 \subseteq T
  /\ e = "ok" => T2 \cap Below(p) = {}
  /\ e \in {"running", "ok", "interrupted"} \/ Unwritable(nd)

LEMMA SameTree ==
  ASSUME NEW nd, NEW T, NEW p, NEW e, e # "ok",
         e \in {"running", "ok", "interrupted"} \/ Unwritable(nd)
  PROVE  Deletes(nd, T, T, p, e)
  BY DEF Deletes

LEMMA OneDeleted ==
  ASSUME NEW nd, NEW T \in SUBSET Path(MaxDepth), NEW p, NEW q, IsPrefix(p, q)
  PROVE  Deletes(nd, T, T \ {q}, p, "running")
  BY DEF Deletes, Below

LEMMA AllDeleted ==
  ASSUME NEW nd, NEW T \in SUBSET Path(MaxDepth), NEW p, IsPrefix(p, p),
         \A q \in T : IsPrefix(p, q) => q = p
  PROVE  Deletes(nd, T, T \ {p}, p, "ok")
  BY DEF Deletes, Below

LEMMA TreeInIs == ASSUME NEW nd PROVE TreeIn(nd) \in SUBSET Path(MaxDepth)
  BY DEF TreeIn

(* The directory a call works on is in the tree. *)
LEMMA InTree ==
  ASSUME NEW nd, NEW live, NEW h, IsTree(nd, live, h), NEW d \in live,
         NEW p \in Seq(Names), Len(p) # 0, WalkIn(nd, p) = {d}
  PROVE  p \in TreeIn(nd)
  <1>1. h[d] = Len(p)
    BY WalkLeads DEF Leads
  <1>2. h[d] \in 0 .. MaxDepth
    BY DEF IsTree
  <1>3. Len(p) \in 1 .. MaxDepth
    BY <1>1, <1>2, ConstantsAre
  <1> QED
    BY <1>3, PathsAre DEF TreeIn

(* A file or directory that is there can only not be deleted from a         *)
(* directory that may not be written.                                       *)
LEMMA RefusedIs ==
  ASSUME NEW live, NEW h, IsTree(node, live, h), Dotted(node),
         NEW p \in Seq(Names), Len(p) # 0, Exists(p), ~ Opens(p, TRUE, {"read"}),
         DeleteResult(p) # "ok"
  PROVE  DeleteResult(p) = "EOS_FNA" /\ Unwritable(node)
  <1>1. ~ Opens(Parent(p), TRUE, {"write"}) /\ DeleteResult(p) = "EOS_FNA"
    BY DEF DeleteResult
  <1>2. PICK d \in live : \E i \in Given(node, d) :
          WalkIn(node, Front(p)) = {d} /\ h[d] = Len(p) - 1
    BY NodeIs
  <1>3. Given(node, d) # {} /\ WalkIn(node, Front(p)) = {d} /\ h[d] = Len(p) - 1
    BY <1>2
  <1>4. d \in Cluster /\ Indices(node[d].ent, Self) # {} /\ node[d].dir /\ node \in Nodes
    BY <1>3 DEF Dotted, IsTree, Listed
  <1>5. Walk(Parent(p)) = {d}
    BY <1>3, <1>4, ParentFound
  <1>6. "write" \notin node[d].att
    <2>1. node[d].dir = TRUE
      BY <1>4 DEF Nodes, Node
    <2> QED
      BY <1>1, <1>5, <2>1 DEF Opens
  <1>7. d # Root
    BY <1>6 DEF Dotted
  <1>8. Front(p) \in Seq(Names) /\ Len(Front(p)) # 0
    <2>1. Front(p) \in Seq(Names)
      BY FrontIs
    <2>2. Len(Front(p)) = 0 => WalkIn(node, Front(p)) = {Root}
      BY <1>4, <2>1, WalkNone
    <2> QED
      BY <1>3, <1>7, <2>1, <2>2
  <1>9. PICK q \in Seq(Names) : q = Front(p) /\ Len(q) # 0 /\ WalkIn(node, q) = {d}
    BY <1>3, <1>8
  <1>10. q \in TreeIn(node)
    BY <1>9, InTree
  <1> QED
    BY <1>1, <1>4, <1>6, <1>9, <1>10 DEF Unwritable

(* The call under way. *)
LEMMA CallIs ==
  ASSUME NEW live, NEW h, IsTree(node, live, h), Stack(node, del, live, h), del # << >>,
         Calls(node, del, ec), NEW n, NEW f, NEW d, Works(live, h, n, f, d)
  PROVE  /\ ec = "running" /\ del \in Seq(Frames) /\ Len(del) # 0
         /\ del[1].path \in Seq(Names) /\ IsPrefix(del[1].path, f.path)
         /\ node[d].dir <=> f.pc = "read"
  <1>1. n \in Nat \ {0} /\ n = Len(del) /\ f = del[n] /\ WalkIn(node, f.path) = {d}
    BY DEF Works
  <1>2. del \in Seq(Frames)
    BY DEF Stack
  <1>3. 1 \in 1 .. n /\ n \in 1 .. n
    BY <1>1
  <1>4. del[1] \in Frames
    BY <1>1, <1>2, <1>3
  <1>5. del[1].path \in Seq(Names)
    BY <1>4 DEF Frames
  <1>6. /\ ec = "running" /\ IsPrefix(del[1].path, f.path)
        /\ node[d].dir <=> f.pc = "read"
    BY <1>1, <1>3 DEF Calls
  <1> QED
    BY <1>1, <1>2, <1>5, <1>6

CallsInv == Dotted(node) /\ Calls(node, del, ec)

(* A step of a call leaves the invariant and does no more than it may. *)
Goes ==
  /\ Dotted(node') /\ Calls(node', del', ec')
  /\ Deletes(node, TreeIn(node), TreeIn(node'), del[1].path, ec')

LEMMA GoesIs ==
  ASSUME NEW md, md = node', NEW st, st = del', NEW e, e = ec', Dotted(md), Calls(md, st, e),
         Deletes(node, TreeIn(node), TreeIn(md), del[1].path, e)
  PROVE  Goes
  BY DEF Goes

LEMMA SkipGoes == ASSUME TreeInv, CallsInv, SkipEntry PROVE Goes
  <1>1. PICK live, h :
          IsTree(node, live, h) /\ Marked(node, used, live) /\ Stack(node, del, live, h)
    BY DEF TreeInv, Tidy
  <1>2. /\ del # << >> /\ node' = node /\ ec' = ec
    BY DEF SkipEntry, Reading
  <1>3. PICK n, f, d : Works(live, h, n, f, d)
    BY <1>1, <1>2, WorksIs
  <1>4. PICK st2 : st2 = del' /\ st2 = [del EXCEPT ![Len(del)].pos = @ + 1]
    BY DEF SkipEntry
  <1>5. /\ ec = "running" /\ del \in Seq(Frames) /\ Len(del) # 0
        /\ node[d].dir <=> f.pc = "read"
    BY <1>1, <1>2, <1>3, CallIs DEF CallsInv
  <1>6. PICK g \in Frames : g = Onward(f) /\ g.path = f.path /\ g.pc = f.pc
    BY <1>3, OnwardIs DEF Works
  <1>7. TopIs(del, st2, g)
    BY <1>1, <1>3, <1>4, <1>6, MovesOn
  <1>8. /\ g.path = del[Len(del)].path
        /\ \A c \in WalkIn(node, g.path) : node[c].dir <=> g.pc = "read"
    BY <1>3, <1>5, <1>6 DEF Works
  <1>9. Calls(node, st2, ec)
    BY <1>5, <1>7, <1>8, CallsTop DEF CallsInv
  <1>10. Deletes(node, TreeIn(node), TreeIn(node), del[1].path, ec)
    BY <1>5, SameTree
  <1> QED
    BY <1>2, <1>4, <1>9, <1>10, GoesIs DEF CallsInv

LEMMA InterruptGoes == ASSUME CallsInv, Interrupt PROVE Goes
  <1>1. node' = node /\ del' = << >> /\ ec' = "interrupted"
    BY DEF Interrupt, Return
  <1>2. Deletes(node, TreeIn(node), TreeIn(node), del[1].path, "interrupted")
    BY SameTree
  <1>3. Calls(node, << >>, "interrupted")
    BY CallsNone
  <1> QED
    BY <1>1, <1>2, <1>3, GoesIs DEF CallsInv

LEMMA EnterGoes == ASSUME TreeInv, CallsInv, EnterDirectory PROVE Goes
  <1>1. PICK live, h :
          IsTree(node, live, h) /\ Marked(node, used, live) /\ Stack(node, del, live, h)
    BY DEF TreeInv, Tidy
  <1>2. /\ del # << >> /\ ~ AtEnd /\ Name \in Names /\ Opens(Child, TRUE, {"read"})
        /\ node' = node /\ ec' = ec /\ Top.pc = "read"
    BY DEF EnterDirectory, Reading
  <1>3. PICK n, f, d : Works(live, h, n, f, d)
    BY <1>1, <1>2, WorksIs
  <1>4. PICK st1 : st1 = [del EXCEPT ![Len(del)].pos = @ + 1]
    OBVIOUS
  <1>5. /\ ec = "running" /\ del \in Seq(Frames) /\ Len(del) # 0
        /\ del[1].path \in Seq(Names) /\ IsPrefix(del[1].path, f.path)
        /\ node[d].dir <=> f.pc = "read"
    BY <1>1, <1>2, <1>3, CallIs DEF CallsInv
  <1>6. PICK x \in Names : x = Name
    BY <1>2
  <1>7. PICK p : p = Append(f.path, x)
    OBVIOUS
  <1>8. f.path \in Seq(Names) /\ p \in Seq(Names) /\ Child = p
    <2>1. f.path \in Seq(Names)
      BY <1>3 DEF Works
    <2>2. p \in Seq(Names)
      BY <1>7, <2>1, AppendIs
    <2>3. Child = p
      BY <1>1, <1>2, <1>3, <1>6, <1>7, NameIs
    <2> QED
      BY <2>1, <2>2, <2>3
  <1>9. PICK b : b = Frame(p)
    OBVIOUS
  <1>10. b \in Frames /\ b.path = p /\ b.pc = "read"
    BY <1>8, <1>9 DEF Frame, Frames
  <1>11. PICK st2 : st2 = del' /\ st2 = Append(st1, b)
    BY <1>4, <1>8, <1>9 DEF EnterDirectory
  <1>12. PICK g \in Frames : g = Onward(f) /\ g.path = f.path /\ g.pc = f.pc
    BY <1>3, OnwardIs DEF Works
  <1>13. TopIs(del, st1, g)
    BY <1>1, <1>3, <1>4, <1>12, MovesOn
  <1>14. /\ g.path = del[Len(del)].path
         /\ \A c \in WalkIn(node, g.path) : node[c].dir <=> g.pc = "read"
    BY <1>3, <1>5, <1>12 DEF Works
  <1>15. Calls(node, st1, ec)
    BY <1>5, <1>13, <1>14, CallsTop DEF CallsInv
  <1>16. /\ st1 \in Seq(Frames) /\ Len(st1) # 0 /\ st1[Len(st1)].pc = "read"
         /\ st1[1].path = del[1].path
    <2>1. n = Len(del) /\ n \in Nat \ {0} /\ f = del[n] /\ f.pc = "read"
      BY <1>2, <1>3 DEF Works
    <2>2. /\ st1 \in Seq(Frames) /\ Len(st1) = n /\ st1[n] = g
          /\ \A k \in 1 .. (n - 1) : st1[k] = del[k]
      BY <1>13, <2>1 DEF TopIs
    <2>3. n = 1 \/ 1 \in 1 .. (n - 1)
      BY <2>1
    <2> QED
      BY <1>12, <2>1, <2>2, <2>3
  <1>17. IsPrefix(st1[1].path, b.path)
    <2>1. IsPrefix(del[1].path, Append(f.path, x))
      BY <1>5, <1>8, PrefixAppend
    <2> QED
      BY <1>7, <1>10, <1>16, <2>1
  <1>18. \A c \in WalkIn(node, b.path) : node[c].dir <=> b.pc = "read"
    <2>1. Walk(p) = WalkIn(node, p)
      BY <1>1, <1>8, WalkIs DEF IsTree
    <2>2. PICK c \in Walk(p) : node[c].dir = TRUE
      BY <1>2, <1>8 DEF Opens
    <2>3. WalkIn(node, p) = {c}
      BY <1>1, <1>8, <2>1, <2>2, WalkLeads DEF Leads
    <2> QED
      BY <1>10, <2>2, <2>3
  <1>19. Calls(node, st2, ec)
    BY <1>10, <1>11, <1>15, <1>16, <1>17, <1>18, CallsPush
  <1>20. Deletes(node, TreeIn(node), TreeIn(node), del[1].path, ec)
    BY <1>5, SameTree
  <1> QED
    BY <1>2, <1>11, <1>19, <1>20, GoesIs DEF CallsInv

(* What deleting a file leaves. *)
UnlinkGone(md, p, d, c) ==
  /\ md \in Nodes /\ TreeIn(md) = TreeIn(node) \ {p} /\ Dotted(md) /\ OnlyGone(node, md, p)
  /\ md[d].dir = node[d].dir

LEMMA UnlinkGoneIs ==
  ASSUME NEW live, NEW h, IsTree(node, live, h), Dotted(node), NEW p \in Seq(Names),
         NEW d, NEW i, NEW c, Unlinked(live, h, p, d, i, c), NEW md, md = node'
  PROVE  UnlinkGone(md, p, d, c)
  <1>1. /\ d \in live /\ i \in Given(node, d) /\ c = node[d].ent[i].at /\ Given(node, c) = {}
        /\ EntryGone(node, md, d, i) /\ IsTree(md, live \ {c}, h) /\ WalkIn(node, p) = {c}
    BY DEF Unlinked
  <1>2. OnlyGone(node, md, p)
    BY <1>1, GoneWalk
  <1>3. TreeIn(md) = TreeIn(node) \ {p}
    BY <1>1, GoneTree
  <1>4. node \in Nodes /\ d \in Cluster
    BY <1>1 DEF IsTree
  <1>5. Dotted(md)
    BY <1>1, <1>4, GoneDotted
  <1>6. md \in Nodes /\ md[d].dir = node[d].dir
    BY <1>1 DEF EntryGone
  <1> QED
    BY <1>2, <1>3, <1>5, <1>6 DEF UnlinkGone

LEMMA EntryGoes == ASSUME TreeInv, CallsInv, DeleteEntry PROVE Goes
  <1>1. PICK live, h :
          IsTree(node, live, h) /\ Marked(node, used, live) /\ Stack(node, del, live, h)
    BY DEF TreeInv, Tidy
  <1>2. del # << >> /\ ~ AtEnd /\ Name \in Names /\ ~ Opens(Child, TRUE, {"read"})
    BY DEF DeleteEntry, Reading
  <1>3. PICK n, f, d : Works(live, h, n, f, d)
    BY <1>1, <1>2, WorksIs
  <1>4. /\ ec = "running" /\ del \in Seq(Frames) /\ Len(del) # 0
        /\ del[1].path \in Seq(Names) /\ IsPrefix(del[1].path, f.path)
        /\ node[d].dir <=> f.pc = "read"
    BY <1>1, <1>2, <1>3, CallIs DEF CallsInv
  <1>5. PICK x \in Names : x = Name
    BY <1>2
  <1>6. PICK p : p = Append(f.path, x)
    OBVIOUS
  <1>7. /\ f.path \in Seq(Names) /\ p \in Seq(Names) /\ Child = p
        /\ Len(p) = Len(f.path) + 1 /\ Len(p) # 0 /\ p # f.path
    <2>1. f.path \in Seq(Names)
      BY <1>3 DEF Works
    <2>2. p \in Seq(Names) /\ Len(p) = Len(f.path) + 1
      BY <1>6, <2>1, AppendIs
    <2>3. Child = p
      BY <1>1, <1>2, <1>3, <1>5, <1>6, NameIs
    <2>4. Len(f.path) \in Nat
      BY <2>1
    <2> QED
      BY <2>1, <2>2, <2>3, <2>4
  <1>8. CASE DeleteResult(Child) # "ok"
    <2>1. del' = << >> /\ node' = node /\ ec' = DeleteResult(p)
      BY <1>7, <1>8 DEF DeleteEntry, Return
    <2>2. Exists(p)
      <3>1. PICK k \in Given(node, d) : node[d].ent[k].name = x
        BY <1>1, <1>2, <1>3, <1>5, NameIs
      <3>2. d \in live /\ WalkIn(node, f.path) = {d} /\ node \in Nodes
        BY <1>1, <1>3 DEF Works, IsTree
      <3>3. FindIn(node, d, x) = {node[d].ent[k].at}
        BY <1>1, <3>1, <3>2, FindsGiven
      <3>4. WalkIn(node, Append(f.path, x)) = NextAt(node, WalkIn(node, f.path), x)
        <4>1. node \in Nodes /\ f.path \in Seq(Names) /\ x \in Names
          BY <1>7, <3>1, <3>2 DEF Given
        <4> QED
          BY ONLY <4>1, NamesAppend
      <3>5. NextAt(node, {d}, x) = FindIn(node, d, x)
        BY DEF NextAt
      <3>6. Walk(p) = WalkIn(node, p)
        BY <1>7, <3>2, WalkIs
      <3> QED
        BY <1>6, <3>2, <3>3, <3>4, <3>5, <3>6 DEF Exists
    <2>3. DeleteResult(p) = "EOS_FNA" /\ Unwritable(node)
      BY <1>1, <1>2, <1>7, <1>8, <2>2, RefusedIs DEF CallsInv
    <2>4. Deletes(node, TreeIn(node), TreeIn(node), del[1].path, "EOS_FNA")
      BY <2>3, SameTree
    <2>5. Calls(node, << >>, "EOS_FNA")
      BY CallsNone
    <2> QED
      BY <2>1, <2>3, <2>4, <2>5, GoesIs DEF CallsInv
  <1>9. CASE DeleteResult(Child) = "ok"
    <2>1. Unlink(p) /\ ec' = ec
      BY <1>7, <1>9 DEF DeleteEntry
    <2>2. PICK e, i, c : Unlinked(live, h, p, e, i, c)
      BY <1>1, <1>7, <1>9, <2>1, UnlinkedIs
    <2>3. PICK md : md = node'
      OBVIOUS
    <2>4. UnlinkGone(md, p, e, c)
      BY <1>1, <1>7, <2>2, <2>3, UnlinkGoneIs DEF CallsInv
    <2>5. e = d
      <3>1. WalkIn(node, Front(p)) = {e}
        BY <2>2 DEF Unlinked
      <3>2. Front(p) = f.path
        BY <1>6, <1>7, FrontOfAppend
      <3>3. WalkIn(node, f.path) = {d}
        BY <1>3 DEF Works
      <3> QED
        BY <3>1, <3>2, <3>3
    <2>6. WalkIn(md, f.path) = {d} /\ md[d].dir = node[d].dir
      BY <1>3, <1>7, <2>4, <2>5 DEF UnlinkGone, OnlyGone, Works
    <2>7. PICK st2 : st2 = del' /\ st2 = [del EXCEPT ![Len(del)].pos = @ + 1]
      BY <1>9 DEF DeleteEntry
    <2>8. PICK g \in Frames : g = Onward(f) /\ g.path = f.path /\ g.pc = f.pc
      BY <1>3, OnwardIs DEF Works
    <2>9. TopIs(del, st2, g)
      BY <1>1, <1>3, <2>7, <2>8, MovesOn
    <2>10. /\ g.path = del[Len(del)].path
           /\ \A b \in WalkIn(md, g.path) : md[b].dir <=> g.pc = "read"
      BY <1>3, <1>4, <2>6, <2>8 DEF Works
    <2>11. Calls(md, st2, ec)
      BY <1>4, <2>9, <2>10, CallsTop DEF CallsInv
    <2>12. IsPrefix(del[1].path, p)
      BY <1>4, <1>6, <1>7, PrefixAppend
    <2>13. Deletes(node, TreeIn(node), TreeIn(md), del[1].path, ec)
      <3>1. Deletes(node, TreeIn(node), TreeIn(node) \ {p}, del[1].path, "running")
        BY <2>12, OneDeleted, TreeInIs
      <3> QED
        BY <1>4, <2>4, <3>1 DEF UnlinkGone
    <2>14. Dotted(md)
      BY <2>4 DEF UnlinkGone
    <2> QED
      BY <2>1, <2>3, <2>7, <2>11, <2>13, <2>14, GoesIs
  <1> QED
    BY <1>8, <1>9

IsCleared(nd, md, d) ==
  /\ md \in Nodes /\ md[d].dir = FALSE
  /\ \A e \in Cluster : md[e].ent = nd[e].ent /\ md[e].att = nd[e].att

LEMMA DirCleared ==
  ASSUME NEW nd \in Nodes, NEW d \in Cluster, NEW md, md = [nd EXCEPT ![d].dir = FALSE]
  PROVE  IsCleared(nd, md, d)
  <1>1. nd[d] \in Node
    BY DEF Nodes
  <1>2. PICK b : b = [nd[d] EXCEPT !.dir = FALSE]
    OBVIOUS
  <1>3. b \in Node /\ b.ent = nd[d].ent /\ b.att = nd[d].att /\ b.dir = FALSE
    BY <1>1, <1>2 DEF Node
  <1>4. md = [nd EXCEPT ![d] = b]
    BY <1>2 DEF Nodes
  <1>5. md \in Nodes /\ md[d] = b /\ \A e \in Cluster : e # d => md[e] = nd[e]
    BY <1>3, <1>4 DEF Nodes
  <1> QED
    BY <1>3, <1>5 DEF IsCleared

LEMMA ClearGoes == ASSUME TreeInv, CallsInv, ClearAttribute PROVE Goes
  <1>1. PICK live, h :
          IsTree(node, live, h) /\ Marked(node, used, live) /\ Stack(node, del, live, h)
    BY DEF TreeInv, Tidy
  <1>2. del # << >> /\ Top.pc = "read"
    BY DEF ClearAttribute, Reading
  <1>3. PICK n, f, d : Works(live, h, n, f, d)
    BY <1>1, <1>2, WorksIs
  <1>4. /\ ec = "running" /\ del \in Seq(Frames) /\ Len(del) # 0
        /\ node[d].dir <=> f.pc = "read"
    BY <1>1, <1>2, <1>3, CallIs DEF CallsInv
  <1>5. /\ d \in live /\ d \in Cluster /\ f.path \in Seq(Names) /\ f = Top /\ At(f.path) = d
        /\ WalkIn(node, f.path) = {d} /\ Walk(f.path) = {d} /\ Len(f.path) # 0
        /\ n \in Nat \ {0} /\ n = Len(del) /\ f = del[n] /\ f \in Frames
    BY <1>3 DEF Works
  <1>6. node \in Nodes
    BY <1>1 DEF IsTree
  <1>7. CASE ~ Opens(Top.path, TRUE, {"write"})
    <2>1. del' = << >> /\ node' = node /\ ec' = "EOS_FNA"
      BY <1>7 DEF ClearAttribute, Return
    <2>2. node[d].dir /\ "write" \notin node[d].att
      <3>1. node[d].dir = TRUE
        BY <1>2, <1>4, <1>5, <1>6 DEF Nodes, Node
      <3> QED
        BY <1>5, <1>7, <3>1 DEF Opens
    <2>3. Unwritable(node)
      <3>1. PICK q \in Seq(Names) : q = f.path /\ Len(q) # 0 /\ WalkIn(node, q) = {d}
        BY <1>5
      <3>2. q \in TreeIn(node)
        BY <1>1, <1>5, <3>1, InTree
      <3> QED
        BY <2>2, <3>1, <3>2 DEF Unwritable
    <2>4. Deletes(node, TreeIn(node), TreeIn(node), del[1].path, "EOS_FNA")
      BY <2>3, SameTree
    <2>5. Calls(node, << >>, "EOS_FNA")
      BY CallsNone
    <2> QED
      BY <2>1, <2>4, <2>5, GoesIs DEF CallsInv
  <1>8. CASE Opens(Top.path, TRUE, {"write"})
    <2>1. PICK md : md = node' /\ md = [node EXCEPT ![d].dir = FALSE]
      BY <1>5, <1>8 DEF ClearAttribute
    <2>2. PICK st2 : st2 = del' /\ st2 = [del EXCEPT ![Len(del)].pc = "delete"]
      BY <1>8 DEF ClearAttribute
    <2>3. ec' = ec
      BY <1>8 DEF ClearAttribute
    <2>4. /\ md \in Nodes /\ md[d].dir = FALSE
          /\ \A e \in Cluster : md[e].ent = node[e].ent /\ md[e].att = node[e].att
      <3>1. d \in Cluster /\ md = [node EXCEPT ![d].dir = FALSE]
        BY <1>5, <2>1
      <3>2. IsCleared(node, md, d)
        BY ONLY <1>6, <3>1, DirCleared
      <3> QED
        BY <3>2 DEF IsCleared
    <2>5. \A e \in Cluster : md[e].ent = node[e].ent
      BY <2>4
    <2>6. \A q \in Seq(Names) : WalkIn(md, q) = WalkIn(node, q)
      BY <1>6, <2>4, <2>5, SameEntries
    <2>7. TreeIn(md) = TreeIn(node)
      BY <2>6, PathsAre DEF TreeIn
    <2>8. Dotted(md)
      <3>1. "write" \in md[Root].att
        BY <2>4, ConstantsAre DEF CallsInv, Dotted
      <3> QED
        BY <2>5, <3>1, SameDotted DEF CallsInv
    <2>9. PICK g : g = [f EXCEPT !.pc = "delete"]
      OBVIOUS
    <2>10. g \in Frames /\ g.path = f.path /\ g.pc = "delete"
      BY <1>5, <2>9 DEF Frames
    <2>11. TopIs(del, st2, g)
      <3>1. st2 = [del EXCEPT ![n] = g]
        BY <1>4, <1>5, <2>2, <2>9
      <3> QED
        BY <1>4, <1>5, <2>10, <3>1, TopReplaced
    <2>12. /\ g.path = del[Len(del)].path
           /\ \A b \in WalkIn(md, g.path) : md[b].dir <=> g.pc = "read"
      BY <1>5, <2>4, <2>6, <2>10
    <2>13. Calls(md, st2, ec)
      BY <1>4, <2>11, <2>12, CallsTop DEF CallsInv
    <2>14. Deletes(node, TreeIn(node), TreeIn(md), del[1].path, ec)
      BY <1>4, <2>7, SameTree
    <2> QED
      BY <2>1, <2>2, <2>3, <2>8, <2>13, <2>14, GoesIs
  <1> QED
    BY <1>7, <1>8

LEMMA ClearedGoes == ASSUME TreeInv, CallsInv, DeleteCleared PROVE Goes
  <1>1. PICK live, h :
          IsTree(node, live, h) /\ Marked(node, used, live) /\ Stack(node, del, live, h)
    BY DEF TreeInv, Tidy
  <1>2. del # << >> /\ Top.pc = "delete"
    BY DEF DeleteCleared
  <1>3. PICK n, f, d : Works(live, h, n, f, d)
    BY <1>1, <1>2, WorksIs
  <1>4. /\ ec = "running" /\ del \in Seq(Frames) /\ Len(del) # 0
        /\ del[1].path \in Seq(Names) /\ IsPrefix(del[1].path, f.path)
        /\ node[d].dir <=> f.pc = "read"
    BY <1>1, <1>2, <1>3, CallIs DEF CallsInv
  <1>5. /\ d \in live /\ f.path \in Seq(Names) /\ f = Top /\ WalkIn(node, f.path) = {d}
        /\ Walk(f.path) = {d} /\ Len(f.path) # 0
        /\ n \in Nat \ {0} /\ n = Len(del) /\ f = del[n]
    BY <1>3 DEF Works
  <1>6. PICK p \in Seq(Names) : p = f.path /\ Top.path = p /\ Len(p) # 0
    BY <1>5
  <1>7. Exists(p) /\ ~ Opens(p, TRUE, {"read"})
    BY <1>2, <1>4, <1>5, <1>6 DEF Exists, Opens
  <1>8. CASE DeleteResult(p) # "ok"
    <2>1. del' = << >> /\ node' = node /\ ec' = DeleteResult(p)
      BY <1>6, <1>8 DEF DeleteCleared, Return
    <2>2. DeleteResult(p) = "EOS_FNA" /\ Unwritable(node)
      BY <1>1, <1>6, <1>7, <1>8, RefusedIs DEF CallsInv
    <2>3. Deletes(node, TreeIn(node), TreeIn(node), del[1].path, "EOS_FNA")
      BY <2>2, SameTree
    <2>4. Calls(node, << >>, "EOS_FNA")
      BY CallsNone
    <2> QED
      BY <2>1, <2>2, <2>3, <2>4, GoesIs DEF CallsInv
  <1>9. CASE DeleteResult(p) = "ok"
    <2>1. Unlink(p)
      BY <1>6, <1>9 DEF DeleteCleared
    <2>2. PICK e, i, c : Unlinked(live, h, p, e, i, c)
      BY <1>1, <1>6, <1>9, <2>1, UnlinkedIs
    <2>3. PICK md : md = node'
      OBVIOUS
    <2>4. UnlinkGone(md, p, e, c)
      BY <1>1, <2>2, <2>3, UnlinkGoneIs DEF CallsInv
    <2>5. Dotted(md) /\ TreeIn(md) = TreeIn(node) \ {p}
      BY <2>4 DEF UnlinkGone
    <2>6. CASE n = 1
      <3>1. del' = << >> /\ ec' = "ok"
        BY <1>5, <1>6, <1>9, <2>6 DEF DeleteCleared, Return
      <3>2. p = del[1].path
        BY <1>5, <1>6, <2>6
      <3>3. Given(node, c) = {} /\ WalkIn(node, p) = {c} /\ c \in live
        <4>1. Given(node, c) = {} /\ WalkIn(node, p) = {c}
          BY <2>2 DEF Unlinked
        <4> QED
          BY <1>5, <1>6, <4>1
      <3>4. \A q \in Seq(Names) : IsPrefix(p, q) /\ WalkIn(node, q) # {} => q = p
        BY <1>1, <3>3, NothingBelow
      <3>5. \A q \in TreeIn(node) : IsPrefix(p, q) => q = p
        BY <3>4, PathsAre DEF TreeIn
      <3>6. IsPrefix(p, p)
        BY PrefixSelf
      <3>7. Deletes(node, TreeIn(node), TreeIn(node) \ {p}, p, "ok")
        BY <3>5, <3>6, AllDeleted, TreeInIs
      <3>8. Calls(md, << >>, "ok")
        BY CallsNone
      <3> QED
        BY <2>3, <2>5, <3>1, <3>2, <3>7, <3>8, GoesIs
    <2>7. CASE n # 1
      <3>1. PICK st2 : st2 = del' /\ st2 = Front(del)
        BY <1>5, <1>6, <1>9, <2>7 DEF DeleteCleared
      <3>2. ec' = ec
        BY <1>5, <1>6, <1>9, <2>7 DEF DeleteCleared
      <3>3. PICK m \in Nat \ {0} : m = n - 1 /\ m \in 1 .. n /\ m \in 1 .. (n - 1) /\ m + 1 = n
        BY <1>5, <2>7
      <3>4. StackIs(node, live, h, del, n)
        BY <1>1, <1>5, StackFacts
      <3>5. PICK q \in Seq(Names) : q = del[m].path /\ q = Front(p)
        BY <1>5, <1>6, <3>3, <3>4 DEF StackIs
      <3>6. e \in live /\ i \in Given(node, e) /\ WalkIn(node, q) = {e}
        BY <2>2, <3>5 DEF Unlinked
      <3>7. q # p
        <4>1. Len(q) = Len(p) - 1 /\ Len(p) \in Nat
          BY <1>6, <3>5, FrontIs
        <4> QED
          BY <4>1
      <3>8. WalkIn(md, q) = {e} /\ md[e].dir
        <4>1. node[e].dir
          BY <1>1, <3>6 DEF IsTree, Listed
        <4> QED
          BY <2>4, <3>6, <3>7, <4>1 DEF UnlinkGone, OnlyGone
      <3>9. Calls(md, st2, ec)
        <4>1. \A b \in WalkIn(md, del[m].path) : md[b].dir
          BY <3>5, <3>8
        <4>2. Len(del) = m + 1 /\ Calls(node, del, ec)
          BY <1>5, <3>3 DEF CallsInv
        <4> QED
          BY <1>4, <3>1, <4>1, <4>2, CallsPop
      <3>10. Deletes(node, TreeIn(node), TreeIn(node) \ {p}, del[1].path, "running")
        BY <1>4, <1>6, OneDeleted, TreeInIs
      <3> QED
        BY <1>4, <2>3, <2>5, <3>1, <3>2, <3>9, <3>10, GoesIs
    <2> QED
      BY <2>6, <2>7
  <1> QED
    BY <1>8, <1>9

-----------------------------------------------------------------------------
(* What _os9_delete_directory deletes *)

LEMMA StepGoes ==
  ASSUME TreeInv, CallsInv, Next, del # << >>
  PROVE  Goes
  <1>1. ~ \E path \in Path(MaxDepth) :
            \/ MakeFile(path)
            \/ MakeDir(path)
            \/ Delete(path)
            \/ DeleteDirectory(path)
            \/ \E name \in Names : Rename(path, name)
            \/ \E att \in Attributes : SetAttributes(path, att)
    BY DEF MakeFile, MakeDir, Create, Delete, DeleteDirectory, Rename, SetAttributes
  <1> QED
    BY <1>1, SkipGoes, EnterGoes, EntryGoes, ClearGoes, ClearedGoes, InterruptGoes DEF Next

LEMMA PathCallsInv ==
  ASSUME Readable, TreeInv, CallsInv, NEW path \in Path(MaxDepth),
         \/ MakeFile(path)
         \/ MakeDir(path)
         \/ Delete(path)
         \/ DeleteDirectory(path)
         \/ \E name \in Names : Rename(path, name)
         \/ \E att \in Attributes : SetAttributes(path, att)
  PROVE  CallsInv'
  <1>1. CASE ~ DeleteDirectory(path)
    <2>1. Dotted(node') /\ del' = << >>
      BY <1>1, CallShapes DEF CallsInv
    <2> QED
      BY <2>1, CallsNone DEF CallsInv
  <1>2. CASE DeleteDirectory(path)
    <2>1. path \in Seq(Names)
      BY PathsAre
    <2>2. node' = node /\ ec' = "running" /\ Opens(path, TRUE, {"read"})
      BY <1>2 DEF DeleteDirectory
    <2>3. PICK f : f = Frame(path)
      OBVIOUS
    <2>4. f \in Frames /\ f.path = path /\ f.pc = "read"
      BY <2>1, <2>3 DEF Frame, Frames
    <2>5. PICK st : st = del' /\ st = << f >>
      BY <1>2, <2>3 DEF DeleteDirectory
    <2>6. \A c \in WalkIn(node, f.path) : node[c].dir <=> f.pc = "read"
      <3>1. PICK live, h : IsTree(node, live, h)
        BY DEF TreeInv, Tidy
      <3>2. Walk(path) = WalkIn(node, path)
        BY <2>1, <3>1, WalkIs DEF IsTree
      <3>3. PICK c \in Walk(path) : node[c].dir = TRUE
        BY <2>2 DEF Opens
      <3>4. WalkIn(node, path) = {c}
        BY <2>1, <3>1, <3>2, <3>3, WalkLeads DEF Leads
      <3> QED
        BY <2>4, <3>3, <3>4
    <2>7. Calls(node, st, "running")
      BY <2>4, <2>5, <2>6, CallsOne
    <2> QED
      BY <2>2, <2>5, <2>7 DEF CallsInv
  <1> QED
    BY <1>1, <1>2

LEMMA CallsInvNext == ASSUME Readable, TreeInv, CallsInv, [Next]_vars PROVE CallsInv'
  <1>1. CASE UNCHANGED vars
    BY <1>1 DEF vars, CallsInv
  <1>2. CASE \E path \in Path(MaxDepth) :
               \/ MakeFile(path)
               \/ MakeDir(path)
               \/ Delete(path)
               \/ DeleteDirectory(path)
               \/ \E name \in Names : Rename(path, name)
               \/ \E att \in Attributes : SetAttributes(path, att)
    BY <1>2, PathCallsInv
  <1>3. CASE \/ SkipEntry \/ EnterDirectory \/ DeleteEntry \/ ClearAttribute
             \/ DeleteCleared \/ Interrupt
    <2>1. Goes
      BY <1>3, SkipGoes, EnterGoes, EntryGoes, ClearGoes, ClearedGoes, InterruptGoes
    <2> QED
      BY <2>1 DEF Goes, CallsInv
  <1> QED
    BY <1>1, <1>2, <1>3 DEF Next

(* If all files can be read, _os9_delete_directory deletes the directory it *)
(* is given with all that is below it and nothing else, and only fails      *)
(* where there is a directory that may not be written: for every tree that  *)
(* calls can make, however deep, whatever earlier calls left half deleted.  *)
THEOREM DeletionIsExact == ASSUME Readable PROVE Spec => DeletesWhatItNames
  <1> DEFINE named == Below(del[1].path)
             Step == del # << >> =>
                       /\ Tree' \ named = Tree \ named
                       /\ Tree' \subseteq Tree
                       /\ ec' = "ok" => Tree' \cap named = {}
                       /\ \/ ec' \in {"running", "ok", "interrupted"}
                          \/ \E path \in Tree :
                               \E c \in Walk(path) : node[c].dir /\ "write" \notin node[c].att
  <1>1. Init => TreeInv /\ CallsInv
    BY InitTidy, CallsNone DEF TreeInv, CallsInv, Init
  <1>2. TreeInv /\ CallsInv /\ [Next]_vars => TreeInv' /\ CallsInv'
    BY TreeInvNext, CallsInvNext
  <1>3. TreeInv /\ TreeInv' /\ CallsInv /\ [Next]_vars => [Step]_vars
    <2> SUFFICES ASSUME TreeInv, TreeInv', CallsInv, Next, del # << >> PROVE Step
      OBVIOUS
    <2>1. Deletes(node, TreeIn(node), TreeIn(node'), del[1].path, ec')
      BY StepGoes DEF Goes
    <2>2. node \in Nodes /\ node' \in Nodes
      BY DEF TreeInv, Tidy, IsTree
    <2>3. Tree = TreeIn(node) /\ Tree' = TreeIn(node')
      BY <2>2, TreeIs, TreeNext
    <2>4. Unwritable(node) => \E path \in Tree :
            \E c \in Walk(path) : node[c].dir /\ "write" \notin node[c].att
      <3>1. \A path \in TreeIn(node) : Walk(path) = WalkIn(node, path)
        BY <2>2, PathsAre, WalkIs DEF TreeIn
      <3> QED
        BY <2>3, <3>1 DEF Unwritable
    <2> QED
      BY <2>1, <2>3, <2>4 DEF Deletes
  <1> QED
    BY <1>1, <1>2, <1>3, PTL DEF Spec, DeletesWhatItNames
==============================================================================

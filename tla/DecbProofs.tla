----------------------------- MODULE DecbProofs -----------------------------
(***************************************************************************)
(* Decb keeps its invariant, for every disk, every set of names, sizes and *)
(* positions, and whatever fails: with it the files of a Disk BASIC disk   *)
(* share no granule, lose none, and hold what was written to them. Without *)
(* failures, Decb implements FileStore: each call takes effect at one      *)
(* instant, on one file.                                                   *)
(***************************************************************************)
EXTENDS DecbInv, Iteration

-----------------------------------------------------------------------------
(* Following, extending and freeing the chain of one file *)

Fat == [Granule -> Byte]

(* Where a loop that follows a chain goes from granule h. *)
Link(f) == [h \in Granule |-> IF EndsAt(f, h) THEN h ELSE f[h]]

Ends(f) == { h \in Granule : EndsAt(f, h) }

LEMMA GranulesFinite == IsFiniteSet(Granule) /\ Cardinality(Granule) = Granules
  BY FatAssumption, FS_Interval DEF Granule

LEMMA Bytes ==
  /\ Granule \subseteq 0 .. 191
  /\ \A k \in 0 .. SpG : Last(k) \in Byte /\ Last(k) \in 192 .. 254
  /\ Free \in Byte
  /\ \A v \in Byte : v \in 0 .. 255
  /\ \A v \in Byte : v < 192 => v \in Granule
  /\ \A v \in Byte : v >= 192 /\ v # Free => \E k \in 0 .. SpG : v = Last(k)
  BY FatAssumption DEF Granule, Last, Byte, Free

LEMMA LinkType ==
  ASSUME NEW f \in Fat
  PROVE  Link(f) \in [Granule -> Granule]
  BY Bytes DEF Link, EndsAt, Fat

LEMMA WalkIs ==
  ASSUME NEW f \in Fat, NEW g \in Granule
  PROVE  IsWalk(Walk(f, g), Granule, g, Link(f))
  <1> DEFINE n == Link(f)
  <1>1. n \in [Granule -> Granule]
    BY LinkType
  <1> HIDE DEF n
  <1>2. PICK w \in [Nat -> Granule] : w = [k \in Nat |-> IF k = 0 THEN g ELSE n[w[k - 1]]]
    BY <1>1, IterationExists
  <1>3. \A k \in Nat \ {0} :
          n[w[k - 1]] = IF EndsAt(f, w[k - 1]) THEN w[k - 1] ELSE f[w[k - 1]]
    <2> SUFFICES ASSUME NEW k \in Nat \ {0}
                 PROVE  n[w[k - 1]] = IF EndsAt(f, w[k - 1]) THEN w[k - 1] ELSE f[w[k - 1]]
      OBVIOUS
    <2>1. w[k - 1] \in Granule
      OBVIOUS
    <2> QED
      BY <2>1 DEF n, Link
  <1>4. \A k \in Nat :
          (IF k = 0 THEN g ELSE n[w[k - 1]])
            = (IF k = 0 THEN g ELSE LET h == w[k - 1] IN IF EndsAt(f, h) THEN h ELSE f[h])
    BY <1>3
  <1>5. w = [k \in Nat |->
               IF k = 0 THEN g ELSE LET h == w[k - 1] IN IF EndsAt(f, h) THEN h ELSE f[h]]
    BY <1>2, <1>4
  <1>6. Walk(f, g) = [k \in Nat |->
               IF k = 0 THEN g
               ELSE LET h == Walk(f, g)[k - 1] IN IF EndsAt(f, h) THEN h ELSE f[h]]
    BY <1>5 DEF Walk
  <1> DEFINE v == Walk(f, g)
  <1> HIDE DEF v
  <1>7. v = [k \in Nat |->
               IF k = 0 THEN g ELSE IF EndsAt(f, v[k - 1]) THEN v[k - 1] ELSE f[v[k - 1]]]
    BY <1>6 DEF v
  <1>8. v[0] = g
    BY <1>7
  <1>9. \A k \in Nat : v[k + 1] = IF EndsAt(f, v[k]) THEN v[k] ELSE f[v[k]]
    <2> SUFFICES ASSUME NEW k \in Nat
                 PROVE  v[k + 1] = IF EndsAt(f, v[k]) THEN v[k] ELSE f[v[k]]
      OBVIOUS
    <2>1. k + 1 \in Nat /\ k + 1 # 0 /\ (k + 1) - 1 = k
      OBVIOUS
    <2> QED
      BY <2>1, <1>7
  <1> DEFINE T == { k \in Nat : v[k] \in Granule }
  <1>10. 0 \in T
    BY <1>8
  <1>11. ASSUME NEW k \in Nat, k \in T PROVE k + 1 \in T
    <2>1. v[k] \in Granule /\ Link(f)[v[k]] \in Granule
      BY <1>1, <1>11 DEF n
    <2> QED
      BY <1>9, <2>1 DEF Link
  <1> HIDE DEF T
  <1>12. \A k \in Nat : v[k] \in Granule
    BY <1>10, <1>11, AllNumbers DEF T
  <1>13. v \in [Nat -> Granule]
    BY <1>7, <1>12
  <1>14. \A k \in Nat : v[k + 1] = Link(f)[v[k]]
    BY <1>9, <1>12 DEF Link
  <1> QED
    BY <1>8, <1>13, <1>14 DEF v, IsWalk
-----------------------------------------------------------------------------
(* A chain that comes to its end at step m: its granules are those of the   *)
(* first m + 1 steps, all different.                                        *)
Shape(f, g, m) ==
  /\ m \in 0 .. (Granules - 1)
  /\ EndsAt(f, Walk(f, g)[m])
  /\ \A k \in 0 .. (m - 1) : ~ EndsAt(f, Walk(f, g)[k])
  /\ \A k \in Nat : k >= m => Walk(f, g)[k] = Walk(f, g)[m]
  /\ \A i, j \in 0 .. m : Walk(f, g)[i] = Walk(f, g)[j] => i = j
  /\ ~ Endless(f, g)
  /\ LastOf(f, g) = Walk(f, g)[m]
  /\ Chain(f, g) = { Walk(f, g)[k] : k \in 0 .. m }
  /\ Cardinality(Chain(f, g)) = m + 1

LEMMA ChainUpTo ==
  ASSUME NEW f \in Fat, NEW g \in Granule, NEW m \in Nat,
         EndsAt(f, Walk(f, g)[m]), \A k \in 0 .. (m - 1) : ~ EndsAt(f, Walk(f, g)[k])
  PROVE  Shape(f, g, m)
  <1> DEFINE w == Walk(f, g)
  <1>1. IsWalk(w, Granule, g, Link(f))
    BY WalkIs
  <1>2. w \in [Nat -> Granule]
    BY <1>1 DEF IsWalk
  <1>3. EndsAt(f, w[m]) /\ \A k \in 0 .. (m - 1) : ~ EndsAt(f, w[k])
    OBVIOUS
  <1> HIDE DEF w
  <1>4. w[m] \in Ends(f) /\ \A k \in 0 .. (m - 1) : w[k] \notin Ends(f)
    BY <1>2, <1>3 DEF Ends
  <1>5. m + 1 <= Granules /\ Cardinality({ w[k] : k \in 0 .. m }) = m + 1
    <2> DEFINE C == { w[k] : k \in 0 .. m }
    <2>1. C = { w[k] : k \in 0 .. m }
      OBVIOUS
    <2> HIDE DEF C
    <2>2. m + 1 <= Cardinality(Granule) /\ Cardinality(C) = m + 1
      BY <1>1, <1>4, <2>1, GranulesFinite, WalkShort
    <2> QED
      BY <2>1, <2>2, GranulesFinite
  <1>6. \A i, j \in 0 .. m : w[i] = w[j] => i = j
    BY <1>1, <1>4, WalkDistinct
  <1>7. Link(f)[w[m]] = w[m]
    BY <1>2, <1>3 DEF Link
  <1>8. \A k \in Nat : k >= m => w[k] = w[m]
    BY <1>1, <1>7, WalkStays
  <1>9. Granules - 1 \in Nat /\ Granules - 1 >= m /\ m \in 0 .. (Granules - 1)
    BY <1>5, FatAssumption
  <1>10. w[Granules - 1] = w[m]
    BY <1>8, <1>9
  <1>11. { w[k] : k \in 0 .. (Granules - 1) } = { w[k] : k \in 0 .. m }
    <2>1. ASSUME NEW k \in 0 .. (Granules - 1) PROVE \E j \in 0 .. m : w[k] = w[j]
      BY <1>8
    <2>2. 0 .. m \subseteq 0 .. (Granules - 1)
      BY <1>9
    <2> QED
      BY <2>1, <2>2
  <1> QED
    BY <1>3, <1>5, <1>6, <1>8, <1>9, <1>10, <1>11 DEF Shape, w, Chain, LastOf, Endless

LEMMA ChainShape ==
  ASSUME NEW f \in Fat, NEW g \in Granule, ~ Endless(f, g)
  PROVE  Shape(f, g, EndOf(f, g))
  <1> DEFINE T == { k \in Nat : EndsAt(f, Walk(f, g)[k]) }
  <1>1. Granules - 1 \in T
    BY FatAssumption DEF Endless, LastOf
  <1>2. PICK m \in T : \A k \in T : m <= k
    BY <1>1, LeastNumber
  <1>3. Shape(f, g, m)
    BY <1>2, ChainUpTo
  <1>4. m = EndOf(f, g)
    BY <1>3 DEF Shape, EndOf
  <1> QED
    BY <1>3, <1>4

LEMMA WalkType ==
  ASSUME NEW f \in Fat, NEW g \in Granule
  PROVE  /\ Walk(f, g) \in [Nat -> Granule]
         /\ Walk(f, g)[0] = g
         /\ \A k \in Nat : ~ EndsAt(f, Walk(f, g)[k]) => Walk(f, g)[k + 1] = f[Walk(f, g)[k]]
  <1>1. PICK w : w = Walk(f, g) /\ IsWalk(w, Granule, g, Link(f))
    BY WalkIs
  <1>2. /\ w \in [Nat -> Granule] /\ w[0] = g
        /\ \A k \in Nat : w[k + 1] = Link(f)[w[k]]
    BY <1>1 DEF IsWalk
  <1>3. ASSUME NEW k \in Nat, ~ EndsAt(f, w[k]) PROVE w[k + 1] = f[w[k]]
    <2>1. w[k] \in Granule /\ w[k + 1] = Link(f)[w[k]]
      BY <1>2
    <2> QED
      BY <1>3, <2>1 DEF Link
  <1> QED
    BY <1>1, <1>2, <1>3

LEMMA ChainType ==
  ASSUME NEW f \in Fat, NEW g \in Granule
  PROVE  /\ Chain(f, g) \subseteq Granule /\ IsFiniteSet(Chain(f, g))
         /\ g \in Chain(f, g) /\ LastOf(f, g) \in Chain(f, g)
         /\ LastOf(f, g) \in Granule
  <1>1. Chain(f, g) \subseteq Granule /\ LastOf(f, g) \in Chain(f, g)
    <2>1. Walk(f, g) \in [Nat -> Granule] /\ Granules - 1 \in 0 .. (Granules - 1)
      <3>1. Walk(f, g) \in [Nat -> Granule]
        BY WalkType
      <3>2. Granules - 1 \in 0 .. (Granules - 1)
        BY FatAssumption
      <3> QED
        BY <3>1, <3>2
    <2> QED
      BY <2>1 DEF Chain, LastOf
  <1>2. g \in Chain(f, g)
    <2>1. Walk(f, g)[0] = g
      BY WalkType
    <2>2. 0 \in 0 .. (Granules - 1)
      BY FatAssumption
    <2> QED
      BY <2>1, <2>2 DEF Chain
  <1>3. IsFiniteSet(Chain(f, g))
    BY <1>1, GranulesFinite, FS_Subset
  <1> QED
    BY <1>1, <1>2, <1>3

(* A chain is the same in every FAT that has the same bytes at its granules *)
LEMMA SameChain ==
  ASSUME NEW f \in Fat, NEW h \in Fat, NEW g \in Granule, ~ Endless(f, g),
         \A c \in Chain(f, g) : h[c] = f[c]
  PROVE  /\ Walk(h, g) = Walk(f, g) /\ Chain(h, g) = Chain(f, g)
         /\ LastOf(h, g) = LastOf(f, g) /\ ~ Endless(h, g)
  <1> DEFINE m == EndOf(f, g)
             v == Walk(f, g)
             w == Walk(h, g)
  <1>1. Shape(f, g, m)
    BY ChainShape
  <1>2. IsWalk(v, Granule, g, Link(f)) /\ IsWalk(w, Granule, g, Link(h))
    BY WalkIs
  <1>3. v \in [Nat -> Granule] /\ w \in [Nat -> Granule]
    BY <1>2 DEF IsWalk
  <1>4. m \in Nat /\ \A k \in 0 .. m : v[k] \in Chain(f, g)
    BY <1>1 DEF Shape
  <1>5. \A k \in 0 .. m : h[v[k]] = f[v[k]]
    BY <1>4
  <1> HIDE DEF m, v, w
  <1>6. \A k \in 0 .. (m - 1) : Link(f)[v[k]] = Link(h)[v[k]]
    BY <1>3, <1>4, <1>5 DEF Link, EndsAt
  <1>7. \A k \in 0 .. m : w[k] = v[k]
    BY <1>2, <1>4, <1>6, WalksAgree
  <1>8. Shape(h, g, m)
    <2>1. EndsAt(f, v[m]) /\ \A k \in 0 .. (m - 1) : ~ EndsAt(f, v[k])
      BY <1>1 DEF Shape, v
    <2>2. EndsAt(h, w[m]) /\ \A k \in 0 .. (m - 1) : ~ EndsAt(h, w[k])
      BY <1>4, <1>5, <1>7, <2>1 DEF EndsAt
    <2> QED
      BY <1>4, <2>2, ChainUpTo DEF w
  <1>9. \A k \in Nat : w[k] = v[k]
    <2> SUFFICES ASSUME NEW k \in Nat PROVE w[k] = v[k]
      OBVIOUS
    <2>1. CASE k <= m
      BY <2>1, <1>4, <1>7
    <2>2. CASE ~ (k <= m)
      <3>1. v[k] = v[m] /\ w[k] = w[m]
        BY <2>2, <1>1, <1>4, <1>8 DEF Shape, v, w
      <3> QED
        BY <3>1, <1>4, <1>7
    <2> QED
      BY <2>1, <2>2
  <1>10. w = v
    BY <1>3, <1>9
  <1> QED
    BY <1>1, <1>8, <1>10 DEF Shape, v, w, Chain, LastOf
-----------------------------------------------------------------------------
(* A chain of one granule. *)
LEMMA AloneShape ==
  ASSUME NEW f \in Fat, NEW g \in Granule, f[g] >= 192
  PROVE  /\ ~ Endless(f, g) /\ Chain(f, g) = {g} /\ LastOf(f, g) = g /\ EndOf(f, g) = 0
  <1>1. Walk(f, g)[0] = g
    BY WalkType
  <1>2. Shape(f, g, 0)
    BY <1>1, ChainUpTo DEF EndsAt
  <1>3. Chain(f, g) = { Walk(f, g)[k] : k \in 0 .. 0 } /\ LastOf(f, g) = g
        /\ ~ Endless(f, g) /\ EndOf(f, g) = 0
    BY <1>1, <1>2 DEF Shape, EndOf
  <1> QED
    BY <1>1, <1>3

(* What extend_fat_chain does in a round: the last granule is linked to one *)
(* that was in no chain, which is the new last one.                         *)
LEMMA AppendedShape ==
  ASSUME NEW f \in Fat, NEW g \in Granule, ~ Endless(f, g),
         NEW x \in Granule, x \notin Chain(f, g),
         NEW h \in Fat, h[LastOf(f, g)] = x, h[x] = Last(0),
         \A c \in Granule \ {LastOf(f, g), x} : h[c] = f[c]
  PROVE  /\ ~ Endless(h, g)
         /\ Chain(h, g) = Chain(f, g) \cup {x} /\ LastOf(h, g) = x
         /\ EndOf(h, g) = EndOf(f, g) + 1
         /\ \A k \in 0 .. EndOf(f, g) : Walk(h, g)[k] = Walk(f, g)[k]
  <1> DEFINE m == EndOf(f, g)
             v == Walk(f, g)
             w == Walk(h, g)
             l == LastOf(f, g)
  <1>1. Shape(f, g, m)
    BY ChainShape
  <1>2. l \in Granule /\ l # x /\ m \in Nat /\ l = v[m]
    BY <1>1, ChainType DEF Shape
  <1>3. h[l] = x /\ h[x] = Last(0) /\ \A c \in Granule \ {l, x} : h[c] = f[c]
    OBVIOUS
  <1>4. IsWalk(v, Granule, g, Link(f)) /\ IsWalk(w, Granule, g, Link(h))
    BY <1>3, WalkIs
  <1>5. v \in [Nat -> Granule] /\ w \in [Nat -> Granule]
    BY <1>4 DEF IsWalk
  <1>6a. Chain(f, g) = { v[k] : k \in 0 .. m }
    BY <1>1 DEF Shape
  <1>6. /\ \A k \in 0 .. m : v[k] \in Chain(f, g)
        /\ \A i, j \in 0 .. m : v[i] = v[j] => i = j
        /\ \A k \in 0 .. (m - 1) : ~ EndsAt(f, v[k])
    BY <1>1 DEF Shape
  <1> HIDE DEF v, w, m, l
  <1>7. ASSUME NEW k \in 0 .. (m - 1) PROVE v[k] # l /\ v[k] # x /\ h[v[k]] = f[v[k]]
    <2>1. k \in Nat /\ k \in 0 .. m /\ m \in 0 .. m /\ k # m
      BY <1>2
    <2>2. v[k] \in Granule /\ v[k] \in Chain(f, g)
      BY <2>1, <1>5, <1>6
    <2>3. v[k] # v[m]
      BY <2>1, <1>6
    <2> QED
      BY <2>2, <2>3, <1>2, <1>3
  <1>8. \A k \in 0 .. (m - 1) : Link(f)[v[k]] = Link(h)[v[k]]
    BY <1>2, <1>5, <1>7 DEF Link, EndsAt
  <1>9. \A k \in 0 .. m : w[k] = v[k]
    BY <1>2, <1>4, <1>8, WalksAgree
  <1>10. w[m + 1] = x
    <2>1. w[m] = l /\ ~ EndsAt(h, w[m])
      BY <1>2, <1>3, <1>9, Bytes DEF EndsAt
    <2>2. w[m + 1] = Link(h)[w[m]]
      BY <1>2, <1>4 DEF IsWalk
    <2> QED
      BY <2>1, <2>2, <1>2, <1>3 DEF Link
  <1>11. Shape(h, g, m + 1)
    <2>1. EndsAt(h, w[m + 1])
      BY <1>3, <1>10, FatAssumption DEF EndsAt, Last
    <2>2. ASSUME NEW k \in 0 .. m PROVE ~ EndsAt(h, w[k])
      <3>1. CASE k = m
        BY <3>1, <1>2, <1>3, <1>9, Bytes DEF EndsAt
      <3>2. CASE k # m
        BY <3>2, <1>2, <1>6, <1>7, <1>9 DEF EndsAt
      <3> QED
        BY <3>1, <3>2
    <2>3. (m + 1) - 1 = m /\ m + 1 \in Nat
      BY <1>2
    <2> QED
      BY <2>1, <2>2, <2>3, <1>3, ChainUpTo DEF w
  <1>12. Chain(h, g) = Chain(f, g) \cup {x}
    <2>1. Chain(h, g) = { w[k] : k \in 0 .. (m + 1) }
      BY <1>11 DEF Shape, w
    <2>2. 0 .. (m + 1) = (0 .. m) \cup {m + 1}
      BY <1>2
    <2> QED
      BY <2>1, <2>2, <1>6a, <1>9, <1>10
  <1> QED
    BY <1>2, <1>3, <1>9, <1>10, <1>11, <1>12 DEF Shape, EndOf, m, v, w, l

(* Another mark on the last granule leaves the chain as it is. *)
LEMMA MarkedShape ==
  ASSUME NEW f \in Fat, NEW g \in Granule, ~ Endless(f, g),
         NEW h \in Fat, h[LastOf(f, g)] >= 192,
         \A c \in Granule \ {LastOf(f, g)} : h[c] = f[c]
  PROVE  /\ ~ Endless(h, g) /\ Walk(h, g) = Walk(f, g)
         /\ Chain(h, g) = Chain(f, g) /\ LastOf(h, g) = LastOf(f, g)
         /\ EndOf(h, g) = EndOf(f, g)
  <1> DEFINE m == EndOf(f, g)
             v == Walk(f, g)
             w == Walk(h, g)
             l == LastOf(f, g)
  <1>1. Shape(f, g, m)
    BY ChainShape
  <1>2. l \in Granule /\ m \in Nat /\ l = v[m]
    BY <1>1, ChainType DEF Shape
  <1>3. h[l] >= 192 /\ \A c \in Granule \ {l} : h[c] = f[c]
    OBVIOUS
  <1>4. IsWalk(v, Granule, g, Link(f)) /\ IsWalk(w, Granule, g, Link(h))
    BY <1>3, WalkIs
  <1>5. v \in [Nat -> Granule]
    BY <1>4 DEF IsWalk
  <1>6. Link(f) = Link(h)
    <2>1. f[l] >= 192
      BY <1>1, <1>2 DEF Shape, EndsAt
    <2>2. \A c \in Granule : Link(f)[c] = Link(h)[c]
      BY <1>3, <2>1 DEF Link, EndsAt
    <2> QED
      BY <2>2 DEF Link
  <1>7. w = v
    <2> HIDE DEF v, w
    <2>1. ASSUME NEW k \in Nat PROVE \A j \in 0 .. k : w[j] = v[j]
      <3>1. \A j \in 0 .. (k - 1) : Link(f)[v[j]] = Link(h)[v[j]]
        BY <1>6
      <3> QED
        BY <1>4, <3>1, WalksAgree
    <2>2. \A k \in Nat : w[k] = v[k]
      <3>1. \A k \in Nat : k \in 0 .. k
        OBVIOUS
      <3> QED
        BY <2>1, <3>1
    <2>3. w \in [Nat -> Granule]
      BY <1>4 DEF IsWalk
    <2> QED
      BY <2>2, <2>3, <1>5
  <1>8. Chain(h, g) = Chain(f, g) /\ LastOf(h, g) = LastOf(f, g)
    BY <1>7 DEF Chain, LastOf
  <1>9. ~ Endless(h, g)
    BY <1>3, <1>8 DEF Endless, EndsAt
  <1> QED
    BY <1>3, <1>7, <1>8, <1>9 DEF EndOf
-----------------------------------------------------------------------------
(* Sizes and positions *)

LEMMA GranuleSizeIs == GranuleSize \in Nat \ {0} /\ Bps <= GranuleSize
  <1>1. \A a \in Nat \ {0}, b \in Nat \ {0} : a * b \in Nat \ {0} /\ b <= a * b
    OBVIOUS
  <1> QED
    BY <1>1, FatAssumption DEF GranuleSize

LEMMA TimesBps ==
  ASSUME NEW a \in Int, NEW b \in Int
  PROVE  /\ Bps * a \in Int /\ Bps * (a - 1) + Bps = Bps * a
         /\ a <= b => Bps * a <= Bps * b
         /\ Bps * a < Bps * b => a < b
  BY FatAssumption

(* The last byte of the chain and the entry say how many bytes of the last  *)
(* granule are the file's.                                                  *)
LEMMA UsedInLastIs ==
  ASSUME NEW v \in Byte, v >= Last(1), v # Free, NEW last \in 0 .. Bps
  PROVE  UsedInLast(v, last) \in 0 .. GranuleSize
  <1>1. PICK k \in 0 .. SpG : v = Last(k)
    BY Bytes DEF Last
  <1>2. k \in 1 .. SpG /\ UsedInLast(v, last) = (Bps * (k - 1)) + last
    BY <1>1, FatAssumption DEF Last, UsedInLast
  <1>3. 0 <= Bps * (k - 1) /\ Bps * (k - 1) + Bps <= Bps * SpG
    <2>1. Bps * 0 = 0 /\ 0 \in Int /\ k - 1 \in Int /\ 0 <= k - 1 /\ k \in Int /\ SpG \in Int
      BY <1>2, FatAssumption
    <2>2. Bps * (k - 1) + Bps = Bps * k
      BY <2>1, TimesBps
    <2>4. k <= SpG
      BY <1>2
    <2>5. Bps * k <= Bps * SpG
      BY <2>1, <2>4, TimesBps
    <2>3. Bps * 0 <= Bps * (k - 1)
      BY <2>1, TimesBps
    <2> QED
      BY <2>1, <2>2, <2>3, <2>5
  <1>4. GranuleSize = Bps * SpG /\ Bps \in Nat /\ Bps * SpG \in Int /\ Bps * (k - 1) \in Int
    BY <1>2, FatAssumption DEF GranuleSize
  <1> QED
    BY <1>2, <1>3, <1>4

(* What extend_fat_chain leaves there says it of the bytes it was given.    *)
LEMMA LastForIs ==
  ASSUME NEW used \in 1 .. GranuleSize
  PROVE  /\ LastFor(used) \in Byte /\ LastFor(used) >= Last(1) /\ LastFor(used) # Free
         /\ BytesInLastSector(used) \in 0 .. Bps
         /\ UsedInLast(LastFor(used), BytesInLastSector(used)) = used
  <1> DEFINE q == used \div Bps
             r == used % Bps
  <1>1. used \in Nat /\ used <= Bps * SpG /\ Bps \in Nat \ {0} /\ SpG \in 1 .. 62
    BY GranuleSizeIs, FatAssumption DEF GranuleSize
  <1>2. q \in Nat /\ r \in 0 .. (Bps - 1) /\ used = (Bps * q) + r
    BY <1>1
  <1> HIDE DEF q, r
  <1>3. Bps * q \in Int /\ Bps * SpG \in Int /\ Bps * (q + 1) \in Int /\ Bps * (q - 1) \in Int
    BY <1>1, <1>2
  <1>4. CASE r = 0
    <2>1. Bps * q <= Bps * SpG /\ 0 < Bps * q
      BY <1>1, <1>2, <1>3, <1>4
    <2>2. q < SpG + 1 /\ 0 < q
      <3>1. Bps * ((SpG + 1) - 1) + Bps = Bps * (SpG + 1)
        BY <1>1, TimesBps
      <3>2. Bps * SpG < Bps * (SpG + 1)
        BY <3>1, <1>1
      <3>3. Bps * q < Bps * (SpG + 1) /\ Bps * 0 < Bps * q
        BY <2>1, <3>2, <1>1, <1>2, <1>3
      <3> QED
        BY <3>3, <1>1, <1>2, TimesBps
    <2>3. q \in 1 .. SpG
      BY <2>2, <1>1, <1>2
    <2>4. LastFor(used) = Last(q) /\ BytesInLastSector(used) = Bps
      BY <1>4 DEF LastFor, BytesInLastSector, q, r
    <2>5. UsedInLast(Last(q), Bps) = Bps * (q - 1) + Bps
      BY <2>3, <1>1 DEF UsedInLast, Last
    <2>6. Bps * (q - 1) + Bps = Bps * q
      BY <2>3, TimesBps
    <2> QED
      BY <2>3, <2>4, <2>5, <2>6, <1>1, <1>2, <1>3, <1>4, Bytes DEF Last, Free
  <1>5. CASE r # 0
    <2>1. Bps * q < Bps * SpG
      BY <1>1, <1>2, <1>3, <1>5
    <2>2. q < SpG
      BY <2>1, <1>1, <1>2, TimesBps
    <2>3. q + 1 \in 1 .. SpG
      BY <2>2, <1>1, <1>2
    <2>4. LastFor(used) = Last(q + 1) /\ BytesInLastSector(used) = r
      BY <1>5 DEF LastFor, BytesInLastSector, q, r
    <2>5. UsedInLast(Last(q + 1), r) = Bps * q + r
      BY <2>3, <1>1, <1>2 DEF UsedInLast, Last
    <2> QED
      BY <2>3, <2>4, <2>5, <1>1, <1>2, Bytes DEF Last, Free
  <1> QED
    BY <1>4, <1>5

(* A file that uses more of its last granule has no lower mark there.       *)
LEMMA MarkGrows ==
  ASSUME NEW v \in Byte, v >= Last(1), NEW last \in 0 .. Bps,
         NEW used \in 1 .. GranuleSize, UsedInLast(v, last) < used
  PROVE  v <= LastFor(used)
  <1> DEFINE q == used \div Bps
             r == used % Bps
             a == v - Last(1)
  <1>1. used \in Nat /\ Bps \in Nat \ {0}
    BY GranuleSizeIs, FatAssumption
  <1>2. q \in Nat /\ r \in 0 .. (Bps - 1) /\ used = (Bps * q) + r
    BY <1>1
  <1>3. a \in Int /\ v = 193 + a /\ v \in Int
    BY Bytes DEF Last
  <1>4. LastFor(used) = IF r = 0 THEN 192 + q ELSE 193 + q
    BY <1>2 DEF LastFor, Last
  <1>5. Bps * a + last < used /\ last >= 0
    BY <1>1 DEF UsedInLast
  <1> HIDE DEF q, r, a
  <1>6. Bps * a \in Int /\ Bps * q \in Int /\ Bps * (q + 1) \in Int
    BY <1>1, <1>2, <1>3
  <1>7. CASE r = 0
    <2>1. Bps * a < Bps * q
      BY <1>1, <1>2, <1>5, <1>6, <1>7
    <2>2. a < q
      BY <2>1, <1>2, <1>3, TimesBps
    <2> QED
      BY <2>2, <1>2, <1>3, <1>4, <1>7
  <1>8. CASE r # 0
    <2>1. Bps * q + Bps = Bps * (q + 1)
      BY <1>1, <1>2
    <2>2. Bps * a < Bps * (q + 1)
      BY <2>1, <1>1, <1>2, <1>5, <1>6
    <2>3. a < q + 1
      BY <2>2, <1>2, <1>3, TimesBps
    <2> QED
      BY <2>3, <1>2, <1>3, <1>4, <1>8
  <1> QED
    BY <1>7, <1>8

(* The size of a file is that of its granules but the last one, and of no   *)
(* more than that one.                                                      *)
LEMMA FileSizeIs ==
  ASSUME NEW f \in Fat, NEW e, e.first \in Granule, e.last \in 0 .. Bps,
         ~ Endless(f, e.first), f[LastOf(f, e.first)] # Free
  PROVE  /\ EndOf(f, e.first) \in Nat /\ SizeBefore(f, e.first) \in Nat
         /\ FileSize(f, e) \in Nat
         /\ SizeBefore(f, e.first) <= FileSize(f, e)
         /\ FileSize(f, e) <= SizeBefore(f, e.first) + GranuleSize
         /\ f[LastOf(f, e.first)] >= Last(1) =>
              FileSize(f, e) =
                SizeBefore(f, e.first) + UsedInLast(f[LastOf(f, e.first)], e.last)
  <1> DEFINE g == e.first
             v == f[LastOf(f, g)]
  <1>1. EndOf(f, g) \in Nat /\ LastOf(f, g) \in Granule /\ v \in Byte /\ v >= 192
    BY ChainShape, ChainType DEF Shape, Fat, Endless, EndsAt
  <1>2. SizeBefore(f, g) \in Nat
    <2>1. \A a, b \in Nat : a * b \in Nat
      OBVIOUS
    <2> QED
      BY <2>1, <1>1, GranuleSizeIs DEF SizeBefore
  <1> DEFINE u == IF v = Last(0) THEN e.last ELSE UsedInLast(v, e.last)
  <1>3. FileSize(f, e) = SizeBefore(f, g) + u
    BY DEF FileSize
  <1>4. u \in 0 .. GranuleSize
    <2>1. CASE v = Last(0)
      BY <2>1, GranuleSizeIs, FatAssumption
    <2>2. CASE v # Last(0)
      <3>1. v >= Last(1)
        BY <2>2, <1>1, Bytes DEF Last
      <3> QED
        BY <2>2, <3>1, <1>1, UsedInLastIs
    <2> QED
      BY <2>1, <2>2
  <1>5. v >= Last(1) => u = UsedInLast(v, e.last)
    BY <1>1 DEF Last
  <1> HIDE DEF u, v, g
  <1>6. FileSize(f, e) \in Nat /\ SizeBefore(f, g) <= FileSize(f, e)
        /\ FileSize(f, e) <= SizeBefore(f, g) + GranuleSize
    BY <1>2, <1>3, <1>4, GranuleSizeIs
  <1> QED
    BY <1>1, <1>2, <1>3, <1>5, <1>6 DEF g, v

(* Every position below it is in a granule of the chain. *)
LEMMA PositionIs ==
  ASSUME NEW m \in Nat, NEW p \in Nat, p < GranuleSize * m + GranuleSize
  PROVE  /\ p \div GranuleSize \in 0 .. m /\ p % GranuleSize \in 0 .. (GranuleSize - 1)
         /\ p = GranuleSize * (p \div GranuleSize) + (p % GranuleSize)
  <1> DEFINE G == GranuleSize
             q == p \div G
             r == p % G
  <1>1. G \in Nat \ {0}
    BY GranuleSizeIs
  <1> HIDE DEF G
  <1>2. q \in Nat /\ r \in 0 .. (G - 1) /\ p = (G * q) + r
    BY <1>1
  <1> HIDE DEF q, r
  <1>3. q < m + 1
    <2>1. G * q < (G * m) + G
      BY <1>1, <1>2 DEF G
    <2>2. (G * m) + G = G * (m + 1)
      BY <1>1
    <2>3. \A a, b \in Nat : G * a < G * b => a < b
      BY <1>1
    <2> QED
      BY <2>1, <2>2, <2>3, <1>2
  <1> QED
    BY <1>2, <1>3 DEF G, q, r

LEMMA PositionInChain ==
  ASSUME NEW f \in Fat, NEW e, e.first \in Granule, e.last \in 0 .. Bps,
         ~ Endless(f, e.first), f[LastOf(f, e.first)] # Free,
         NEW p \in 0 .. (FileSize(f, e) - 1)
  PROVE  /\ p \div GranuleSize \in 0 .. EndOf(f, e.first)
         /\ p % GranuleSize \in 0 .. (GranuleSize - 1)
         /\ p = GranuleSize * (p \div GranuleSize) + (p % GranuleSize)
         /\ Walk(f, e.first)[p \div GranuleSize] \in Chain(f, e.first)
  <1> DEFINE m == EndOf(f, e.first)
  <1>1. m \in Nat /\ FileSize(f, e) \in Nat /\ FileSize(f, e) <= GranuleSize * m + GranuleSize
    BY FileSizeIs DEF SizeBefore
  <1>2. p \in Nat /\ p < GranuleSize * m + GranuleSize
    <2>1. GranuleSize * m + GranuleSize \in Int
      BY <1>1, GranuleSizeIs
    <2> QED
      BY <1>1, <2>1
  <1>3. Chain(f, e.first) = { Walk(f, e.first)[k] : k \in 0 .. m }
    BY ChainShape DEF Shape
  <1>4. p \div GranuleSize \in 0 .. m
    BY <1>1, <1>2, PositionIs
  <1> QED
    BY <1>1, <1>2, <1>3, <1>4, PositionIs

(* The size of a file is the same in a FAT with the same bytes in its chain *)
LEMMA SameSize ==
  ASSUME NEW f \in Fat, NEW h \in Fat, NEW d, NEW e, e.first \in Granule,
         ~ Endless(f, e.first), d.first = e.first, d.last = e.last,
         \A c \in Chain(f, e.first) : h[c] = f[c]
  PROVE  FileSize(h, d) = FileSize(f, e)
  <1>1. Chain(h, e.first) = Chain(f, e.first) /\ LastOf(h, e.first) = LastOf(f, e.first)
    BY SameChain
  <1>2. h[LastOf(f, e.first)] = f[LastOf(f, e.first)]
    BY ChainType
  <1> QED
    BY <1>1, <1>2 DEF FileSize, SizeBefore, EndOf

-----------------------------------------------------------------------------
(* Several files in one FAT *)

(* A FAT that has the same bytes along the chains of some files.            *)
LEMMA ChainsAgain ==
  ASSUME NEW S, NEW T \in SUBSET S, NEW f \in Fat, NEW h \in Fat,
         NEW a \in [S -> Granule], NEW b \in [T -> Granule], \A i \in T : b[i] = a[i],
         Chained(f, a), \A i \in T : \A c \in Chain(f, a[i]) : h[c] = f[c]
  PROVE  /\ Chained(h, b)
         /\ \A i \in T : /\ Walk(h, a[i]) = Walk(f, a[i]) /\ Chain(h, a[i]) = Chain(f, a[i])
                         /\ LastOf(h, a[i]) = LastOf(f, a[i])
         /\ \A U \in SUBSET T : Ended(f, a, U) => Ended(h, b, U)
  <1>1. ASSUME NEW i \in T
        PROVE  /\ Walk(h, a[i]) = Walk(f, a[i]) /\ Chain(h, a[i]) = Chain(f, a[i])
               /\ LastOf(h, a[i]) = LastOf(f, a[i]) /\ ~ Endless(h, a[i])
               /\ h[LastOf(f, a[i])] = f[LastOf(f, a[i])]
    <2>1. a[i] \in Granule /\ ~ Endless(f, a[i]) /\ \A c \in Chain(f, a[i]) : h[c] = f[c]
      BY DEF Chained
    <2> QED
      BY <2>1, SameChain, ChainType
  <1>2. ASSUME NEW i \in T
        PROVE  /\ ~ Endless(h, b[i]) /\ \A g \in Chain(h, b[i]) : h[g] # Free
               /\ \A j \in T \ {i} : Chain(h, b[i]) \cap Chain(h, b[j]) = {}
    <2>1. /\ \A g \in Chain(f, a[i]) : f[g] # Free
          /\ \A j \in T \ {i} : Chain(f, a[i]) \cap Chain(f, a[j]) = {}
      BY DEF Chained
    <2> QED
      BY <1>1, <2>1
  <1>3. Chained(h, b)
    BY <1>2 DEF Chained
  <1>4. ASSUME NEW U \in SUBSET T, Ended(f, a, U) PROVE Ended(h, b, U)
    BY <1>1, <1>4 DEF Ended
  <1> QED
    BY <1>1, <1>3, <1>4

(* A new file, of one granule that was free. *)
LEMMA ChainsWithNew ==
  ASSUME NEW S, NEW x, x \notin S, NEW f \in Fat, NEW h \in Fat, NEW g \in Granule,
         f[g] = Free, h[g] = Last(1), \A c \in Granule \ {g} : h[c] = f[c],
         NEW a \in [S -> Granule], NEW b \in [S \cup {x} -> Granule],
         b[x] = g, \A i \in S : b[i] = a[i], Chained(f, a)
  PROVE  /\ Chained(h, b) /\ Chain(h, g) = {g}
         /\ Ended(f, a, S) => Ended(h, b, S \cup {x})
         /\ Used(f, a) => Used(h, b)
  <1>1. ~ Endless(h, g) /\ Chain(h, g) = {g} /\ LastOf(h, g) = g
    BY AloneShape DEF Last
  <1>2. ASSUME NEW i \in S
        PROVE  /\ Chain(h, a[i]) = Chain(f, a[i]) /\ LastOf(h, a[i]) = LastOf(f, a[i])
               /\ ~ Endless(h, a[i]) /\ g \notin Chain(f, a[i])
               /\ h[LastOf(f, a[i])] = f[LastOf(f, a[i])]
               /\ \A c \in Chain(f, a[i]) : h[c] = f[c] /\ f[c] # Free
    <2>1. a[i] \in Granule /\ ~ Endless(f, a[i]) /\ \A c \in Chain(f, a[i]) : f[c] # Free
      BY DEF Chained
    <2>2. g \notin Chain(f, a[i]) /\ \A c \in Chain(f, a[i]) : h[c] = f[c]
      BY <2>1, ChainType
    <2> QED
      BY <2>1, <2>2, SameChain, ChainType
  <1>3. Last(1) # Free
    BY FatAssumption DEF Last, Free
  <1>4. ASSUME NEW i \in S \cup {x}
        PROVE  /\ ~ Endless(h, b[i]) /\ \A c \in Chain(h, b[i]) : h[c] # Free
               /\ \A j \in (S \cup {x}) \ {i} : Chain(h, b[i]) \cap Chain(h, b[j]) = {}
    <2>1. CASE i = x
      BY <2>1, <1>1, <1>2, <1>3
    <2>2. CASE i \in S
      <3>1. ~ Endless(h, b[i]) /\ \A c \in Chain(h, b[i]) : h[c] # Free
        BY <2>2, <1>2
      <3>2. ASSUME NEW j \in (S \cup {x}) \ {i} PROVE Chain(h, b[i]) \cap Chain(h, b[j]) = {}
        <4>1. CASE j = x
          BY <4>1, <2>2, <1>1, <1>2
        <4>2. CASE j \in S
          BY <4>2, <2>2, <1>2 DEF Chained
        <4> QED
          BY <4>1, <4>2
      <3> QED
        BY <3>1, <3>2
    <2> QED
      BY <2>1, <2>2
  <1>5. Chained(h, b)
    BY <1>4 DEF Chained
  <1>6. ASSUME Ended(f, a, S) PROVE Ended(h, b, S \cup {x})
    BY <1>1, <1>2, <1>6 DEF Ended, Last
  <1>7. ASSUME Used(f, a) PROVE Used(h, b)
    <2> SUFFICES ASSUME NEW c \in Granule, h[c] # Free
                 PROVE  \E i \in S \cup {x} : c \in Chain(h, b[i])
      BY DEF Used
    <2>1. CASE c = g
      BY <2>1, <1>1
    <2>2. CASE c # g
      <3>1. PICK i \in S : c \in Chain(f, a[i])
        BY <2>2, <1>7 DEF Used
      <3> QED
        BY <3>1, <1>2
    <2> QED
      BY <2>1, <2>2
  <1> QED
    BY <1>1, <1>5, <1>6, <1>7

(* A file that is one granule longer. *)
LEMMA ChainsWithMore ==
  ASSUME NEW S, NEW o \in S, NEW f \in Fat, NEW h \in Fat, NEW a \in [S -> Granule],
         Chained(f, a), NEW x \in Granule, f[x] = Free,
         h[LastOf(f, a[o])] = x, h[x] = Last(0),
         \A c \in Granule \ {LastOf(f, a[o]), x} : h[c] = f[c]
  PROVE  /\ Chained(h, a)
         /\ Ended(f, a, S \ {o}) => Ended(h, a, S \ {o})
         /\ Used(f, a) => Used(h, a)
  <1> DEFINE l == LastOf(f, a[o])
             C == Chain(f, a[o])
  <1>1. a[o] \in Granule /\ ~ Endless(f, a[o]) /\ \A c \in C : f[c] # Free
    BY DEF Chained
  <1>2. l \in C /\ l \in Granule /\ x \notin C /\ l # x
    BY <1>1, ChainType
  <1>3. ~ Endless(h, a[o]) /\ Chain(h, a[o]) = C \cup {x}
    BY <1>1, <1>2, AppendedShape
  <1>4. ASSUME NEW i \in S \ {o}
        PROVE  /\ Chain(h, a[i]) = Chain(f, a[i]) /\ LastOf(h, a[i]) = LastOf(f, a[i])
               /\ ~ Endless(h, a[i]) /\ x \notin Chain(f, a[i]) /\ C \cap Chain(f, a[i]) = {}
               /\ h[LastOf(f, a[i])] = f[LastOf(f, a[i])]
               /\ \A c \in Chain(f, a[i]) : h[c] = f[c] /\ f[c] # Free
    <2>1. a[i] \in Granule /\ ~ Endless(f, a[i]) /\ \A c \in Chain(f, a[i]) : f[c] # Free
      BY DEF Chained
    <2>2. C \cap Chain(f, a[i]) = {} /\ Chain(f, a[i]) \subseteq Granule
      BY <2>1, ChainType DEF Chained
    <2>3. x \notin Chain(f, a[i]) /\ \A c \in Chain(f, a[i]) : h[c] = f[c]
      BY <2>1, <2>2, <1>2
    <2> QED
      BY <2>1, <2>2, <2>3, SameChain, ChainType
  <1>5. \A c \in C \cup {x} : h[c] # Free
    <2>1. C \subseteq Granule
      BY <1>1, ChainType
    <2>2. x # Free /\ Last(0) # Free
      BY Bytes DEF Last, Free
    <2> QED
      BY <2>1, <2>2, <1>1
  <1> HIDE DEF C, l
  <1>6. ASSUME NEW i \in S
        PROVE  /\ ~ Endless(h, a[i]) /\ \A c \in Chain(h, a[i]) : h[c] # Free
               /\ \A j \in S \ {i} : Chain(h, a[i]) \cap Chain(h, a[j]) = {}
    <2>1. CASE i = o
      BY <2>1, <1>3, <1>4, <1>5
    <2>2. CASE i # o
      <3>1. ~ Endless(h, a[i]) /\ \A c \in Chain(h, a[i]) : h[c] # Free
        BY <2>2, <1>4
      <3>2. ASSUME NEW j \in S \ {i} PROVE Chain(h, a[i]) \cap Chain(h, a[j]) = {}
        <4>1. CASE j = o
          BY <4>1, <2>2, <1>3, <1>4
        <4>2. CASE j # o
          BY <4>2, <2>2, <1>4 DEF Chained
        <4> QED
          BY <4>1, <4>2
      <3> QED
        BY <3>1, <3>2
    <2> QED
      BY <2>1, <2>2
  <1>7. Chained(h, a)
    BY <1>6 DEF Chained
  <1>8. ASSUME Ended(f, a, S \ {o}) PROVE Ended(h, a, S \ {o})
    BY <1>4, <1>8 DEF Ended
  <1>9. ASSUME Used(f, a) PROVE Used(h, a)
    <2> SUFFICES ASSUME NEW c \in Granule, h[c] # Free
                 PROVE  \E i \in S : c \in Chain(h, a[i])
      BY DEF Used
    <2>1. CASE c = x \/ c \in C
      BY <2>1, <1>3
    <2>2. CASE c # x /\ c \notin C
      <3>1. f[c] # Free
        BY <2>2, <1>2 DEF l
      <3>2. PICK i \in S : c \in Chain(f, a[i])
        BY <3>1, <1>9 DEF Used
      <3> QED
        BY <3>2, <2>2, <1>4 DEF C
    <2> QED
      BY <2>1, <2>2
  <1> QED
    BY <1>7, <1>8, <1>9

(* A file whose last granule has another mark. *)
LEMMA ChainsWithMark ==
  ASSUME NEW S, NEW o \in S, NEW f \in Fat, NEW h \in Fat, NEW a \in [S -> Granule],
         Chained(f, a), h[LastOf(f, a[o])] >= Last(1), h[LastOf(f, a[o])] # Free,
         \A c \in Granule \ {LastOf(f, a[o])} : h[c] = f[c]
  PROVE  /\ Chained(h, a)
         /\ Ended(f, a, S \ {o}) => Ended(h, a, S)
         /\ Used(f, a) => Used(h, a)
  <1> DEFINE l == LastOf(f, a[o])
             C == Chain(f, a[o])
  <1>1. a[o] \in Granule /\ ~ Endless(f, a[o]) /\ \A c \in C : f[c] # Free
    BY DEF Chained
  <1>2. l \in C /\ l \in Granule /\ C \subseteq Granule
    BY <1>1, ChainType
  <1>3. ~ Endless(h, a[o]) /\ Chain(h, a[o]) = C /\ LastOf(h, a[o]) = l
    <2>0. h[l] \in Byte
      BY <1>2 DEF Fat
    <2>1. h[l] >= 192
      BY <2>0, Bytes DEF Last
    <2> QED
      BY <1>1, <2>1, MarkedShape
  <1>4. ASSUME NEW i \in S \ {o}
        PROVE  /\ Chain(h, a[i]) = Chain(f, a[i]) /\ LastOf(h, a[i]) = LastOf(f, a[i])
               /\ ~ Endless(h, a[i]) /\ C \cap Chain(f, a[i]) = {}
               /\ h[LastOf(f, a[i])] = f[LastOf(f, a[i])]
               /\ \A c \in Chain(f, a[i]) : h[c] = f[c] /\ f[c] # Free
    <2>1. a[i] \in Granule /\ ~ Endless(f, a[i]) /\ \A c \in Chain(f, a[i]) : f[c] # Free
      BY DEF Chained
    <2>2. C \cap Chain(f, a[i]) = {} /\ Chain(f, a[i]) \subseteq Granule
      BY <2>1, ChainType DEF Chained
    <2>3. \A c \in Chain(f, a[i]) : h[c] = f[c]
      BY <2>1, <2>2, <1>2
    <2> QED
      BY <2>1, <2>2, <2>3, SameChain, ChainType
  <1>5. \A c \in C : h[c] # Free
    BY <1>1, <1>2
  <1>6. h[l] >= Last(1)
    OBVIOUS
  <1> HIDE DEF C, l
  <1>7. ASSUME NEW i \in S
        PROVE  /\ ~ Endless(h, a[i]) /\ \A c \in Chain(h, a[i]) : h[c] # Free
               /\ \A j \in S \ {i} : Chain(h, a[i]) \cap Chain(h, a[j]) = {}
    <2>1. CASE i = o
      BY <2>1, <1>3, <1>4, <1>5
    <2>2. CASE i # o
      <3>1. ~ Endless(h, a[i]) /\ \A c \in Chain(h, a[i]) : h[c] # Free
        BY <2>2, <1>4
      <3>2. ASSUME NEW j \in S \ {i} PROVE Chain(h, a[i]) \cap Chain(h, a[j]) = {}
        <4>1. CASE j = o
          BY <4>1, <2>2, <1>3, <1>4
        <4>2. CASE j # o
          BY <4>2, <2>2, <1>4 DEF Chained
        <4> QED
          BY <4>1, <4>2
      <3> QED
        BY <3>1, <3>2
    <2> QED
      BY <2>1, <2>2
  <1>8. Chained(h, a)
    BY <1>7 DEF Chained
  <1>9. ASSUME Ended(f, a, S \ {o}) PROVE Ended(h, a, S)
    BY <1>3, <1>4, <1>6, <1>9 DEF Ended
  <1>10. ASSUME Used(f, a) PROVE Used(h, a)
    <2> SUFFICES ASSUME NEW c \in Granule, h[c] # Free
                 PROVE  \E i \in S : c \in Chain(h, a[i])
      BY DEF Used
    <2>1. CASE c \in C
      BY <2>1, <1>3
    <2>2. CASE c \notin C
      <3>1. f[c] # Free
        BY <2>2, <1>2 DEF l
      <3>2. PICK i \in S : c \in Chain(f, a[i])
        BY <3>1, <1>10 DEF Used
      <3> QED
        BY <3>2, <2>2, <1>4 DEF C
    <2> QED
      BY <2>1, <2>2
  <1> QED
    BY <1>8, <1>9, <1>10

(* A file less, whose granules are free again. *)
LEMMA ChainsWithout ==
  ASSUME NEW S, NEW o \in S, NEW f \in Fat, NEW h \in Fat, NEW a \in [S -> Granule],
         NEW b \in [S \ {o} -> Granule], \A i \in S \ {o} : b[i] = a[i],
         Chained(f, a), \A c \in Granule : h[c] = IF c \in Chain(f, a[o]) THEN Free ELSE f[c]
  PROVE  /\ Chained(h, b)
         /\ Ended(f, a, S) => Ended(h, b, S \ {o})
         /\ Used(f, a) => Used(h, b)
  <1>1. ASSUME NEW i \in S \ {o}, NEW c \in Chain(f, a[i]) PROVE h[c] = f[c]
    <2>1. a[i] \in Granule /\ Chain(f, a[i]) \cap Chain(f, a[o]) = {}
      BY DEF Chained
    <2> QED
      BY <2>1, ChainType
  <1>2. /\ Chained(h, b)
        /\ \A i \in S \ {o} : Chain(h, a[i]) = Chain(f, a[i])
        /\ Ended(f, a, S \ {o}) => Ended(h, b, S \ {o})
    <2>1. S \ {o} \in SUBSET S /\ S \ {o} \in SUBSET (S \ {o})
      OBVIOUS
    <2> QED
      BY <1>1, <2>1, ChainsAgain
  <1>3. Ended(f, a, S) => Ended(f, a, S \ {o})
    BY DEF Ended
  <1>4. ASSUME Used(f, a) PROVE Used(h, b)
    <2> SUFFICES ASSUME NEW c \in Granule, h[c] # Free
                 PROVE  \E i \in S \ {o} : c \in Chain(h, b[i])
      BY DEF Used
    <2>1. f[c] # Free /\ c \notin Chain(f, a[o])
      OBVIOUS
    <2>2. PICK i \in S : c \in Chain(f, a[i])
      BY <2>1, <1>4 DEF Used
    <2> QED
      BY <2>1, <2>2, <1>2
  <1> QED
    BY <1>2, <1>3, <1>4
-----------------------------------------------------------------------------
(* The bytes of a file *)

(* A file whose granules have the same data, and whose chain and entry say  *)
(* the same, holds what it held.                                            *)
LEMMA WholeAgain ==
  ASSUME NEW f \in Fat, NEW h \in Fat, NEW d, NEW y, NEW e, NEW x,
         e.first \in Granule, e.last \in 0 .. Bps, x.first = e.first, x.last = e.last,
         ~ Endless(f, e.first), f[LastOf(f, e.first)] # Free,
         \A c \in Chain(f, e.first) : h[c] = f[c] /\ y[c] = d[c],
         IsWhole(d, f, e)
  PROVE  IsWhole(y, h, x)
  <1>1. Walk(h, x.first) = Walk(f, e.first) /\ FileSize(h, x) = FileSize(f, e)
    BY SameChain, SameSize
  <1>2. ASSUME NEW p \in 0 .. (FileSize(f, e) - 1) PROVE IsRight(y, h, x.first, p)
    <2>1. Walk(f, e.first)[p \div GranuleSize] \in Chain(f, e.first)
      BY PositionInChain
    <2>2. IsRight(d, f, e.first, p)
      BY DEF IsWhole
    <2> QED
      BY <2>1, <2>2, <1>1 DEF IsRight
  <1> QED
    BY <1>1, <1>2 DEF IsWhole

(* A new file has no bytes. *)
LEMMA NewIsWhole ==
  ASSUME NEW f \in Fat, NEW d, NEW e, e.first \in Granule, e.last = 0,
         f[e.first] = Last(1)
  PROVE  FileSize(f, e) = 0 /\ IsWhole(d, f, e)
  <1>1. LastOf(f, e.first) = e.first /\ EndOf(f, e.first) = 0
    BY AloneShape DEF Last
  <1>2. FileSize(f, e) = 0
    BY <1>1, FatAssumption, GranuleSizeIs DEF FileSize, SizeBefore, UsedInLast, Last
  <1> QED
    BY <1>2 DEF IsWhole

(* A position, and the next n, that are in one granule. *)
LEMMA SameGranule ==
  ASSUME NEW p \in Nat, NEW r \in Nat, p <= r,
         (p % GranuleSize) + (r - p) < GranuleSize
  PROVE  /\ r \div GranuleSize = p \div GranuleSize
         /\ r % GranuleSize = (p % GranuleSize) + (r - p)
  <1> DEFINE G == GranuleSize
             j == p \div G
             o == p % G
             q == r \div G
             t == r % G
  <1>1. G \in Nat \ {0}
    BY GranuleSizeIs
  <1> HIDE DEF G
  <1>2. /\ j \in Nat /\ o \in 0 .. (G - 1) /\ p = (G * j) + o
        /\ q \in Nat /\ t \in 0 .. (G - 1) /\ r = (G * q) + t
    BY <1>1
  <1>3. o + (r - p) < G
    BY DEF G
  <1> HIDE DEF j, o, q, t
  <1> DEFINE z == o + (r - p)
  <1>4. z \in 0 .. (G - 1) /\ (G * q) + t = (G * j) + z
    BY <1>1, <1>2, <1>3
  <1> HIDE DEF z
  <1>5. \A a, b \in Nat : a < b => (G * a) + G <= G * b
    BY <1>1
  <1>6. G * q \in Int /\ G * j \in Int
    BY <1>1, <1>2
  <1>7. q = j
    <2>1. CASE q < j
      BY <2>1, <1>1, <1>2, <1>4, <1>5, <1>6
    <2>2. CASE j < q
      BY <2>2, <1>1, <1>2, <1>4, <1>5, <1>6
    <2> QED
      BY <2>1, <2>2, <1>2
  <1>8. t = z
    BY <1>1, <1>2, <1>4, <1>6, <1>7
  <1> QED
    BY <1>7, <1>8 DEF j, o, q, t, z, G

(* Data d becomes data y: n bytes from position p on are written into        *)
(* granule c.                                                               *)
Puts(d, y, c, p, n) ==
  /\ \A b \in Granule \ {c} : y[b] = d[b]
  /\ \A o \in Offset :
       y[c][o] = IF o - (p % GranuleSize) \in 0 .. (n - 1)
                   THEN p - (p % GranuleSize) + o ELSE d[c][o]

(* Writing n bytes from position p on into their granule makes those right  *)
(* and leaves right what was.                                               *)
LEMMA Filling ==
  ASSUME NEW f \in Fat, NEW g \in Granule, ~ Endless(f, g), NEW d, NEW y, NEW n \in Nat,
         NEW p \in Nat, p \div GranuleSize \in 0 .. EndOf(f, g),
         Puts(d, y, Walk(f, g)[p \div GranuleSize], p, n),
         NEW r \in Nat, r \div GranuleSize \in 0 .. EndOf(f, g)
  PROVE  /\ IsRight(d, f, g, r) => IsRight(y, f, g, r)
         /\ p <= r /\ r < p + n /\ (p % GranuleSize) + n <= GranuleSize => IsRight(y, f, g, r)
  <1> DEFINE G == GranuleSize
             j == p \div G
             o == p % G
             q == r \div G
             t == r % G
             w == Walk(f, g)
  <1>1. G \in Nat \ {0}
    BY GranuleSizeIs
  <1> HIDE DEF G
  <1>2. /\ j \in Nat /\ o \in 0 .. (G - 1) /\ p = (G * j) + o
        /\ q \in Nat /\ t \in 0 .. (G - 1) /\ r = (G * q) + t
    BY <1>1
  <1>3. w[j] \in Granule /\ w[q] \in Granule
    BY <1>2, WalkType
  <1>4. w[q] = w[j] => q = j
    BY ChainShape DEF Shape, G
  <1>5. t \in Offset
    BY <1>2 DEF Offset, G
  <1>6. /\ \A c \in Granule \ {w[j]} : y[c] = d[c]
        /\ y[w[j]][t] = IF t - o \in 0 .. (n - 1) THEN p - o + t ELSE d[w[j]][t]
    BY <1>5 DEF Puts, G
  <1>7. IsRight(y, f, g, r) <=> y[w[q]][t] = r
    BY DEF IsRight, G
  <1>8. IsRight(d, f, g, r) <=> d[w[q]][t] = r
    BY DEF IsRight, G
  <1>9. p <= r /\ r < p + n /\ o + n <= G => q = j /\ t = o + (r - p)
    <2> SUFFICES ASSUME p <= r, r < p + n, o + n <= G PROVE q = j /\ t = o + (r - p)
      OBVIOUS
    <2>1. o + (r - p) < G
      BY <1>1, <1>2
    <2> QED
      BY <2>1, SameGranule DEF G
  <1>10. o + n <= G <=> (p % GranuleSize) + n <= GranuleSize
    BY DEF G
  <1> HIDE DEF j, o, q, t, w
  <1>11. G * j \in Int
    BY <1>1, <1>2
  <1>12. ASSUME d[w[q]][t] = r PROVE y[w[q]][t] = r
    <2>1. CASE w[q] = w[j]
      <3>1. q = j /\ p - o + t = r
        BY <2>1, <1>1, <1>2, <1>4, <1>11
      <3> QED
        BY <2>1, <3>1, <1>6, <1>12
    <2>2. CASE w[q] # w[j]
      BY <2>2, <1>3, <1>6, <1>12
    <2> QED
      BY <2>1, <2>2
  <1>13. ASSUME p <= r, r < p + n, o + n <= G PROVE y[w[q]][t] = r
    <2>1. q = j /\ t = o + (r - p)
      BY <1>9, <1>13
    <2>2. t - o \in 0 .. (n - 1) /\ p - o + t = r
      BY <2>1, <1>2, <1>11, <1>13
    <2> QED
      BY <2>1, <2>2, <1>6
  <1> QED
    BY <1>7, <1>8, <1>10, <1>12, <1>13
-----------------------------------------------------------------------------
(* Types *)

LEMMA TypesAre ==
  Types <=>
    /\ fat \in Fat /\ dir \in [Slot -> Entry] /\ s \in PathState
    /\ data \in [Granule -> [Offset -> Forgotten .. (MaxSize - 1)]]
    /\ held \in 0 .. Handles /\ torn \subseteq Slot
    /\ lost \in {"nothing", "granules", "files"}
  BY DEF Types, TypeOK, PathState, Fat

LEMMA TypesThen ==
  Types' <=>
    /\ fat' \in Fat /\ dir' \in [Slot -> Entry] /\ s' \in PathState
    /\ data' \in [Granule -> [Offset -> Forgotten .. (MaxSize - 1)]]
    /\ held' \in 0 .. Handles /\ torn' \subseteq Slot
    /\ lost' \in {"nothing", "granules", "files"}
  BY DEF Types, TypeOK, PathState, Fat

LEMMA Constant ==
  /\ 0 \in Granule /\ 1 \in Slot /\ NoFat \in Fat /\ NoEntry \in Entry
  /\ 0 \in 0 .. MaxSize /\ Idle \in PathState
  <1>1. 0 \in Granule /\ 1 \in Slot /\ 0 \in 0 .. MaxSize
    BY FatAssumption, DecbAssumption DEF Granule, Slot
  <1>2. NoFat \in Fat
    BY Bytes DEF NoFat, Fat
  <1>3. NoEntry \in Entry
    BY <1>1, FatAssumption DEF NoEntry, Entry
  <1> QED
    BY <1>1, <1>2, <1>3 DEF Idle, PathState, Codes, Fat

(* A path just opened is one. *)
LEMMA OpenedIsPath ==
  ASSUME NEW e \in Entry, NEW i \in Slot
  PROVE  [Idle EXCEPT !.pc = "open", !.job = "file", !.entry = e, !.slot = i] \in PathState
  BY Constant DEF PathState

LEMMA PathTypes ==
  ASSUME Types
  PROVE  /\ fat \in Fat /\ s.fat \in Fat /\ s.saved \in Fat /\ s.undo \in Fat
         /\ FatNow \in Fat /\ Base \in Fat
         /\ s.entry \in Entry /\ s.slot \in Slot /\ s.cur \in Granule
         /\ s.pos \in 0 .. MaxSize /\ s.goal \in 0 .. MaxSize
         /\ dir \in [Slot -> Entry]
  BY DEF Types, TypeOK, Fat, FatNow, Base

LEMMA EntryType ==
  ASSUME NEW e \in Entry
  PROVE  /\ e.name \in EntryNames \cup {NoName} /\ e.first \in Granule /\ e.last \in 0 .. Bps
         /\ DOMAIN e = {"name", "first", "last"}
  BY DEF Entry

LEMMA StartsType ==
  ASSUME Types
  PROVE  /\ FilesNow \subseteq Slot /\ Starts \in [FilesNow -> Granule]
         /\ \A i \in Slot : EntryNow(i) \in Entry
         /\ \A i \in FilesNow : Starts[i] = EntryNow(i).first
  <1>1. \A i \in Slot : EntryNow(i) \in Entry
    BY PathTypes DEF EntryNow
  <1>2. \A i \in Slot : EntryNow(i).first \in Granule
    BY <1>1, EntryType
  <1> QED
    BY <1>1, <1>2 DEF FilesNow, Starts

LEMMA OwnFile ==
  ASSUME Types, PathEntry, s.job = "file"
  PROVE  /\ s.slot \in FilesNow /\ EntryNow(s.slot) = s.entry
         /\ Starts[s.slot] = s.entry.first /\ s.entry.first \in Granule
         /\ s.entry.last \in 0 .. Bps
  <1>1. s.slot \in Slot /\ s.entry \in Entry /\ s.entry.name # NoName
    BY PathTypes DEF PathEntry
  <1>2. EntryNow(s.slot) = s.entry
    BY DEF EntryNow
  <1>3. s.slot \in FilesNow
    BY <1>1, <1>2 DEF FilesNow
  <1> QED
    BY <1>1, <1>2, <1>3, EntryType, StartsType

LEMMA OwnChain ==
  ASSUME Types, PathEntry, Chains, s.job = "file"
  PROVE  /\ ~ Endless(Base, s.entry.first)
         /\ \A c \in Chain(Base, s.entry.first) : Base[c] # Free
         /\ Base[LastOf(Base, s.entry.first)] # Free
         /\ Base[LastOf(Base, s.entry.first)] >= Last(1)
  <1>1. Starts[s.slot] = s.entry.first /\ s.slot \in FilesNow /\ s.entry.first \in Granule
    BY OwnFile
  <1>2. DOMAIN Starts = FilesNow /\ Base \in Fat
    BY StartsType, PathTypes
  <1>3. Chained(Base, Starts) /\ Ended(Base, Starts, FilesNow)
    BY DEF Chains
  <1>4. LastOf(Base, s.entry.first) \in Chain(Base, s.entry.first)
    BY <1>1, <1>2, ChainType
  <1> QED
    BY <1>1, <1>2, <1>3, <1>4 DEF Chained, Ended

(* A round of the loop of _decb_write stays within its granule and what is  *)
(* to be written, writes something, and goes on at the next one.            *)
LEMMA RoundIs ==
  ASSUME Types, PathEntry, Jobs, Chains, Writing, s.pc = "data"
  PROVE  /\ RoundSize \in Nat \ {0} /\ s.pos + RoundSize <= s.goal
         /\ (s.pos % GranuleSize) + RoundSize <= GranuleSize
         /\ s.pos \div GranuleSize \in 0 .. EndOf(s.fat, s.entry.first)
         /\ s.cur = Walk(s.fat, s.entry.first)[s.pos \div GranuleSize] /\ s.cur \in Granule
         /\ s.pos + RoundSize # s.goal =>
              /\ s.fat[s.cur] = Walk(s.fat, s.entry.first)[(s.pos + RoundSize) \div GranuleSize]
              /\ s.fat[s.cur] \in Granule
  <1> DEFINE f == s.fat
             g == s.entry.first
             G == GranuleSize
             p == s.pos
             j == p \div G
             o == p % G
             m == EndOf(f, g)
             n == RoundSize
             w == Walk(f, g)
             u == UsedInLast(f[LastOf(f, g)], s.entry.last)
  <1>1. s.job = "file" /\ Base = f
    BY DEF Jobs, Base, FatNow
  <1>2. /\ f \in Fat /\ g \in Granule /\ s.entry.last \in 0 .. Bps /\ ~ Endless(f, g)
        /\ f[LastOf(f, g)] # Free /\ f[LastOf(f, g)] >= Last(1)
    BY <1>1, PathTypes, OwnFile, OwnChain
  <1>3. p \in Nat /\ s.goal \in Nat /\ p < s.goal /\ s.goal <= FileSize(f, s.entry)
        /\ s.cur = w[j] /\ G \in Nat \ {0}
    BY PathTypes, GranuleSizeIs, DecbAssumption DEF Writing
  <1>4. FileSize(f, s.entry) = (G * m) + u /\ m \in Nat /\ u \in 0 .. G
    <2>1. LastOf(f, g) \in Granule
      BY <1>2, ChainType
    <2>2. f[LastOf(f, g)] \in Byte
      BY <1>2, <2>1 DEF Fat
    <2> QED
      BY <1>2, <2>2, FileSizeIs, UsedInLastIs DEF SizeBefore
  <1>5. Shape(f, g, m)
    BY <1>2, ChainShape
  <1>6. j \in 0 .. m /\ o \in 0 .. (G - 1) /\ p = (G * j) + o
    <2>1. p \in 0 .. (FileSize(f, s.entry) - 1)
      BY <1>2, <1>3, FileSizeIs
    <2> QED
      BY <1>2, <2>1, PositionInChain
  <1>7. w[j] \in Granule /\ w \in [Nat -> Granule] /\ j \in Nat
    <2>1. w \in [Nat -> Granule]
      BY <1>2, WalkType
    <2>2. j \in Nat
      BY <1>4, <1>6
    <2> QED
      BY <2>1, <2>2
  <1>8. EndsAt(f, s.cur) => j = m /\ w[j] = LastOf(f, g)
    <2>1. (\A k \in 0 .. (m - 1) : ~ EndsAt(f, w[k])) /\ LastOf(f, g) = w[m]
      BY <1>5 DEF Shape
    <2> HIDE DEF j, w, m
    <2>2. ASSUME j # m PROVE j \in 0 .. (m - 1)
      BY <1>4, <1>6, <2>2
    <2> QED
      BY <2>1, <2>2, <1>3
  <1>9. n = LET room == (IF EndsAt(f, s.cur) THEN UsedInLast(f[s.cur], s.entry.last) ELSE G) - o
            IN  IF room < s.goal - p THEN room ELSE s.goal - p
    BY DEF RoundSize
  <1>10. ~ EndsAt(f, s.cur) => f[s.cur] \in Granule /\ f[s.cur] = w[j + 1]
    <2> HIDE DEF j
    <2>1. w[j + 1] \in Granule
      BY <1>7
    <2>2. ~ EndsAt(f, w[j]) => w[j + 1] = f[w[j]]
      BY <1>2, <1>7, WalkType
    <2> QED
      BY <2>1, <2>2, <1>3
  <1> HIDE DEF f, g, G, p, j, o, m, n, w, u
  <1>11. CASE EndsAt(f, s.cur)
    <2>1. n = IF u - o < s.goal - p THEN u - o ELSE s.goal - p
      BY <1>3, <1>8, <1>9, <1>11 DEF u
    <2>2. G * m \in Int /\ p = (G * m) + o /\ s.goal <= (G * m) + u
      BY <1>3, <1>4, <1>6, <1>8, <1>11
    <2>3. n = s.goal - p
      BY <2>1, <2>2, <1>3, <1>4, <1>6
    <2>4. n \in Nat \ {0} /\ p + n = s.goal /\ o + n <= G
      BY <2>2, <2>3, <1>3, <1>4, <1>6
    <2> QED
      BY <2>4, <1>3, <1>6, <1>7 DEF f, g, G, p, j, o, m, n, w
  <1>12. CASE ~ EndsAt(f, s.cur)
    <2>1. n = IF G - o < s.goal - p THEN G - o ELSE s.goal - p
      BY <1>9, <1>12
    <2>2. n \in Nat \ {0} /\ p + n <= s.goal /\ o + n <= G
      BY <2>1, <1>3, <1>6
    <2>3. ASSUME p + n # s.goal PROVE (p + n) \div G = j + 1
      <3>1. n = G - o
        BY <2>1, <2>3, <1>3, <1>6
      <3>2. p + n = G * (j + 1)
        BY <3>1, <1>3, <1>6, <1>7
      <3>3. \A a \in Nat : (G * a) \div G = a
        BY <1>3
      <3> QED
        BY <3>2, <3>3, <1>7
    <2> QED
      BY <2>2, <2>3, <1>3, <1>6, <1>7, <1>10, <1>12 DEF f, g, G, p, j, o, m, n, w
  <1> QED
    BY <1>11, <1>12
(* What the calls are given, and what they find, has its type. *)
LEMMA WithFatType ==
  ASSUME Types, NEW r \in PathState
  PROVE  WithFat(r) \in PathState
  BY PathTypes DEF WithFat, PathState, Fat

LEMMA DoneType ==
  ASSUME NEW e \in Codes
  PROVE  Done(e) \in PathState
  BY Constant DEF Done, PathState

LEMMA AfterKillType ==
  ASSUME Types, NEW e \in Codes
  PROVE  AfterKill(s, e) \in PathState
  <1>1. s.arg \in Args \cup {"none"}
    BY DEF Types, PathState
  <1> QED
    BY <1>1, Constant, DoneType DEF AfterKill, PathState

LEMMA HarmType ==
  ASSUME Types, NEW h \in {"files", "granules"}, Harm(h)
  PROVE  lost' \in {"nothing", "granules", "files"}
  BY DEF Harm, Types, TypeOK

LEMMA NamesAre ==
  /\ \A a \in Args : EntryOf[a] \in EntryNames /\ EntryOf[a] # NoName
  /\ \A a \in Args : Opens[a] \subseteq EntryNames /\ NoName \notin Opens[a]
  BY DecbAssumption

(* The data stay data: what a write puts at a place is below its goal.      *)
LEMMA FilledType ==
  ASSUME Types, PathEntry, Jobs, Chains, Writing, s.pc = "data"
  PROVE  Filled(s.cur, s.pos, RoundSize) \in [Offset -> Forgotten .. (MaxSize - 1)]
  <1> DEFINE p == s.pos
             o == s.pos % GranuleSize
             n == RoundSize
  <1>1. n \in Nat \ {0} /\ p + n <= s.goal /\ s.goal \in 0 .. MaxSize /\ p \in Nat
        /\ s.cur \in Granule
    BY RoundIs, PathTypes
  <1>2. o \in Nat
    BY <1>1, GranuleSizeIs
  <1>3. MaxSize \in Nat /\ Forgotten = -1 /\ Offset \subseteq Nat
    BY DecbAssumption, GranuleSizeIs DEF Forgotten, Offset
  <1>4. data[s.cur] \in [Offset -> Forgotten .. (MaxSize - 1)]
    BY <1>1, TypesAre
  <1> HIDE DEF p, o, n
  <1>5. ASSUME NEW i \in Offset, i - o \in 0 .. (n - 1)
        PROVE  p - o + i \in Forgotten .. (MaxSize - 1)
    BY <1>1, <1>2, <1>3, <1>5
  <1>6. [i \in Offset |-> IF i - o \in 0 .. (n - 1) THEN p - o + i ELSE data[s.cur][i]]
          \in [Offset -> Forgotten .. (MaxSize - 1)]
    BY <1>4, <1>5
  <1> QED
    BY <1>6 DEF Filled, p, o, n

LEMMA ForgottenType == [o \in Offset |-> Forgotten] \in [Offset -> Forgotten .. (MaxSize - 1)]
  BY DecbAssumption DEF Forgotten

(* A step between two calls, or of one that is under way, keeps the types.  *)
LEMMA CallTypes ==
  ASSUME Types, Call
  PROVE  Types'
  <1> USE DEF Codes
  <1>1. /\ fat \in Fat /\ dir \in [Slot -> Entry] /\ s \in PathState
        /\ data \in [Granule -> [Offset -> Forgotten .. (MaxSize - 1)]]
        /\ held \in 0 .. Handles /\ torn \subseteq Slot
        /\ lost \in {"nothing", "granules", "files"}
    BY TypesAre
  <1>2. Handles \in Nat
    BY DecbAssumption
  <1>3. ASSUME NEW a \in Args, Open(a) PROVE Types'
    <2>1. PICK i \in Slot :
            s' = WithFat([Idle EXCEPT !.pc = "open", !.job = "file", !.entry = dir[i], !.slot = i])
      BY <1>3 DEF Open
    <2>2. [Idle EXCEPT !.pc = "open", !.job = "file", !.entry = dir[i], !.slot = i] \in PathState
      <3>1. dir[i] \in Entry /\ Idle \in PathState
        BY <1>1, Constant
      <3> QED
        BY <3>1, OpenedIsPath
    <2> QED
      BY <1>1, <1>3, <2>1, <2>2, WithFatType, TypesThen DEF Open
  <1>4. ASSUME NEW a \in Args, OpenFindsNothing(a) PROVE Types'
    BY <1>1, <1>2, <1>4, DoneType, TypesThen DEF OpenFindsNothing, CanOpen
  <1>5. ASSUME NEW a \in Args, Kill(a) PROVE Types'
    <2>1. s' \in PathState
      BY <1>5, Constant DEF Kill, PathState
    <2> QED
      BY <1>1, <1>5, <2>1, TypesThen DEF Kill
  <1>6. ASSUME NEW a \in Args, NEW r \in BOOLEAN, Create(a, r) PROVE Types'
    <2>1. s' \in PathState
      BY <1>6, Constant DEF Create, PathState
    <2> QED
      BY <1>1, <1>6, <2>1, TypesThen DEF Create
  <1>7. ASSUME NEW a \in Args, NEW b \in Args, Rename(a, b) PROVE Types'
    <2>1. s' \in PathState
      <3>1. CASE Exists(b) \/ ~ Exists(a)
        BY <3>1, <1>7, DoneType DEF Rename
      <3>2. CASE ~ (Exists(b) \/ ~ Exists(a))
        <4>1. PICK i \in Slot :
                s' = [WithFat(Idle) EXCEPT !.pc = "entry", !.job = "rename", !.slot = i,
                                   !.entry = [dir[i] EXCEPT !.name = EntryOf[b]]]
          BY <3>2, <1>7 DEF Rename
        <4>2. [dir[i] EXCEPT !.name = EntryOf[b]] \in Entry
          BY <1>1, NamesAre DEF Entry
        <4>3. WithFat(Idle) \in PathState
          BY Constant, WithFatType
        <4> QED
          BY <4>1, <4>2, <4>3 DEF PathState
      <3> QED
        BY <3>1, <3>2
    <2> QED
      BY <1>1, <1>7, <2>1, TypesThen DEF Rename
  <1>8. CASE OpenFails
    BY <1>1, <1>8, DoneType, TypesThen DEF OpenFails
  <1>9. CASE SetAttributes
    <2>1. s' \in PathState
      BY <1>1, <1>9 DEF SetAttributes, PathState
    <2> QED
      BY <1>1, <1>9, <2>1, TypesThen DEF SetAttributes
  <1>10. CASE Close
    <2>1. s' \in PathState
      BY <1>1, <1>10, Constant DEF Close, PathState
    <2> QED
      BY <1>1, <1>10, <2>1, TypesThen DEF Close
  <1>11. CASE WriteBeyondEnd
    <2>1. s' \in PathState
      BY <1>1, <1>11 DEF WriteBeyondEnd, PathState
    <2> QED
      BY <1>1, <1>11, <2>1, TypesThen DEF WriteBeyondEnd
  <1>12. ASSUME NEW p \in Positions, Seek(p) PROVE Types'
    <2>1. s' \in PathState
      BY <1>1, <1>12, DecbAssumption DEF Seek, PathState
    <2> QED
      BY <1>1, <1>12, <2>1, TypesThen DEF Seek
  <1>13. ASSUME NEW k \in WriteSizes, Write(k) PROVE Types'
    <2>1. s.pos + k \in 0 .. MaxSize
      <3>1. k \in Nat /\ s.pos \in Nat
        BY PathTypes, DecbAssumption
      <3> QED
        BY <1>13, <3>1, DecbAssumption DEF Write
    <2>2. s.fat \in Fat /\ s.entry.first \in Granule
      BY PathTypes, EntryType
    <2>3. LastOf(s.fat, s.entry.first) \in Granule
      BY <2>2, ChainType
    <2>4. GranuleAt(s, s.fat) \in Granule
      <3>1. s.pos \in Nat /\ GranuleSize \in Nat \ {0}
        BY PathTypes, GranuleSizeIs
      <3>2. s.pos \div GranuleSize \in Nat
        BY <3>1
      <3> QED
        BY <2>2, <3>2, WalkType DEF GranuleAt
    <2>5. s' \in PathState
      <3>1. CASE Size < s.pos + k
        BY <3>1, <1>1, <1>13, <2>1, <2>2, <2>3 DEF Write, PathState, Fat
      <3>2. CASE ~ (Size < s.pos + k)
        BY <3>2, <1>1, <1>13, <2>1, <2>4 DEF Write, PathState
      <3> QED
        BY <3>1, <3>2
    <2> QED
      BY <1>1, <1>13, <2>5, TypesThen DEF Write
  <1> QED
    BY <1>3, <1>4, <1>5, <1>6, <1>7, <1>8, <1>9, <1>10, <1>11, <1>12, <1>13 DEF Call
LEMMA ChainStepTypes ==
  ASSUME Types, PathEntry, Jobs, Chains, Writing, Grow \/ GrowFails \/ Grown
  PROVE  Types'
  <1>1. /\ fat \in Fat /\ dir \in [Slot -> Entry] /\ s \in PathState
        /\ data \in [Granule -> [Offset -> Forgotten .. (MaxSize - 1)]]
        /\ held \in 0 .. Handles /\ torn \subseteq Slot
        /\ lost \in {"nothing", "granules", "files"}
    BY TypesAre
  <1>2. s.fat \in Fat /\ s.undo \in Fat /\ s.cur \in Granule /\ s.entry.first \in Granule
    BY PathTypes, EntryType
  <1>3. CASE Grow
    <2>1. PICK g \in Granule :
            s' = [s EXCEPT !.fat = [s.fat EXCEPT ![s.cur] = g, ![g] = Last(0)], !.cur = g]
      BY <1>3 DEF Grow
    <2>2. g \in Byte /\ Last(0) \in Byte
      BY Bytes, FatAssumption DEF Byte
    <2>3. [s.fat EXCEPT ![s.cur] = g, ![g] = Last(0)] \in [Granule -> Byte]
      BY <1>2, <2>2 DEF Fat
    <2>4. s' \in PathState
      BY <1>1, <2>1, <2>3 DEF PathState
    <2> QED
      BY <1>1, <1>3, <2>4, TypesThen DEF Grow
  <1>4. CASE GrowFails
    <2>1. s' \in PathState
      BY <1>1, <1>2, <1>4, Constant DEF GrowFails, PathState, Fat, Codes
    <2> QED
      BY <1>1, <1>4, <2>1, TypesThen DEF GrowFails
  <1>5. CASE Grown
    <2> DEFINE g == s.entry.first
               used == s.goal - SizeBefore(s.fat, g)
               f == [s.fat EXCEPT ![s.cur] = LastFor(used)]
    <2>1. s.goal <= SizeBefore(s.fat, g) + GranuleSize /\ SizeBefore(s.fat, g) < s.goal
          /\ s.cur = LastOf(s.fat, g) /\ s.goal \in Nat
      BY <1>5, PathTypes DEF Grown, Room, Writing
    <2>2. SizeBefore(s.fat, g) \in Int
      <3>1. IsFiniteSet(Chain(s.fat, g))
        BY <1>2, ChainType
      <3>2. Cardinality(Chain(s.fat, g)) \in Nat
        BY <3>1, FS_CardinalityType
      <3>3. EndOf(s.fat, g) \in Int
        BY <3>2 DEF EndOf
      <3> QED
        BY <3>3, GranuleSizeIs DEF SizeBefore
    <2>3. used \in 1 .. GranuleSize
      BY <2>1, <2>2, GranuleSizeIs
    <2>4. LastFor(used) \in Byte /\ BytesInLastSector(used) \in 0 .. Bps
      BY <2>3, LastForIs
    <2>5. f \in Fat
      BY <1>2, <2>4 DEF Fat
    <2>6. GranuleAt(s, f) \in Granule
      <3>1. s.pos \in Nat /\ GranuleSize \in Nat \ {0}
        BY PathTypes, GranuleSizeIs
      <3>2. s.pos \div GranuleSize \in Nat
        BY <3>1
      <3>3. PICK w : w = Walk(f, g) /\ w \in [Nat -> Granule]
        BY <1>2, <2>5, WalkType
      <3>4. w[s.pos \div GranuleSize] \in Granule
        BY <3>2, <3>3
      <3> QED
        BY <3>3, <3>4 DEF GranuleAt
    <2>7. s' = [s EXCEPT !.pc = "data", !.fat = f, !.undo = NoFat,
                         !.entry.last = BytesInLastSector(used), !.cur = GranuleAt(s, f)]
      BY <1>5 DEF Grown
    <2> HIDE DEF f, used
    <2>8. [s.entry EXCEPT !.last = BytesInLastSector(used)] \in Entry
      BY <1>1, <2>4 DEF PathState, Entry
    <2>9. s' \in PathState
      BY <1>1, <2>5, <2>6, <2>7, <2>8, Constant DEF PathState, Fat
    <2> QED
      BY <1>1, <1>5, <2>9, TypesThen DEF Grown
  <1> QED
    BY <1>3, <1>4, <1>5

LEMMA DataStepTypes ==
  ASSUME Types, PathEntry, Jobs, Chains, Writing, PutGranule \/ PutGranuleFails
  PROVE  Types'
  <1> DEFINE D == [Offset -> Forgotten .. (MaxSize - 1)]
  <1>1. /\ fat \in Fat /\ dir \in [Slot -> Entry] /\ s \in PathState
        /\ data \in [Granule -> D]
        /\ held \in 0 .. Handles /\ torn \subseteq Slot
        /\ lost \in {"nothing", "granules", "files"}
    BY TypesAre
  <1>2. s.pc = "data"
    BY DEF PutGranule, PutGranuleFails
  <1>3. Filled(s.cur, s.pos, RoundSize) \in D /\ s.cur \in Granule
    BY <1>2, FilledType, PathTypes
  <1>4. CASE PutGranule
    <2>1. data' \in [Granule -> D]
      BY <1>1, <1>3, <1>4 DEF PutGranule
    <2> DEFINE pos == s.pos + RoundSize
    <2>2. pos \in 0 .. MaxSize /\ (pos # s.goal => s.fat[s.cur] \in Granule)
      <3>1. RoundSize \in Nat /\ pos <= s.goal /\ (pos # s.goal => s.fat[s.cur] \in Granule)
        BY <1>2, RoundIs
      <3>2. s.pos \in Nat /\ s.goal \in 0 .. MaxSize /\ MaxSize \in Nat
        BY PathTypes, DecbAssumption
      <3> QED
        BY <3>1, <3>2
    <2>3. s' = IF pos = s.goal
                 THEN [s EXCEPT !.pc = "entry", !.pos = pos, !.cur = 0, !.goal = 0]
                 ELSE [s EXCEPT !.pos = pos, !.cur = s.fat[s.cur]]
      BY <1>4 DEF PutGranule
    <2> HIDE DEF pos
    <2>4. s' \in PathState
      BY <1>1, <2>2, <2>3, Constant DEF PathState
    <2> QED
      BY <1>1, <1>4, <2>1, <2>4, TypesThen DEF PutGranule
  <1>5. CASE PutGranuleFails
    <2>1. PICK n \in 0 .. (SpG - 1) :
            data' = [data EXCEPT ![s.cur] =
                       [o \in Offset |->
                          IF o < n * Bps THEN Filled(s.cur, s.pos, RoundSize)[o] ELSE data[s.cur][o]]]
      BY <1>5 DEF PutGranuleFails
    <2>2. [o \in Offset |->
             IF o < n * Bps THEN Filled(s.cur, s.pos, RoundSize)[o] ELSE data[s.cur][o]] \in D
      BY <1>1, <1>3
    <2>3. data' \in [Granule -> D]
      BY <1>1, <2>1, <2>2
    <2>4. s' \in PathState
      BY <1>1, <1>5, Constant DEF PutGranuleFails, PathState, Codes
    <2>5. torn' \subseteq Slot
      BY <1>1, <1>5, PathTypes DEF PutGranuleFails
    <2> QED
      BY <1>1, <1>5, <2>3, <2>4, <2>5, TypesThen DEF PutGranuleFails
  <1> QED
    BY <1>4, <1>5

LEMMA DirectoryStepTypes ==
  ASSUME Types, PutEntry \/ PutEntryFails \/ PutNewEntry \/ Erase \/ EraseFails
  PROVE  Types'
  <1> USE DEF Codes
  <1>1. /\ fat \in Fat /\ dir \in [Slot -> Entry] /\ s \in PathState
        /\ data \in [Granule -> [Offset -> Forgotten .. (MaxSize - 1)]]
        /\ held \in 0 .. Handles /\ torn \subseteq Slot
        /\ lost \in {"nothing", "granules", "files"}
    BY TypesAre
  <1>2. s.entry \in Entry /\ s.slot \in Slot
    BY PathTypes
  <1>3. CASE PutEntry
    <2>1. dir' \in [Slot -> Entry]
      BY <1>1, <1>2, <1>3 DEF PutEntry
    <2>2. s' \in PathState
      <3>1. [s EXCEPT !.pc = "open", !.ec = "ok"] \in PathState
        BY <1>1 DEF PathState
      <3> QED
        BY <1>3, <3>1, DoneType DEF PutEntry
    <2> QED
      BY <1>1, <1>3, <2>1, <2>2, TypesThen DEF PutEntry
  <1>4. CASE PutEntryFails
    <2>1. s' \in PathState
      <3>1. [s EXCEPT !.pc = "open", !.ec = "EIO"] \in PathState
        BY <1>1 DEF PathState
      <3> QED
        BY <1>4, <3>1, DoneType DEF PutEntryFails
    <2>2. torn' \subseteq Slot
      BY <1>1, <1>2, <1>4 DEF PutEntryFails
    <2> QED
      BY <1>1, <1>4, <2>1, <2>2, TypesThen DEF PutEntryFails
  <1>5. CASE PutNewEntry
    <2>1. dir' \in [Slot -> Entry] /\ s' \in PathState
      BY <1>1, <1>2, <1>5 DEF PutNewEntry, PathState
    <2> QED
      BY <1>1, <1>5, <2>1, TypesThen DEF PutNewEntry
  <1>6. CASE Erase
    <2> DEFINE S == Chain(s.fat, s.entry.first)
    <2>1. dir' \in [Slot -> Entry] /\ torn' \subseteq Slot
      BY <1>1, <1>6, Constant DEF Erase
    <2>2. Freed(s.fat, S) \in Fat
      BY PathTypes, Bytes DEF Freed, Fat
    <2>3. s' = [s EXCEPT !.pc = "putfat", !.fat = Freed(s.fat, S)]
      BY <1>6 DEF Erase
    <2>4. s' \in PathState
      BY <1>1, <2>2, <2>3 DEF PathState, Fat
    <2>5. data' \in [Granule -> [Offset -> Forgotten .. (MaxSize - 1)]]
      <3>1. data' = [g \in Granule |-> IF g \in S THEN [o \in Offset |-> Forgotten] ELSE data[g]]
        BY <1>6 DEF Erase
      <3> HIDE DEF S
      <3> QED
        BY <1>1, <3>1, ForgottenType
    <2> QED
      BY <1>1, <1>6, <2>1, <2>4, <2>5, TypesThen DEF Erase
  <1>7. CASE EraseFails
    BY <1>1, <1>7, AfterKillType, TypesThen DEF EraseFails
  <1> QED
    BY <1>3, <1>4, <1>5, <1>6, <1>7

LEMMA OtherStepTypes ==
  ASSUME Types, PathEntry, Jobs,
         \/ PutFat \/ PutFatFails \/ CreateFails \/ Replace \/ NewEntry \/ PutNewEntryFails
         \/ KillOpens \/ KillFindsNothing \/ KillFails \/ Crash
  PROVE  Types'
  <1> USE DEF Codes
  <1>1. /\ fat \in Fat /\ dir \in [Slot -> Entry] /\ s \in PathState
        /\ data \in [Granule -> [Offset -> Forgotten .. (MaxSize - 1)]]
        /\ held \in 0 .. Handles /\ torn \subseteq Slot
        /\ lost \in {"nothing", "granules", "files"}
    BY TypesAre
  <1>2. Handles \in Nat
    BY DecbAssumption
  <1>3. CASE PutFat
    BY <1>1, <1>3, PathTypes, AfterKillType, TypesThen DEF PutFat
  <1>4. CASE PutFatFails
    <2>1. lost' \in {"nothing", "granules", "files"}
      BY <1>4, HarmType DEF PutFatFails
    <2> QED
      BY <1>1, <1>4, <2>1, AfterKillType, TypesThen DEF PutFatFails
  <1>5. CASE CreateFails
    <2>1. Refused \in Codes
      BY DEF Refused
    <2> QED
      BY <1>1, <1>5, <2>1, DoneType, TypesThen DEF CreateFails
  <1>6. CASE Replace
    <2>1. s' \in PathState
      BY <1>1, <1>6 DEF Replace, PathState
    <2> QED
      BY <1>1, <1>6, <2>1, TypesThen DEF Replace
  <1>7. CASE NewEntry
    <2>1. PICK g \in Granule, i \in Slot :
            s' = [WithFat(Idle) EXCEPT
                    !.pc = "newentry", !.job = "file", !.fat[g] = Last(1),
                    !.entry = [name |-> EntryOf[s.arg], first |-> g, last |-> 0], !.slot = i]
      BY <1>7 DEF NewEntry
    <2>2. s.arg \in Args
      BY <1>7 DEF NewEntry, Jobs
    <2>3. [name |-> EntryOf[s.arg], first |-> g, last |-> 0] \in Entry
      BY <2>2, NamesAre, FatAssumption DEF Entry
    <2>4. WithFat(Idle) \in PathState
      BY Constant, WithFatType
    <2>5. Last(1) \in Byte
      BY Bytes, FatAssumption
    <2>6. s' \in PathState
      BY <2>1, <2>3, <2>4, <2>5 DEF PathState
    <2> QED
      BY <1>1, <1>7, <2>6, TypesThen DEF NewEntry
  <1>8. CASE PutNewEntryFails
    <2>1. held < Handles
      BY <1>8 DEF PutNewEntryFails, PathEntry
    <2> QED
      BY <1>1, <1>2, <1>8, <2>1, DoneType, TypesThen DEF PutNewEntryFails
  <1>9. CASE KillOpens
    <2>1. PICK i \in Slot : s' = WithFat([s EXCEPT !.pc = "erase", !.entry = dir[i], !.slot = i])
      BY <1>9 DEF KillOpens
    <2>2. [s EXCEPT !.pc = "erase", !.entry = dir[i], !.slot = i] \in PathState
      BY <1>1 DEF PathState
    <2> QED
      BY <1>1, <1>9, <2>1, <2>2, WithFatType, TypesThen DEF KillOpens
  <1>10. CASE KillFindsNothing
    BY <1>1, <1>2, <1>10, AfterKillType, TypesThen DEF KillFindsNothing, CanOpen
  <1>11. CASE KillFails
    BY <1>1, <1>11, AfterKillType, TypesThen DEF KillFails
  <1>12. CASE Crash
    <2>1. lost' \in {"nothing", "granules", "files"}
      BY <1>1, <1>12, HarmType DEF Crash
    <2> QED
      BY <1>1, <1>2, <1>12, <2>1, Constant, TypesThen DEF Crash
  <1> QED
    BY <1>3, <1>4, <1>5, <1>6, <1>7, <1>8, <1>9, <1>10, <1>11, <1>12
-----------------------------------------------------------------------------
(* What each step is for, and the entry it works on *)

LEMMA DoneFields ==
  ASSUME NEW e
  PROVE  Done(e).pc = "idle" /\ Done(e).job = "none"
  BY DEF Done, Idle

LEMMA AfterKillFields ==
  ASSUME NEW e
  PROVE  /\ AfterKill(s, e).pc \in {"idle", "create"}
         /\ s.job = "create" =>
              /\ AfterKill(s, e).pc = "create" /\ AfterKill(s, e).job = "create"
              /\ AfterKill(s, e).arg = s.arg
         /\ s.job # "create" => AfterKill(s, e).pc = "idle" /\ AfterKill(s, e).job = "none"
  BY DEF AfterKill, Done, Idle

(* Between two calls, and where _decb_create and _decb_kill begin, no path  *)
(* is open and there is no entry to speak of.                               *)
AtRest == s.pc \in {"idle", "create", "kill"}

LEMMA RestControl ==
  ASSUME Control, AtRest', Jobs', dir' = dir
  PROVE  Control'
  BY DEF Control, AtRest, Jobs, PathEntry, NamedOnce

(* The steps that leave no path open, or begin a call that has none yet.    *)
Rests ==
  \/ \E a \in Args : OpenFindsNothing(a) \/ Kill(a)
  \/ \E a \in Args, rewrite \in BOOLEAN : Create(a, rewrite)
  \/ \E a, b \in Args : Rename(a, b) /\ (Exists(b) \/ ~ Exists(a))
  \/ OpenFails \/ CreateFails \/ Replace \/ KillFindsNothing \/ KillFails
  \/ EraseFails

LEMMA RestsJobs ==
  ASSUME Jobs, Types, Rests
  PROVE  /\ AtRest' /\ Jobs' /\ s.job \notin {"file", "rename"}
         /\ fat' = fat /\ dir' = dir /\ data' = data /\ torn' = torn /\ lost' = lost
  <1>1. ASSUME NEW a \in Args, OpenFindsNothing(a) \/ Kill(a)
        PROVE  AtRest' /\ Jobs' /\ s.pc = "idle" /\ dir' = dir
    BY <1>1, DoneFields DEF OpenFindsNothing, Kill, AtRest, Jobs, Idle
  <1>2. ASSUME NEW a \in Args, NEW r \in BOOLEAN, Create(a, r)
        PROVE  AtRest' /\ Jobs' /\ s.pc = "idle" /\ dir' = dir
    BY <1>2 DEF Create, AtRest, Jobs, Idle
  <1>3. ASSUME NEW a \in Args, NEW b \in Args, Rename(a, b), Exists(b) \/ ~ Exists(a)
        PROVE  AtRest' /\ Jobs' /\ s.pc = "idle" /\ dir' = dir
    BY <1>3, DoneFields DEF Rename, AtRest, Jobs
  <1>4. ASSUME OpenFails \/ CreateFails
        PROVE  AtRest' /\ Jobs' /\ s.pc \in {"idle", "create"} /\ dir' = dir
    BY <1>4, DoneFields DEF OpenFails, CreateFails, AtRest, Jobs
  <1>5. ASSUME Replace
        PROVE  AtRest' /\ Jobs' /\ s.pc = "create" /\ dir' = dir
    <2>1. s' = [s EXCEPT !.pc = "kill"] /\ s.job = "create" /\ s.arg \in Args /\ s \in PathState
      BY <1>5 DEF Replace, Jobs, Types
    <2>2. s'.pc = "kill" /\ s'.job = "create" /\ s'.arg \in Args
      BY <2>1 DEF PathState
    <2> QED
      BY <1>5, <2>2 DEF Replace, AtRest, Jobs
  <1>6. ASSUME KillFindsNothing \/ KillFails \/ EraseFails
        PROVE  AtRest' /\ Jobs' /\ s.pc \in {"kill", "erase"} /\ dir' = dir
    <2>1. s.job \in {"kill", "create"} /\ s.arg \in Args /\ s.pc \in {"kill", "erase"} /\ dir' = dir
      BY <1>6 DEF KillFindsNothing, KillFails, EraseFails, Jobs
    <2>2. \E e \in Codes : s' = AfterKill(s, e)
      BY <1>6 DEF KillFindsNothing, KillFails, EraseFails, Codes
    <2> QED
      BY <2>1, <2>2, AfterKillFields DEF AtRest, Jobs
  <1>7. AtRest' /\ Jobs' /\ s.pc \in {"idle", "create", "kill", "erase"}
    BY <1>1, <1>2, <1>3, <1>4, <1>5, <1>6 DEF Rests
  <1>8. s.job \notin {"file", "rename"}
    BY <1>7 DEF Jobs
  <1>9. fat' = fat /\ dir' = dir /\ data' = data /\ torn' = torn /\ lost' = lost
    BY DEF Rests, OpenFindsNothing, Kill, Create, Rename, OpenFails, CreateFails, Replace,
           KillFindsNothing, KillFails, EraseFails
  <1> QED
    BY <1>7, <1>8, <1>9

(* The steps that open a path for what is on the disk. *)
LEMMA OpenControl ==
  ASSUME Types, Control, NEW a \in Args, Open(a)
  PROVE  Control'
  <1>1. PICK i \in Slot :
          /\ dir[i].name # NoName
          /\ s' = WithFat([Idle EXCEPT !.pc = "open", !.job = "file", !.entry = dir[i], !.slot = i])
    BY NamesAre DEF Open, Found, IsFirst, Entries
  <1>2. s'.pc = "open" /\ s'.job = "file" /\ s'.entry = dir[i] /\ s'.slot = i /\ dir' = dir
    BY <1>1 DEF Open, WithFat, Idle
  <1> QED
    BY <1>1, <1>2 DEF Control, Jobs, PathEntry, NamedOnce

LEMMA KillOpensControl ==
  ASSUME Types, Control, KillOpens
  PROVE  Control'
  <1>1. s.pc = "kill" /\ s.job \in {"kill", "create"} /\ s.arg \in Args /\ s \in PathState
    BY DEF KillOpens, Control, Jobs, Types
  <1>2. PICK i \in Slot :
          /\ dir[i].name # NoName
          /\ s' = WithFat([s EXCEPT !.pc = "erase", !.entry = dir[i], !.slot = i])
    BY <1>1, NamesAre DEF KillOpens, Found, IsFirst, Entries
  <1>3. /\ s'.pc = "erase" /\ s'.job = s.job /\ s'.arg = s.arg /\ s'.entry = dir[i] /\ s'.slot = i
        /\ dir' = dir
    BY <1>1, <1>2 DEF KillOpens, WithFat, PathState
  <1> QED
    BY <1>1, <1>2, <1>3 DEF Control, Jobs, PathEntry, NamedOnce

LEMMA RenameIs ==
  ASSUME Types, NEW a \in Args, NEW b \in Args, Rename(a, b), ~ (Exists(b) \/ ~ Exists(a))
  PROVE  \E i \in Slot :
           /\ dir[i].name = EntryOf[a] /\ \A j \in Slot : dir[j].name # EntryOf[b]
           /\ s'.pc = "entry" /\ s'.job = "rename" /\ s'.slot = i
           /\ s'.entry = [dir[i] EXCEPT !.name = EntryOf[b]] /\ s'.entry.name = EntryOf[b]
           /\ s'.fat = fat /\ s'.saved = fat
           /\ s.pc = "idle" /\ fat' = fat /\ dir' = dir /\ data' = data /\ torn' = torn
           /\ lost' = lost
  <1>1. PICK i \in Slot :
          /\ dir[i].name = EntryOf[a]
          /\ s' = [WithFat(Idle) EXCEPT !.pc = "entry", !.job = "rename", !.slot = i,
                             !.entry = [dir[i] EXCEPT !.name = EntryOf[b]]]
    BY DEF Rename, IsFirst, Entries
  <1>2. \A j \in Slot : dir[j].name # EntryOf[b]
    BY DEF Exists, Entries
  <1>3. dir[i] \in Entry
    BY PathTypes
  <1>4. [dir[i] EXCEPT !.name = EntryOf[b]].name = EntryOf[b]
    BY <1>3 DEF Entry
  <1> QED
    BY <1>1, <1>2, <1>4 DEF WithFat, Idle, Rename

LEMMA RenameControl ==
  ASSUME Types, Control, NEW a \in Args, NEW b \in Args, Rename(a, b),
         ~ (Exists(b) \/ ~ Exists(a))
  PROVE  Control'
  <1>1. PICK i \in Slot :
           /\ dir[i].name = EntryOf[a] /\ \A j \in Slot : dir[j].name # EntryOf[b]
           /\ s'.pc = "entry" /\ s'.job = "rename" /\ s'.slot = i
           /\ s'.entry = [dir[i] EXCEPT !.name = EntryOf[b]] /\ s'.entry.name = EntryOf[b]
           /\ dir' = dir
    BY RenameIs
  <1>2. EntryOf[a] # NoName /\ EntryOf[b] # NoName
    BY NamesAre
  <1>3. Jobs' /\ NamedOnce'
    BY <1>1 DEF Control, Jobs, NamedOnce
  <1>4. PathEntry'
    BY <1>1, <1>2 DEF PathEntry
  <1> QED
    BY <1>3, <1>4 DEF Control

LEMMA NewEntryIs ==
  ASSUME Types, Jobs, NewEntry
  PROVE  \E g \in Granule, i \in Slot :
           /\ s.pc = "create" /\ s.arg \in Args
           /\ fat[g] = Free /\ dir[i].name = NoName
           /\ \A j \in Slot : dir[j].name # EntryOf[s.arg]
           /\ s'.pc = "newentry" /\ s'.job = "file" /\ s'.slot = i
           /\ s'.fat = [fat EXCEPT ![g] = Last(1)] /\ s'.saved = fat
           /\ s'.entry = [name |-> EntryOf[s.arg], first |-> g, last |-> 0]
           /\ held < Handles
           /\ fat' = fat /\ dir' = dir /\ data' = data /\ torn' = torn /\ lost' = lost
           /\ held' = held
  <1>1. PICK g \in Granule, i \in Slot :
          /\ fat[g] = Free /\ dir[i].name = NoName
          /\ s' = [WithFat(Idle) EXCEPT
                    !.pc = "newentry", !.job = "file", !.fat[g] = Last(1),
                    !.entry = [name |-> EntryOf[s.arg], first |-> g, last |-> 0], !.slot = i]
    BY DEF NewEntry, IsNearestFree, IsFirst, Entries
  <1>2. s.pc = "create" /\ s.arg \in Args
    BY DEF NewEntry, Jobs
  <1>3. \A j \in Slot : dir[j].name # EntryOf[s.arg]
    BY DEF NewEntry, Exists, Entries
  <1>4. held < Handles
    BY DEF NewEntry, Refused, CanOpen
  <1> QED
    BY <1>1, <1>2, <1>3, <1>4 DEF WithFat, Idle, NewEntry

LEMMA NewEntryControl ==
  ASSUME Types, Control, NewEntry
  PROVE  Control'
  <1>1. Jobs
    BY DEF Control
  <1>2. PICK g \in Granule, i \in Slot :
           /\ s.arg \in Args /\ dir[i].name = NoName
           /\ \A j \in Slot : dir[j].name # EntryOf[s.arg]
           /\ s'.pc = "newentry" /\ s'.job = "file" /\ s'.slot = i
           /\ s'.entry = [name |-> EntryOf[s.arg], first |-> g, last |-> 0]
           /\ held < Handles /\ dir' = dir /\ held' = held
    BY <1>1, NewEntryIs
  <1>3. s'.entry.name = EntryOf[s.arg] /\ EntryOf[s.arg] # NoName
    BY <1>2, NamesAre
  <1>4. Jobs' /\ NamedOnce'
    BY <1>2 DEF Control, Jobs, NamedOnce
  <1>5. PathEntry'
    BY <1>2, <1>3 DEF PathEntry
  <1> QED
    BY <1>4, <1>5 DEF Control
(* The steps that an open path takes and that leave the directory alone.    *)
LEMMA FileStepControl ==
  ASSUME Types, Control,
         \/ SetAttributes \/ Close \/ WriteBeyondEnd \/ (\E p \in Positions : Seek(p))
         \/ (\E k \in WriteSizes : Write(k)) \/ Grow \/ GrowFails \/ Grown
         \/ PutGranule \/ PutGranuleFails
  PROVE  Control'
  <1>1. s \in PathState /\ s.slot \in Slot /\ s.entry \in Entry
    BY PathTypes DEF Types
  <1>2. /\ s.job = "file" /\ s.pc \in {"open", "grow", "data"} /\ dir' = dir
        /\ torn \subseteq torn'
        /\ s'.job = s.job /\ s'.slot = s.slot
        /\ s'.pc \in {"open", "entry", "putfat", "grow", "data"}
        /\ s'.entry.name = s.entry.name /\ s'.entry.first = s.entry.first
    <2>1. CASE SetAttributes
      BY <1>1, <2>1 DEF SetAttributes, Control, Jobs, PathState
    <2>2. CASE Close
      BY <1>1, <2>2 DEF Close, Control, Jobs, PathState
    <2>3. CASE WriteBeyondEnd
      BY <1>1, <2>3 DEF WriteBeyondEnd, Control, Jobs, PathState
    <2>4. ASSUME NEW p \in Positions, Seek(p)
          PROVE  /\ s.job = "file" /\ s.pc \in {"open", "grow", "data"} /\ dir' = dir
                 /\ torn \subseteq torn'
                 /\ s'.job = s.job /\ s'.slot = s.slot
                 /\ s'.pc \in {"open", "entry", "putfat", "grow", "data"}
                 /\ s'.entry.name = s.entry.name /\ s'.entry.first = s.entry.first
      BY <1>1, <2>4 DEF Seek, Control, Jobs, PathState
    <2>5. ASSUME NEW k \in WriteSizes, Write(k)
          PROVE  /\ s.job = "file" /\ s.pc \in {"open", "grow", "data"} /\ dir' = dir
                 /\ torn \subseteq torn'
                 /\ s'.job = s.job /\ s'.slot = s.slot
                 /\ s'.pc \in {"open", "entry", "putfat", "grow", "data"}
                 /\ s'.entry.name = s.entry.name /\ s'.entry.first = s.entry.first
      BY <1>1, <2>5 DEF Write, Control, Jobs, PathState
    <2>6. CASE Grow
      BY <1>1, <2>6 DEF Grow, Control, Jobs, PathState
    <2>7. CASE GrowFails
      BY <1>1, <2>7 DEF GrowFails, Control, Jobs, PathState
    <2>8. CASE Grown
      <3>1. [s.entry EXCEPT !.last = BytesInLastSector(s.goal - SizeBefore(s.fat, s.entry.first))]
              .name = s.entry.name
        BY <1>1 DEF Entry
      <3>2. [s.entry EXCEPT !.last = BytesInLastSector(s.goal - SizeBefore(s.fat, s.entry.first))]
              .first = s.entry.first
        BY <1>1 DEF Entry
      <3> QED
        BY <1>1, <2>8, <3>1, <3>2 DEF Grown, Control, Jobs, PathState
    <2>9. CASE PutGranule
      BY <1>1, <2>9 DEF PutGranule, Control, Jobs, PathState
    <2>10. CASE PutGranuleFails
      BY <1>1, <2>10 DEF PutGranuleFails, Control, Jobs, PathState
    <2> QED
      BY <2>1, <2>2, <2>3, <2>4, <2>5, <2>6, <2>7, <2>8, <2>9, <2>10
  <1>3. s'.pc \in {"open", "grow", "putfat"} /\ s'.slot \notin torn' =>
          s.pc \in {"open", "grow"} /\ s'.entry = s.entry
    <2>1. CASE SetAttributes \/ Grown \/ PutGranule
      BY <1>1, <2>1 DEF SetAttributes, Grown, PutGranule, PathState
    <2>2. CASE Close \/ WriteBeyondEnd
      BY <1>1, <2>2 DEF Close, WriteBeyondEnd, PathState
    <2>3. ASSUME NEW p \in Positions, Seek(p) PROVE s.pc = "open" /\ s'.entry = s.entry
      BY <1>1, <2>3 DEF Seek, PathState
    <2>4. ASSUME NEW k \in WriteSizes, Write(k) PROVE s.pc = "open" /\ s'.entry = s.entry
      BY <1>1, <2>4 DEF Write, PathState
    <2>5. CASE Grow \/ GrowFails
      BY <1>1, <2>5 DEF Grow, GrowFails, PathState
    <2>6. CASE PutGranuleFails
      BY <1>2, <2>6 DEF PutGranuleFails
    <2> QED
      BY <2>1, <2>2, <2>3, <2>4, <2>5, <2>6
  <1>4. /\ s.entry.name # NoName /\ dir[s.slot].name = s.entry.name
        /\ dir[s.slot].first = s.entry.first
        /\ s.pc \in {"open", "grow"} /\ s.slot \notin torn => dir[s.slot] = s.entry
    BY <1>2 DEF Control, PathEntry
  <1>5. Jobs'
    BY <1>2 DEF Jobs
  <1>6. NamedOnce'
    BY <1>2 DEF Control, NamedOnce
  <1>7. PathEntry'
    BY <1>2, <1>3, <1>4 DEF PathEntry
  <1> QED
    BY <1>5, <1>6, <1>7 DEF Control

LEMMA DirectoryStepControl ==
  ASSUME Types, Control, PutEntry \/ PutEntryFails \/ PutNewEntry \/ Erase
  PROVE  Control'
  <1>1. /\ s \in PathState /\ s.slot \in Slot /\ dir \in [Slot -> Entry]
        /\ Jobs /\ PathEntry /\ NamedOnce
    BY PathTypes DEF Types, Control
  <1>2. CASE PutEntry /\ s.job = "file"
    <2>1. /\ s.pc = "entry" /\ dir' = [dir EXCEPT ![s.slot] = s.entry]
          /\ s'.pc = "open" /\ s'.job = "file" /\ s'.slot = s.slot /\ s'.entry = s.entry
          /\ torn' = torn
      BY <1>1, <1>2 DEF PutEntry, PathState
    <2>2. s.entry.name # NoName /\ dir[s.slot].name = s.entry.name
      BY <1>1, <1>2, <2>1 DEF PathEntry
    <2>3. NamedOnce' /\ Jobs'
      BY <1>1, <2>1, <2>2 DEF NamedOnce, Jobs
    <2>4. PathEntry'
      BY <1>1, <2>1, <2>2 DEF PathEntry
    <2> QED
      BY <2>3, <2>4 DEF Control
  <1>3. CASE PutEntry /\ s.job = "rename"
    <2>1. /\ dir' = [dir EXCEPT ![s.slot] = s.entry] /\ s' = Done("ok")
      BY <1>3 DEF PutEntry
    <2>2. \A i \in Slot : dir[i].name # s.entry.name
      BY <1>1, <1>3 DEF PathEntry
    <2>3. NamedOnce'
      BY <1>1, <2>1, <2>2 DEF NamedOnce
    <2> QED
      BY <2>1, <2>3, DoneFields DEF Control, Jobs, PathEntry
  <1>4. CASE PutEntryFails /\ s.job = "file"
    <2>1. /\ s.pc = "entry" /\ dir' = dir
          /\ s'.pc = "open" /\ s'.job = "file" /\ s'.slot = s.slot /\ s'.entry = s.entry
          /\ torn' = torn \cup {s.slot}
      BY <1>1, <1>4 DEF PutEntryFails, PathState
    <2> QED
      BY <1>1, <1>4, <2>1 DEF Control, Jobs, PathEntry, NamedOnce
  <1>5. CASE PutEntryFails /\ s.job = "rename"
    <2>1. dir' = dir /\ s' = Done("EIO")
      BY <1>5 DEF PutEntryFails
    <2> QED
      BY <1>1, <2>1, DoneFields DEF Control, Jobs, PathEntry, NamedOnce
  <1>6. CASE PutNewEntry
    <2>1. /\ s.pc = "newentry" /\ s.job = "file" /\ dir' = [dir EXCEPT ![s.slot] = s.entry]
          /\ s'.pc = "open" /\ s'.job = "file" /\ s'.slot = s.slot /\ s'.entry = s.entry
          /\ torn' = torn
      BY <1>1, <1>6 DEF PutNewEntry, PathState, Jobs
    <2>2. s.entry.name # NoName /\ \A i \in Slot : dir[i].name # s.entry.name
      BY <1>1, <2>1 DEF PathEntry
    <2>3. NamedOnce' /\ Jobs'
      BY <1>1, <2>1, <2>2 DEF NamedOnce, Jobs
    <2>4. PathEntry'
      BY <1>1, <2>1, <2>2 DEF PathEntry
    <2> QED
      BY <2>3, <2>4 DEF Control
  <1>7. CASE Erase
    <2>1. /\ dir' = [dir EXCEPT ![s.slot] = NoEntry]
          /\ s'.pc = "putfat" /\ s'.job = s.job /\ s'.arg = s.arg
          /\ s.job \in {"kill", "create"} /\ s.arg \in Args
      BY <1>1, <1>7 DEF Erase, PathState, Jobs
    <2>2. NoEntry.name = NoName
      BY DEF NoEntry
    <2>3. NamedOnce'
      BY <1>1, <2>1, <2>2 DEF NamedOnce
    <2>4. PathEntry' /\ Jobs'
      BY <2>1 DEF PathEntry, Jobs
    <2> QED
      BY <2>3, <2>4 DEF Control
  <1>8. PutEntry \/ PutEntryFails => s.job \in {"file", "rename"}
    BY <1>1 DEF PutEntry, PutEntryFails, Jobs
  <1> QED
    BY <1>2, <1>3, <1>4, <1>5, <1>6, <1>7, <1>8

(* The steps after which a path is closed, or the process gone. *)
Closes == PutFat \/ PutFatFails \/ PutNewEntryFails \/ Crash

LEMMA ClosesJobs ==
  ASSUME Jobs, Closes
  PROVE  AtRest' /\ Jobs' /\ s'.job \notin {"file", "rename"} /\ dir' = dir
  <1>1. CASE PutFat \/ PutFatFails
    <2>1. /\ s.pc = "putfat" /\ dir' = dir /\ \E e \in Codes : s' = AfterKill(s, e)
      BY <1>1 DEF PutFat, PutFatFails, Codes
    <2>2. s.job = "create" => s.arg \in Args
      BY <2>1 DEF Jobs
    <2> QED
      BY <2>1, <2>2, AfterKillFields DEF AtRest, Jobs
  <1>2. CASE PutNewEntryFails
    BY <1>2, DoneFields DEF PutNewEntryFails, AtRest, Jobs
  <1>3. CASE Crash
    BY <1>3 DEF Crash, AtRest, Jobs, Idle
  <1> QED
    BY <1>1, <1>2, <1>3 DEF Closes

LEMMA ControlNext ==
  ASSUME Types, Control, Next
  PROVE  Control'
  <1>1. CASE Rests
    BY <1>1, RestsJobs, RestControl DEF Control
  <1>2. CASE Closes
    BY <1>2, ClosesJobs, RestControl DEF Control
  <1>3. CASE \E a \in Args : Open(a)
    BY <1>3, OpenControl
  <1>4. CASE \E a, b \in Args : Rename(a, b)
    BY <1>1, <1>4, RenameControl DEF Rests
  <1>5. CASE KillOpens \/ NewEntry
    BY <1>5, KillOpensControl, NewEntryControl
  <1>6. CASE \/ SetAttributes \/ Close \/ WriteBeyondEnd \/ (\E p \in Positions : Seek(p))
             \/ (\E k \in WriteSizes : Write(k)) \/ Grow \/ GrowFails \/ Grown
             \/ PutGranule \/ PutGranuleFails
    BY <1>6, FileStepControl
  <1>7. CASE PutEntry \/ PutEntryFails \/ PutNewEntry \/ Erase
    BY <1>7, DirectoryStepControl
  <1> QED
    BY <1>1, <1>2, <1>3, <1>4, <1>5, <1>6, <1>7 DEF Next, Call, Step, Rests, Closes
-----------------------------------------------------------------------------
(* The files on the disk *)

DirFiles == { i \in Slot : dir[i].name # NoName }

DirStarts == [i \in DirFiles |-> dir[i].first]

LEMMA DirStartsType ==
  ASSUME Types
  PROVE  /\ DirFiles \subseteq Slot /\ DirStarts \in [DirFiles -> Granule]
         /\ \A i \in Slot : dir[i].first \in Granule /\ dir[i].last \in 0 .. Bps
  <1>1. \A i \in Slot : dir[i].first \in Granule /\ dir[i].last \in 0 .. Bps
    BY PathTypes, EntryType
  <1> QED
    BY <1>1 DEF DirFiles, DirStarts

(* A file that is not open is the same chain in the FAT of a path as in the *)
(* disk's, and apart from the open file's.                                  *)
LEMMA OtherOnDisk ==
  ASSUME Types, Control, PathFat, Chains,
         NEW i \in Slot, dir[i].name # NoName, ~ IsOpen(i)
  PROVE  /\ i \in FilesNow /\ Starts[i] = dir[i].first
         /\ dir[i].first \in Granule /\ dir[i].last \in 0 .. Bps
         /\ \A c \in Chain(Base, dir[i].first) : fat[c] = Base[c]
         /\ Chain(fat, dir[i].first) = Chain(Base, dir[i].first)
         /\ ~ Endless(fat, dir[i].first) /\ ~ Endless(Base, dir[i].first)
         /\ fat[LastOf(fat, dir[i].first)] # Free
         /\ Base[LastOf(Base, dir[i].first)] # Free
         /\ s.job = "file" => Chain(fat, dir[i].first) \cap Chain(Base, s.entry.first) = {}
  <1> DEFINE g == dir[i].first
  <1>1. g \in Granule /\ dir[i].last \in 0 .. Bps /\ fat \in Fat /\ Base \in Fat
    BY DirStartsType, PathTypes
  <1>2. EntryNow(i) = dir[i]
    BY DEF EntryNow, IsOpen
  <1>3. i \in FilesNow /\ Starts[i] = g /\ DOMAIN Starts = FilesNow
    BY <1>2, StartsType DEF FilesNow
  <1>4. Chained(Base, Starts)
    BY DEF Chains
  <1>5. ~ Endless(Base, g) /\ \A c \in Chain(Base, g) : Base[c] # Free
    BY <1>3, <1>4 DEF Chained
  <1>6. s.job = "file" => Chain(Base, g) \cap Chain(Base, s.entry.first) = {}
    <2> SUFFICES ASSUME s.job = "file"
                 PROVE  Chain(Base, g) \cap Chain(Base, s.entry.first) = {}
      OBVIOUS
    <2>1. s.slot \in FilesNow /\ Starts[s.slot] = s.entry.first
      BY OwnFile DEF Control
    <2>2. i # s.slot
      BY DEF IsOpen
    <2> QED
      BY <2>1, <2>2, <1>3, <1>4 DEF Chained
  <1>7. ASSUME NEW c \in Chain(Base, g) PROVE fat[c] = Base[c]
    <2>1. c \in Granule /\ Base[c] # Free
      BY <1>1, <1>5, ChainType
    <2>2. CASE s.job = "file"
      <3>1. c \notin Chain(Base, s.entry.first)
        BY <2>2, <1>6
      <3>2. SameBut(Base, Chain(Base, s.entry.first))
        BY <2>2 DEF PathFat, Base, FatNow, Control, Jobs
      <3> QED
        BY <2>1, <3>1, <3>2 DEF SameBut
    <2>3. CASE s.job # "file"
      <3>1. Base[c] \in {fat[c], Free}
        BY <2>1, <2>3 DEF Base, FatNow, PathFat, Control, Jobs, Types, PathState
      <3> QED
        BY <2>1, <3>1
    <2> QED
      BY <2>2, <2>3
  <1>8. Chain(fat, g) = Chain(Base, g) /\ LastOf(fat, g) = LastOf(Base, g) /\ ~ Endless(fat, g)
    BY <1>1, <1>5, <1>7, SameChain
  <1>9. LastOf(Base, g) \in Chain(Base, g)
    BY <1>1, ChainType
  <1> QED
    BY <1>1, <1>3, <1>5, <1>6, <1>7, <1>8, <1>9

(* With no path open, or none that has changed its file's chain, the files  *)
(* on the disk are chains of their own.                                     *)
LEMMA ChainsOnDisk ==
  ASSUME Types, Control, PathFat, Chains, s.job = "file" /\ s.pc # "newentry" => Base = fat
  PROVE  /\ Chained(fat, DirStarts) /\ Ended(fat, DirStarts, DirFiles)
         /\ lost = "nothing" /\ (s.pc = "putfat" /\ s.job # "file" => s.fat = fat)
              => Used(fat, DirStarts)
  <1> DEFINE A == Starts
             B == DirStarts
  <1>1. /\ fat \in Fat /\ Base \in Fat /\ A \in [FilesNow -> Granule]
        /\ B \in [DirFiles -> Granule] /\ FilesNow \subseteq Slot /\ DirFiles \subseteq Slot
    BY PathTypes, StartsType, DirStartsType
  <1>2. Chained(Base, A) /\ Ended(Base, A, FilesNow) /\ (lost = "nothing" => Used(Base, A))
    BY DEF Chains
  <1>3. CASE s.job = "file" /\ s.pc # "newentry"
    <2>1. /\ s.slot \in Slot /\ dir[s.slot].name = s.entry.name /\ s.entry.name # NoName
          /\ dir[s.slot].first = s.entry.first
      BY <1>3, PathTypes DEF Control, PathEntry
    <2>2. FilesNow = DirFiles /\ \A i \in DirFiles : EntryNow(i).first = dir[i].first
      BY <2>1 DEF FilesNow, DirFiles, EntryNow
    <2>3. A = B
      BY <2>2 DEF Starts, DirStarts
    <2> QED
      BY <2>2, <2>3, <1>2, <1>3
  <1>4. CASE s.pc = "newentry"
    <2> DEFINE o == s.slot
               g == s.entry.first
    <2>1. /\ s.job = "file" /\ o \in FilesNow /\ A[o] = g /\ g \in Granule /\ EntryNow(o) = s.entry
      BY <1>4, OwnFile DEF Control, Jobs
    <2>2. dir[o].name = NoName /\ fat[g] = Free /\ Base = [fat EXCEPT ![g] = Last(1)]
      BY <1>4 DEF Control, PathEntry, PathFat, Base, FatNow
    <2>3. DirFiles = FilesNow \ {o} /\ \A i \in DirFiles : EntryNow(i).first = dir[i].first
      BY <2>1, <2>2, <1>1 DEF FilesNow, DirFiles, EntryNow
    <2>4. \A i \in DirFiles : B[i] = A[i]
      BY <2>3 DEF Starts, DirStarts
    <2>5. Base[g] = Last(1) /\ Last(1) >= 192
      BY <2>1, <2>2, <1>1, FatAssumption DEF Fat, Last
    <2>6. Chain(Base, g) = {g}
      BY <1>1, <2>1, <2>5, AloneShape
    <2>7. ASSUME NEW i \in DirFiles, NEW c \in Chain(Base, A[i]) PROVE fat[c] = Base[c]
      <3>1. c # g
        BY <2>1, <2>3, <2>6, <1>1, <1>2 DEF Chained
      <3>2. c \in Granule
        BY <2>3, <1>1, ChainType
      <3> QED
        BY <2>2, <3>1, <3>2, <1>1 DEF Fat
    <2>8. /\ Chained(fat, B) /\ \A i \in DirFiles : Chain(fat, A[i]) = Chain(Base, A[i])
          /\ Ended(Base, A, DirFiles) => Ended(fat, B, DirFiles)
      <3>1. DirFiles \in SUBSET FilesNow /\ DirFiles \in SUBSET DirFiles
        BY <2>3
      <3>2. \A i \in DirFiles : \A c \in Chain(Base, A[i]) : fat[c] = Base[c]
        BY <2>7
      <3> HIDE DEF A, B
      <3>3. /\ Chained(fat, B) /\ \A i \in DirFiles : Chain(fat, A[i]) = Chain(Base, A[i])
            /\ \A U \in SUBSET DirFiles : Ended(Base, A, U) => Ended(fat, B, U)
        BY <1>1, <1>2, <2>4, <3>1, <3>2, ChainsAgain
      <3> QED
        BY <3>1, <3>3
    <2>9. Ended(fat, B, DirFiles)
      BY <2>3, <2>8, <1>2 DEF Ended
    <2>10. ASSUME Used(Base, A), NEW c \in Granule, fat[c] # Free
           PROVE  \E i \in DOMAIN B : c \in Chain(fat, B[i])
      <3>1. c # g
        BY <2>2, <2>10
      <3>2. Base[c] # Free
        BY <2>2, <2>10, <3>1, <1>1 DEF Fat
      <3>3. PICK i \in FilesNow : c \in Chain(Base, A[i])
        BY <2>10, <3>2, <1>1 DEF Used
      <3>4. i # o
        BY <3>1, <3>3, <2>1, <2>6
      <3>5. i \in DirFiles
        BY <3>4, <2>3
      <3> QED
        BY <3>3, <3>5, <2>4, <2>8, <1>1
    <2> QED
      BY <2>8, <2>9, <2>10, <1>2 DEF Used
  <1>5. CASE s.job # "file"
    <2>1. FilesNow = DirFiles /\ A = B
      BY <1>5 DEF FilesNow, DirFiles, EntryNow, Starts, DirStarts
    <2>2. ASSUME NEW i \in DirFiles, NEW c \in Chain(Base, A[i]) PROVE fat[c] = Base[c]
      <3>1. i \in Slot /\ dir[i].name # NoName /\ ~ IsOpen(i) /\ A[i] = dir[i].first
        BY <1>5, <2>1 DEF DirFiles, IsOpen, DirStarts
      <3> QED
        BY <3>1, OtherOnDisk
    <2>3. Chained(fat, B) /\ Ended(fat, B, DirFiles)
      <3>1. DirFiles \in SUBSET DirFiles /\ \A i \in DirFiles : B[i] = A[i]
        BY <2>1
      <3> HIDE DEF A, B
      <3> QED
        BY <1>1, <1>2, <2>1, <2>2, <3>1, ChainsAgain
    <2>4. (s.pc = "putfat" /\ s.job # "file" => s.fat = fat) => Base = fat
      BY <1>5 DEF Base, FatNow, PathFat, Control, Jobs, Types, PathState
    <2> QED
      BY <2>1, <2>3, <2>4, <1>2
  <1> QED
    BY <1>3, <1>4, <1>5

(* What has to hold for the invariant to hold at rest. *)
LEMMA SoundAtRest ==
  ASSUME Types', Control', AtRest',
         Chained(fat', DirStarts'), Ended(fat', DirStarts', DirFiles'),
         lost' = "nothing" => Used(fat', DirStarts'), Others'
  PROVE  Sound'
  <1>1. s'.job \notin {"file", "rename"} /\ s'.pc \in {"idle", "create", "kill"}
    BY DEF Control, Jobs, AtRest
  <1>2. Base' = fat' /\ FilesNow' = DirFiles' /\ Starts' = DirStarts'
    BY <1>1 DEF Base, FatNow, FilesNow, DirFiles, EntryNow, Starts, DirStarts
  <1>3. Chains'
    BY <1>2 DEF Chains
  <1>4. PathFat' /\ Growing' /\ Writing' /\ Own' /\ OwnOnDisk'
    BY <1>1 DEF PathFat, Growing, Writing, Own, OwnOnDisk
  <1> QED
    BY <1>3, <1>4 DEF Sound
LEMMA RestsSound ==
  ASSUME Sound, Types', Control', Rests
  PROVE  Sound'
  <1>1. /\ AtRest' /\ s.job \notin {"file", "rename"}
        /\ fat' = fat /\ dir' = dir /\ data' = data /\ torn' = torn /\ lost' = lost
    BY RestsJobs DEF Sound, Control
  <1>2. s.pc # "putfat"
    BY DEF Rests, OpenFindsNothing, Kill, Create, Rename, OpenFails, CreateFails, Replace,
           KillFindsNothing, KillFails, EraseFails
  <1>3. /\ Chained(fat, DirStarts) /\ Ended(fat, DirStarts, DirFiles)
        /\ lost = "nothing" => Used(fat, DirStarts)
    BY <1>1, <1>2, ChainsOnDisk DEF Sound
  <1>4. DirStarts' = DirStarts /\ DirFiles' = DirFiles
    BY <1>1 DEF DirStarts, DirFiles
  <1>5. Others'
    <2>1. Others
      BY DEF Sound
    <2> QED
      BY <1>1, <2>1 DEF Others, IsOpen
  <1> QED
    BY <1>1, <1>3, <1>4, <1>5, SoundAtRest

(* The files that are not open, and the open one if its path has not made   *)
(* it another one, survive the path.                                        *)
LEMMA ClosesDisk ==
  ASSUME Sound, Types', Control', AtRest',
         s.job = "file" /\ s.pc # "newentry" => Base = fat,
         lost' = "nothing" =>
           lost = "nothing" /\ (s.pc = "putfat" /\ s.job # "file" => s.fat = fat),
         fat' = fat, dir' = dir, data' = data, torn' = torn
  PROVE  Sound'
  <1>1. /\ Chained(fat, DirStarts) /\ Ended(fat, DirStarts, DirFiles)
        /\ lost' = "nothing" => Used(fat, DirStarts)
    BY ChainsOnDisk DEF Sound
  <1>2. DirStarts' = DirStarts /\ DirFiles' = DirFiles
    BY DEF DirStarts, DirFiles
  <1>3. Others'
    <2>1. Others /\ OwnOnDisk
      BY DEF Sound
    <2>2. s.job = "file" /\ s.pc = "newentry" => dir[s.slot].name = NoName
      BY DEF Sound, Control, PathEntry
    <2>3. ASSUME NEW i \in Slot \ torn, dir[i].name # NoName PROVE IsWhole(data, fat, dir[i])
      <3>1. CASE ~ IsOpen(i)
        BY <2>1, <2>3, <3>1 DEF Others
      <3>2. CASE IsOpen(i)
        BY <2>1, <2>2, <2>3, <3>2 DEF OwnOnDisk, IsOpen
      <3> QED
        BY <3>1, <3>2
    <2> QED
      BY <2>3 DEF Others
  <1> QED
    BY <1>1, <1>2, <1>3, SoundAtRest

(* A growing file has more granules than before, or is as it was. *)
LEMMA GrowsFromBase ==
  ASSUME Types, Control, PathFat, Growing, Writing, s.pc = "grow", s.fat = fat
  PROVE  Base = fat
  <1>1. s.job = "file" /\ Base = s.undo
    BY DEF Control, Jobs, Base
  <1>2. Taken(fat) \subseteq Taken(s.undo) /\ (s.undo = s.fat \/ s.cur \notin Taken(s.undo))
    BY <1>1 DEF PathFat
  <1>3. s.cur \in Taken(s.fat)
    <2>1. s.entry.first \in Granule /\ s.fat \in Fat /\ s.cur = LastOf(s.fat, s.entry.first)
      BY <1>1, OwnFile, PathTypes DEF Control, Writing
    <2>2. Starts[s.slot] = s.entry.first /\ s.slot \in DOMAIN Starts
      BY <1>1, OwnFile, StartsType DEF Control
    <2>3. \A c \in Chain(s.fat, s.entry.first) : s.fat[c] # Free
      BY <2>2 DEF Growing, Chained
    <2> QED
      BY <2>1, <2>3, ChainType DEF Taken
  <1> QED
    BY <1>1, <1>2, <1>3

LEMMA ClosesSound ==
  ASSUME Sound, Types', Control', Closes, lost' # "files"
  PROVE  Sound'
  <1>1. AtRest' /\ dir' = dir
    BY ClosesJobs DEF Sound, Control
  <1>2. Types /\ Control /\ PathFat /\ Chains /\ Growing /\ Writing
    BY DEF Sound
  <1>3. lost' = "nothing" => lost = "nothing"
    <2>1. \A h \in {"files", "granules"} : Harm(h) => lost' # "nothing"
      BY <1>2 DEF Harm, Types, TypeOK
    <2> QED
      BY <2>1 DEF Closes, PutFat, PutFatFails, PutNewEntryFails, Crash
  <1>4. CASE PutNewEntryFails
    <2>1. s.pc = "newentry" /\ fat' = fat /\ data' = data /\ torn' = torn /\ lost' = lost
      BY <1>4 DEF PutNewEntryFails
    <2> QED
      BY <1>1, <2>1, ClosesDisk
  <1>5. CASE PutFatFails
    <2>1. /\ s.pc = "putfat" /\ fat' = fat /\ data' = data /\ torn' = torn
          /\ Harm(IF s.job = "file" THEN "files" ELSE "granules")
      BY <1>5 DEF PutFatFails
    <2>2. s.job # "file" /\ lost' # "nothing"
      BY <2>1 DEF Harm
    <2> QED
      BY <1>1, <2>1, <2>2, ClosesDisk
  <1>6. CASE Crash
    <2>1. /\ fat' = fat /\ data' = data /\ torn' = torn
          /\ IF s.job = "file" /\ s.fat # s.saved /\ s.pc # "newentry" THEN Harm("files")
             ELSE IF s.pc = "putfat" /\ s.fat # s.saved THEN Harm("granules")
             ELSE UNCHANGED lost
      BY <1>6 DEF Crash
    <2>2. s.job = "file" /\ s.pc # "newentry" => s.fat = s.saved
      BY <2>1 DEF Harm
    <2>3. s.job = "file" => s.pc \notin {"idle", "create", "kill"}
      BY <1>2 DEF Control, Jobs
    <2>4. s.job = "file" /\ s.pc # "newentry" => s.fat = fat
      BY <2>2, <2>3, <1>2 DEF PathFat
    <2>5. s.job = "file" /\ s.pc # "newentry" => Base = fat
      BY <2>3, <2>4, <1>2, GrowsFromBase DEF Base, FatNow
    <2>6. lost' = "nothing" => (s.pc = "putfat" /\ s.job # "file" => s.fat = fat)
      BY <2>1, <1>2 DEF Harm, PathFat
    <2> QED
      BY <1>1, <1>3, <2>1, <2>5, <2>6, ClosesDisk
  <1>7. CASE PutFat
    <2>1. /\ s.pc = "putfat" /\ fat' = s.fat /\ data' = data /\ torn' = torn /\ lost' = lost
      BY <1>7 DEF PutFat
    <2>2. Base = s.fat
      BY <2>1 DEF Base, FatNow
    <2>3. s.job = "file" => dir[s.slot].name = s.entry.name /\ dir[s.slot].first = s.entry.first
                            /\ s.entry.name # NoName
      BY <1>2, <2>1 DEF Control, PathEntry
    <2>4. FilesNow = DirFiles' /\ Starts = DirStarts'
      <3>1. \A i \in Slot : EntryNow(i).name = dir[i].name /\ EntryNow(i).first = dir[i].first
        BY <2>3 DEF EntryNow
      <3>2. FilesNow = DirFiles
        BY <3>1 DEF FilesNow, DirFiles
      <3>3. Starts = DirStarts
        BY <3>1, <3>2, <1>2, StartsType DEF Starts, DirStarts
      <3> QED
        BY <3>2, <3>3, <1>1 DEF DirFiles, DirStarts
    <2>5. /\ Chained(fat', DirStarts') /\ Ended(fat', DirStarts', DirFiles')
          /\ lost' = "nothing" => Used(fat', DirStarts')
      BY <1>2, <2>1, <2>2, <2>4 DEF Chains
    <2>6. ASSUME NEW i \in Slot \ torn, dir[i].name # NoName PROVE IsWhole(data, s.fat, dir[i])
      <3>1. CASE ~ IsOpen(i)
        <4>1. /\ dir[i].first \in Granule /\ dir[i].last \in 0 .. Bps
              /\ ~ Endless(fat, dir[i].first)
              /\ fat[LastOf(fat, dir[i].first)] # Free
              /\ \A c \in Chain(fat, dir[i].first) : s.fat[c] = fat[c]
          BY <1>2, <2>2, <2>6, <3>1, OtherOnDisk
        <4>2. IsWhole(data, fat, dir[i])
          BY <2>6, <3>1 DEF Sound, Others
        <4>3. fat \in Fat /\ s.fat \in Fat
          BY <1>2, PathTypes
        <4> QED
          BY <4>1, <4>2, <4>3, WholeAgain
      <3>2. CASE IsOpen(i)
        <4>1. i = s.slot /\ s.job = "file"
          BY <3>2 DEF IsOpen
        <4>2. dir[i] = s.entry
          BY <1>2, <2>1, <2>6, <4>1 DEF Control, PathEntry
        <4>3. IsWhole(data, s.fat, s.entry)
          BY <2>1, <2>2, <2>6, <4>1 DEF Sound, Own
        <4> QED
          BY <4>2, <4>3
      <3> QED
        BY <3>1, <3>2
    <2>7. Others'
      BY <1>1, <2>1, <2>6 DEF Others
    <2> QED
      BY <1>1, <2>5, <2>7, SoundAtRest
  <1> QED
    BY <1>4, <1>5, <1>6, <1>7 DEF Closes
-----------------------------------------------------------------------------
(* The steps of an open path *)

(* A path that is opened has the disk's FAT and an entry of the disk's.     *)
LEMMA LoadsSound ==
  ASSUME Sound, Types', Control', AtRest, UNCHANGED << fat, dir, data, torn, lost >>,
         s'.fat = fat, s'.saved = fat, s'.pc \in {"open", "erase", "entry"},
         s'.pc = "entry" => s'.job = "rename",
         dir[s'.slot].name # NoName, s'.entry.first = dir[s'.slot].first, s'.entry.name # NoName,
         s'.job = "file" => s'.entry = dir[s'.slot]
  PROVE  Sound'
  <1>1. Types /\ Control /\ PathFat /\ Chains /\ Others /\ s.job # "file" /\ s.pc # "putfat"
    BY DEF Sound, AtRest, Control, Jobs
  <1>2. /\ Chained(fat, DirStarts) /\ Ended(fat, DirStarts, DirFiles)
        /\ lost = "nothing" => Used(fat, DirStarts)
    BY <1>1, ChainsOnDisk
  <1>3. Base' = fat'
    BY DEF Base, FatNow
  <1>4. s'.slot \in Slot
    BY DEF Types, TypeOK
  <1>5. \A i \in Slot : /\ (EntryNow(i))'.first = dir[i].first
                        /\ (EntryNow(i))'.name # NoName <=> dir[i].name # NoName
    BY DEF EntryNow
  <1>6. FilesNow' = DirFiles
    BY <1>5 DEF FilesNow, DirFiles
  <1>7. Starts' = DirStarts
    BY <1>5, <1>6 DEF Starts, DirStarts, DirFiles
  <1>8. Chains'
    BY <1>2, <1>3, <1>6, <1>7 DEF Chains
  <1>9. PathFat'
    <2>1. fat' = fat /\ s'.fat = fat /\ s'.saved = fat
      OBVIOUS
    <2>2. SameBut(s.fat, Chain(s.fat, s.entry.first))'
      BY <2>1 DEF SameBut
    <2>3. \A g \in Taken(fat) : g \in Taken(fat) /\ (fat[g] >= 192 => fat[g] <= fat[g])
      <3>1. \A g \in Taken(fat) : fat[g] \in Int
        BY <1>1, PathTypes, Bytes DEF Taken, Fat
      <3> QED
        BY <3>1
    <2>4. (\A g \in Taken(fat) : g \in Taken(Base) /\ (Base[g] >= 192 => fat[g] <= Base[g]))'
      BY <1>3, <2>1, <2>3 DEF Taken
    <2>5. s'.pc \notin {"idle", "create", "kill", "grow", "putfat", "newentry"}
      OBVIOUS
    <2> QED
      BY <2>1, <2>2, <2>4, <2>5 DEF PathFat
  <1>10. Growing' /\ Writing'
    BY DEF Growing, Writing
  <1>11. Others'
    BY <1>1 DEF Others, IsOpen
  <1>12. s'.job = "file" /\ s'.slot \notin torn => IsWhole(data, fat, dir[s'.slot])
    BY <1>1, <1>4 DEF Others, IsOpen
  <1>13. Own' /\ OwnOnDisk'
    BY <1>3, <1>12 DEF Own, OwnOnDisk
  <1> QED
    BY <1>8, <1>9, <1>10, <1>11, <1>13 DEF Sound

LEMMA LoadStepsSound ==
  ASSUME Sound, Types', Control',
         \/ \E a \in Args : Open(a)
         \/ \E a, b \in Args : Rename(a, b) /\ ~ (Exists(b) \/ ~ Exists(a))
         \/ KillOpens
  PROVE  Sound'
  <1>1. Types /\ Jobs
    BY DEF Sound, Control
  <1>2. ASSUME NEW a \in Args, Open(a) PROVE Sound'
    <2>1. PICK i \in Slot :
            /\ dir[i].name # NoName
            /\ s' = WithFat([Idle EXCEPT !.pc = "open", !.job = "file", !.entry = dir[i], !.slot = i])
      BY <1>2, NamesAre DEF Open, Found, IsFirst, Entries
    <2>2. /\ s'.pc = "open" /\ s'.job = "file" /\ s'.entry = dir[i] /\ s'.slot = i
          /\ s'.fat = fat /\ s'.saved = fat
      BY <2>1 DEF WithFat, Idle
    <2>3. AtRest /\ UNCHANGED << fat, dir, data, torn, lost >>
      BY <1>2 DEF Open, AtRest
    <2> QED
      BY <2>1, <2>2, <2>3, LoadsSound
  <1>3. ASSUME NEW a \in Args, NEW b \in Args, Rename(a, b), ~ (Exists(b) \/ ~ Exists(a))
        PROVE  Sound'
    <2>1. PICK i \in Slot :
            /\ dir[i].name = EntryOf[a] /\ s'.pc = "entry" /\ s'.job = "rename" /\ s'.slot = i
            /\ s'.entry = [dir[i] EXCEPT !.name = EntryOf[b]] /\ s'.entry.name = EntryOf[b]
            /\ s'.fat = fat /\ s'.saved = fat
            /\ s.pc = "idle" /\ fat' = fat /\ dir' = dir /\ data' = data /\ torn' = torn
            /\ lost' = lost
      BY <1>1, <1>3, RenameIs
    <2>2. dir[i].name # NoName /\ s'.entry.name # NoName /\ s'.entry.first = dir[i].first
      <3>1. dir[i] \in Entry
        BY <1>1, PathTypes
      <3> QED
        BY <2>1, <3>1, NamesAre DEF Entry
    <2> QED
      BY <2>1, <2>2, LoadsSound DEF AtRest
  <1>4. CASE KillOpens
    <2>1. s.pc = "kill" /\ s.job \in {"kill", "create"} /\ s.arg \in Args /\ s \in PathState
      BY <1>1, <1>4 DEF KillOpens, Jobs, Types
    <2>2. PICK i \in Slot :
            /\ dir[i].name # NoName
            /\ s' = WithFat([s EXCEPT !.pc = "erase", !.entry = dir[i], !.slot = i])
      BY <1>4, <2>1, NamesAre DEF KillOpens, Found, IsFirst, Entries
    <2>3. /\ s'.pc = "erase" /\ s'.job = s.job /\ s'.entry = dir[i] /\ s'.slot = i
          /\ s'.fat = fat /\ s'.saved = fat
      BY <2>1, <2>2 DEF WithFat, PathState
    <2>4. AtRest /\ UNCHANGED << fat, dir, data, torn, lost >>
      BY <1>4 DEF KillOpens, AtRest
    <2> QED
      BY <2>1, <2>2, <2>3, <2>4, LoadsSound
  <1> QED
    BY <1>2, <1>3, <1>4

(* The same files, each with the same first granule. *)
LEMMA SameStarts ==
  ASSUME Types, dir' = dir, s.job = "file", s'.job = "file", s'.slot = s.slot,
         s'.entry.name = s.entry.name, s'.entry.first = s.entry.first
  PROVE  FilesNow' = FilesNow /\ Starts' = Starts
  <1>1. \A i \in Slot : /\ (EntryNow(i))'.first = EntryNow(i).first
                        /\ (EntryNow(i))'.name = EntryNow(i).name
    BY DEF EntryNow
  <1>2. FilesNow' = FilesNow
    BY <1>1 DEF FilesNow
  <1>3. \A i \in FilesNow : (EntryNow(i))'.first = EntryNow(i).first
    BY <1>1 DEF FilesNow
  <1> QED
    BY <1>2, <1>3 DEF Starts

(* Steps that leave the disk, the FAT that is complete and the entry as     *)
(* they are.                                                                *)
LEMMA QuietSound ==
  ASSUME Sound, Types', Control', UNCHANGED << fat, dir, data, torn, lost >>,
         s.job = "file", s.pc \in {"open", "grow"}, s'.job = "file", s'.slot = s.slot,
         s'.entry = s.entry, s'.saved = s.saved, Base' = Base,
         s'.pc \in {"open", "entry", "putfat", "grow", "data"},
         s'.pc = "grow" => s.pc = "open" /\ s'.fat = Base /\ s'.undo = Base,
         Writing'
  PROVE  Sound'
  <1>1. /\ Types /\ Control /\ PathFat /\ Chains /\ Others /\ Own /\ OwnOnDisk
    BY DEF Sound
  <1>2. FilesNow' = FilesNow /\ Starts' = Starts
    BY <1>1, SameStarts
  <1>3. Chains'
    BY <1>1, <1>2 DEF Chains
  <1>4. s'.fat = Base
    BY DEF Base, FatNow
  <1>5. SameBut(Base, Chain(Base, s.entry.first))
    BY <1>1 DEF PathFat, Base, FatNow
  <1>6. s.saved = fat
    BY <1>1 DEF PathFat
  <1>7. PathFat'
    <2>1. \A g \in Taken(fat) : g \in Taken(Base) /\ (Base[g] >= 192 => fat[g] <= Base[g])
      BY <1>1 DEF PathFat
    <2>2. s'.pc \notin {"idle", "create", "kill", "erase", "newentry"}
      OBVIOUS
    <2> QED
      BY <1>4, <1>5, <1>6, <2>1, <2>2 DEF PathFat, SameBut, Taken
  <1>8. Growing'
    <2>1. Ended(Base, Starts, FilesNow) => Ended(Base, Starts, FilesNow \ {s.slot})
      BY DEF Ended
    <2> QED
      BY <1>1, <1>2, <2>1 DEF Growing, Chains
  <1>9. Others' /\ OwnOnDisk'
    BY <1>1 DEF Others, OwnOnDisk, IsOpen
  <1>10. Own'
    <2>1. s.slot \notin torn => IsWhole(data, Base, s.entry)
      BY <1>1 DEF Own
    <2>2. CASE s'.pc = "data"
      BY <1>4, <2>1, <2>2 DEF Own, IsWhole, IsWholeBut
    <2>3. CASE s'.pc # "data"
      BY <2>1, <2>3 DEF Own
    <2> QED
      BY <2>2, <2>3
  <1> QED
    BY <1>3, <1>7, <1>8, <1>9, <1>10 DEF Sound

LEMMA QuietStepsSound ==
  ASSUME Sound, Types', Control',
         \/ SetAttributes \/ Close \/ WriteBeyondEnd \/ (\E p \in Positions : Seek(p))
         \/ GrowFails
  PROVE  Sound'
  <1>1. s \in PathState /\ Jobs
    BY DEF Sound, Types, Control
  <1>2. /\ UNCHANGED << fat, dir, data, torn, lost >> /\ s.job = "file" /\ s.pc \in {"open", "grow"}
        /\ s'.job = "file" /\ s'.slot = s.slot /\ s'.entry = s.entry /\ s'.saved = s.saved
        /\ s'.pc \in {"open", "entry", "putfat"}
        /\ s'.fat = (IF s.pc = "grow" THEN s.undo ELSE s.fat)
    <2>1. CASE SetAttributes
      BY <1>1, <2>1 DEF SetAttributes, PathState, Jobs
    <2>2. CASE Close
      BY <1>1, <2>2 DEF Close, PathState, Jobs
    <2>3. CASE WriteBeyondEnd
      BY <1>1, <2>3 DEF WriteBeyondEnd, PathState, Jobs
    <2>4. CASE GrowFails
      BY <1>1, <2>4 DEF GrowFails, PathState, Jobs
    <2>5. ASSUME NEW p \in Positions, Seek(p)
          PROVE  /\ UNCHANGED << fat, dir, data, torn, lost >> /\ s.job = "file"
                 /\ s.pc \in {"open", "grow"}
                 /\ s'.job = "file" /\ s'.slot = s.slot /\ s'.entry = s.entry /\ s'.saved = s.saved
                 /\ s'.pc \in {"open", "entry", "putfat"}
                 /\ s'.fat = (IF s.pc = "grow" THEN s.undo ELSE s.fat)
      BY <1>1, <2>5 DEF Seek, PathState, Jobs
    <2> QED
      BY <2>1, <2>2, <2>3, <2>4, <2>5
  <1>3. Base' = Base
    BY <1>2 DEF Base, FatNow
  <1>4. Writing'
    BY <1>2 DEF Writing
  <1> QED
    BY <1>2, <1>3, <1>4, QuietSound

LEMMA WriteSound ==
  ASSUME Sound, Types', Control', NEW k \in WriteSizes, Write(k)
  PROVE  Sound'
  <1>1. s \in PathState /\ Jobs /\ Types /\ Control /\ Chains
    BY DEF Sound, Types, Control
  <1>2. s.pc = "open" /\ s.job = "file" /\ s.pos <= Size /\ k \in Nat \ {0} /\ Base = s.fat
    BY <1>1, DecbAssumption DEF Write, Jobs, Base, FatNow
  <1> DEFINE g == s.entry.first
             f == s.fat
  <1>3. /\ f \in Fat /\ g \in Granule /\ s.entry.last \in 0 .. Bps /\ ~ Endless(f, g)
        /\ f[LastOf(f, g)] # Free /\ s.pos \in Nat
    BY <1>1, <1>2, OwnFile, OwnChain, PathTypes DEF Control
  <1>4. Size \in Nat /\ SizeBefore(f, g) <= Size /\ EndOf(f, g) \in Nat /\ SizeBefore(f, g) \in Nat
    BY <1>3, FileSizeIs DEF Size
  <1>5. UNCHANGED << fat, dir, data, torn, lost >>
    BY DEF Write
  <1>6. CASE Size < s.pos + k
    <2>1. s' = [s EXCEPT !.pc = "grow", !.goal = s.pos + k, !.undo = s.fat,
                         !.cur = LastOf(s.fat, s.entry.first)]
      BY <1>6 DEF Write
    <2>2. /\ s'.pc = "grow" /\ s'.goal = s.pos + k /\ s'.undo = f /\ s'.cur = LastOf(f, g)
          /\ s'.job = "file" /\ s'.slot = s.slot /\ s'.entry = s.entry /\ s'.saved = s.saved
          /\ s'.fat = f /\ s'.pos = s.pos
      BY <1>1, <1>2, <2>1 DEF PathState
    <2>3. Base' = Base
      BY <1>2, <2>2 DEF Base
    <2>4. Writing'
      <3>1. s'.fat = f /\ s'.undo = f /\ s'.entry.first = g /\ s'.entry = s.entry
        BY <2>2
      <3>2. s'.pos <= FileSize(f, s.entry) /\ FileSize(f, s.entry) < s'.goal
        BY <2>2, <1>2, <1>6 DEF Size
      <3>3. SizeBefore(f, g) < s'.goal
        <4>1. s'.goal \in Int
          BY <1>2, <1>3, <2>2
        <4> QED
          BY <4>1, <3>2, <1>4 DEF Size
      <3>4. EndOf(f, g) <= EndOf(f, g)
        BY <1>4
      <3> QED
        BY <2>2, <3>1, <3>2, <3>3, <3>4 DEF Writing
    <2> QED
      BY <1>2, <1>5, <2>2, <2>3, <2>4, QuietSound
  <1>7. CASE ~ (Size < s.pos + k)
    <2>1. s' = [s EXCEPT !.pc = "data", !.goal = s.pos + k, !.cur = GranuleAt(s, s.fat)]
      BY <1>7 DEF Write
    <2>2. /\ s'.pc = "data" /\ s'.goal = s.pos + k /\ s'.cur = GranuleAt(s, f)
          /\ s'.job = "file" /\ s'.slot = s.slot /\ s'.entry = s.entry /\ s'.saved = s.saved
          /\ s'.fat = f /\ s'.pos = s.pos
      BY <1>1, <1>2, <2>1 DEF PathState
    <2>3. Base' = Base
      BY <1>2, <2>2 DEF Base, FatNow
    <2>4. Writing'
      BY <2>2, <1>2, <1>3, <1>4, <1>7 DEF Writing, Size, GranuleAt
    <2> QED
      BY <1>2, <1>5, <2>2, <2>3, <2>4, QuietSound
  <1> QED
    BY <1>6, <1>7
-----------------------------------------------------------------------------
(* The steps that write the directory *)

(* The entry of an open file is written, or that fails and nobody relies on *)
(* the file any longer.                                                     *)
LEMMA EntryWrittenSound ==
  ASSUME Sound, Types', Control', s.job = "file", s.pc \in {"entry", "newentry"},
         s'.pc = "open", s'.job = "file", s'.slot = s.slot, s'.entry = s.entry,
         s'.fat = s.fat, s'.saved = s.saved,
         fat' = fat, data' = data, lost' = lost, torn \subseteq torn',
         \A i \in Slot \ {s.slot} : dir'[i] = dir[i],
         s.slot \notin torn' => dir'[s.slot] = s.entry
  PROVE  Sound'
  <1>1. Types /\ Control /\ PathFat /\ Chains /\ Others /\ Own
    BY DEF Sound
  <1>2. Base = s.fat /\ Base' = s.fat
    BY DEF Base, FatNow
  <1>3. FilesNow' = FilesNow /\ Starts' = Starts
    <2>1. \A i \in Slot : (EntryNow(i))' = EntryNow(i)
      BY DEF EntryNow
    <2>2. FilesNow' = FilesNow
      BY <2>1 DEF FilesNow
    <2>3. \A i \in FilesNow : (EntryNow(i))'.first = EntryNow(i).first
      BY <2>1 DEF FilesNow
    <2> QED
      BY <2>2, <2>3 DEF Starts
  <1>4. Chains'
    BY <1>1, <1>2, <1>3 DEF Chains
  <1>5. PathFat'
    <2>1. SameBut(s.fat, Chain(s.fat, s.entry.first)) /\ s.saved = fat
      BY <1>1 DEF PathFat
    <2>2. \A g \in Taken(fat) : g \in Taken(Base) /\ (Base[g] >= 192 => fat[g] <= Base[g])
      BY <1>1 DEF PathFat
    <2>3. s'.pc \notin {"idle", "create", "kill", "erase", "grow", "putfat", "newentry"}
      OBVIOUS
    <2> QED
      BY <1>2, <2>1, <2>2, <2>3 DEF PathFat, SameBut, Taken
  <1>6. Growing' /\ Writing'
    BY DEF Growing, Writing
  <1>7. Others'
    BY <1>1 DEF Others, IsOpen
  <1>8. s.slot \notin torn' => IsWhole(data, Base, s.entry)
    BY <1>1 DEF Own
  <1>9. Own' /\ OwnOnDisk'
    BY <1>2, <1>8 DEF Own, OwnOnDisk
  <1> QED
    BY <1>4, <1>5, <1>6, <1>7, <1>9 DEF Sound

(* The entry of a file that is renamed says the same of its granules.       *)
LEMMA RenamedSound ==
  ASSUME Sound, Types', Control', PutEntry, s.job = "rename"
  PROVE  Sound'
  <1>1. Types /\ Control /\ PathFat /\ Chains /\ Others
    BY DEF Sound
  <1> DEFINE o == s.slot
  <1>2. /\ s.pc = "entry" /\ dir' = [dir EXCEPT ![o] = s.entry]
        /\ fat' = fat /\ data' = data /\ torn' = torn /\ lost' = lost
    BY DEF PutEntry
  <1>3. AtRest'
    BY DoneFields DEF PutEntry, AtRest
  <1>4. o \in Slot /\ dir \in [Slot -> Entry] /\ dir[o] \in Entry
    BY <1>1, PathTypes
  <1>5. /\ dir[o].name # NoName /\ s.entry.name # NoName
        /\ s.entry.first = dir[o].first /\ s.entry.last = dir[o].last
    BY <1>1, <1>4, EntryType DEF Control, PathEntry
  <1>6. \A i \in Slot : /\ dir'[i].first = dir[i].first /\ dir'[i].last = dir[i].last
                        /\ dir'[i].name # NoName <=> dir[i].name # NoName
    BY <1>2, <1>4, <1>5
  <1>7. DirFiles' = DirFiles /\ DirStarts' = DirStarts
    <2>1. DirFiles' = DirFiles
      BY <1>6 DEF DirFiles
    <2>2. \A i \in DirFiles : dir'[i].first = dir[i].first
      BY <1>6 DEF DirFiles
    <2> QED
      BY <2>1, <2>2 DEF DirStarts
  <1>8. /\ Chained(fat, DirStarts) /\ Ended(fat, DirStarts, DirFiles)
        /\ lost = "nothing" => Used(fat, DirStarts)
    BY <1>1, <1>2, ChainsOnDisk
  <1>9. Others'
    <2> SUFFICES ASSUME NEW i \in Slot \ torn, dir'[i].name # NoName
                 PROVE  IsWhole(data, fat, dir'[i])
      BY <1>2 DEF Others
    <2>1. IsWhole(data, fat, dir[i])
      BY <1>1, <1>6 DEF Others, IsOpen
    <2> QED
      BY <2>1, <1>6 DEF IsWhole, FileSize, IsRight
  <1> QED
    BY <1>2, <1>3, <1>7, <1>8, <1>9, SoundAtRest

LEMMA EntryStepsSound ==
  ASSUME Sound, Types', Control', PutEntry \/ PutEntryFails \/ PutNewEntry
  PROVE  Sound'
  <1>1. s \in PathState /\ Types /\ Jobs /\ s.slot \in Slot /\ dir \in [Slot -> Entry]
    BY PathTypes DEF Sound, Types, Control
  <1>2. CASE PutEntry /\ s.job = "file"
    <2>1. /\ s.pc = "entry" /\ dir' = [dir EXCEPT ![s.slot] = s.entry]
          /\ s' = [s EXCEPT !.pc = "open", !.ec = "ok"]
          /\ fat' = fat /\ data' = data /\ torn' = torn /\ lost' = lost
      BY <1>2 DEF PutEntry
    <2>2. /\ s'.pc = "open" /\ s'.job = "file" /\ s'.slot = s.slot /\ s'.entry = s.entry
          /\ s'.fat = s.fat /\ s'.saved = s.saved
      BY <1>1, <1>2, <2>1 DEF PathState
    <2>3. dir'[s.slot] = s.entry /\ \A i \in Slot \ {s.slot} : dir'[i] = dir[i]
      BY <1>1, <2>1
    <2> QED
      BY <1>2, <2>1, <2>2, <2>3, EntryWrittenSound
  <1>3. CASE PutEntry /\ s.job = "rename"
    BY <1>3, RenamedSound
  <1>4. CASE PutEntryFails /\ s.job = "file"
    <2>1. /\ s.pc = "entry" /\ dir' = dir /\ s' = [s EXCEPT !.pc = "open", !.ec = "EIO"]
          /\ fat' = fat /\ data' = data /\ torn' = torn \cup {s.slot} /\ lost' = lost
      BY <1>4 DEF PutEntryFails
    <2>2. /\ s'.pc = "open" /\ s'.job = "file" /\ s'.slot = s.slot /\ s'.entry = s.entry
          /\ s'.fat = s.fat /\ s'.saved = s.saved
      BY <1>1, <1>4, <2>1 DEF PathState
    <2> QED
      BY <1>4, <2>1, <2>2, EntryWrittenSound
  <1>5. CASE PutEntryFails /\ s.job = "rename"
    <2>1. /\ s.pc = "entry" /\ dir' = dir /\ s' = Done("EIO")
          /\ fat' = fat /\ data' = data /\ torn' = torn /\ lost' = lost
      BY <1>5 DEF PutEntryFails
    <2>2. AtRest'
      BY <2>1, DoneFields DEF AtRest
    <2> QED
      BY <1>5, <2>1, <2>2, ClosesDisk
  <1>6. CASE PutNewEntry
    <2>1. /\ s.pc = "newentry" /\ s.job = "file" /\ dir' = [dir EXCEPT ![s.slot] = s.entry]
          /\ s' = [s EXCEPT !.pc = "open"]
          /\ fat' = fat /\ data' = data /\ torn' = torn /\ lost' = lost
      BY <1>1, <1>6 DEF PutNewEntry, Jobs
    <2>2. /\ s'.pc = "open" /\ s'.job = "file" /\ s'.slot = s.slot /\ s'.entry = s.entry
          /\ s'.fat = s.fat /\ s'.saved = s.saved
      BY <1>1, <2>1 DEF PathState
    <2>3. dir'[s.slot] = s.entry /\ \A i \in Slot \ {s.slot} : dir'[i] = dir[i]
      BY <1>1, <2>1
    <2> QED
      BY <2>1, <2>2, <2>3, EntryWrittenSound
  <1>7. PutEntry \/ PutEntryFails => s.job \in {"file", "rename"}
    BY <1>1 DEF PutEntry, PutEntryFails, Jobs
  <1> QED
    BY <1>2, <1>3, <1>4, <1>5, <1>6, <1>7

LEMMA NewEntrySound ==
  ASSUME Sound, Types', Control', NewEntry
  PROVE  Sound'
  <1>1. Types /\ Control /\ Jobs /\ PathFat /\ Chains /\ Others
    BY DEF Sound, Control
  <1>2. PICK g \in Granule, o \in Slot :
          /\ s.pc = "create" /\ fat[g] = Free /\ dir[o].name = NoName
          /\ s'.pc = "newentry" /\ s'.job = "file" /\ s'.slot = o
          /\ s'.fat = [fat EXCEPT ![g] = Last(1)] /\ s'.saved = fat
          /\ s'.entry = [name |-> EntryOf[s.arg], first |-> g, last |-> 0]
    BY <1>1, NewEntryIs
  <1>3. fat' = fat /\ dir' = dir /\ data' = data /\ torn' = torn /\ lost' = lost
    BY DEF NewEntry
  <1>4. s'.entry.first = g /\ s'.entry.last = 0 /\ s'.entry.name # NoName
    BY <1>2 DEF Control, PathEntry
  <1> DEFINE h == s'.fat
             A == DirStarts
             B == Starts'
  <1>5. fat \in Fat /\ h \in Fat
    BY <1>1, PathTypes DEF Types, TypeOK, Fat
  <1>6. h[g] = Last(1) /\ \A c \in Granule \ {g} : h[c] = fat[c]
    BY <1>2, <1>5 DEF Fat
  <1>7. Base' = h
    BY <1>2 DEF Base, FatNow
  <1>8. s.job = "create" /\ s.pc # "putfat"
    BY <1>1, <1>2 DEF Jobs
  <1>9. /\ Chained(fat, A) /\ Ended(fat, A, DirFiles) /\ (lost = "nothing" => Used(fat, A))
    BY <1>1, <1>8, ChainsOnDisk
  <1>10. /\ FilesNow' = DirFiles \cup {o} /\ o \notin DirFiles
         /\ B = [i \in DirFiles \cup {o} |-> IF i = o THEN g ELSE A[i]]
    <2>1. \A i \in Slot : (EntryNow(i))' = IF i = o THEN s'.entry ELSE dir[i]
      BY <1>2, <1>3 DEF EntryNow
    <2>2. FilesNow' = DirFiles \cup {o}
      BY <2>1, <1>4 DEF FilesNow, DirFiles
    <2>3. o \notin DirFiles
      BY <1>2 DEF DirFiles
    <2>4. \A i \in DirFiles \cup {o} : (EntryNow(i))'.first = IF i = o THEN g ELSE A[i]
      BY <2>1, <1>4 DEF DirFiles, DirStarts
    <2> QED
      BY <2>2, <2>3, <2>4 DEF Starts
  <1>11. /\ A \in [DirFiles -> Granule] /\ B \in [DirFiles \cup {o} -> Granule]
         /\ B[o] = g /\ \A i \in DirFiles : B[i] = A[i]
    <2>1. A \in [DirFiles -> Granule]
      BY <1>1, DirStartsType
    <2> HIDE DEF A, B
    <2> QED
      BY <2>1, <1>10
  <1> HIDE DEF A, B, h
  <1>12. /\ Chained(h, B) /\ Chain(h, g) = {g} /\ Ended(h, B, DirFiles \cup {o})
         /\ lost = "nothing" => Used(h, B)
    BY <1>2, <1>5, <1>6, <1>9, <1>10, <1>11, ChainsWithNew
  <1>13. Chains'
    BY <1>3, <1>7, <1>10, <1>12 DEF Chains, B
  <1>14. PathFat'
    <2>1. SameBut(s.fat, Chain(s.fat, s.entry.first))'
      BY <1>3, <1>4, <1>6, <1>12 DEF SameBut, h
    <2>2. \A c \in Taken(fat) : c \in Taken(h) /\ (h[c] >= 192 => fat[c] <= h[c])
      <3> SUFFICES ASSUME NEW c \in Granule, fat[c] # Free
                   PROVE  h[c] # Free /\ fat[c] <= h[c]
        BY DEF Taken
      <3>1. h[c] = fat[c] /\ fat[c] \in Int
        BY <1>2, <1>5, <1>6, Bytes DEF Fat
      <3> QED
        BY <3>1
    <2>3. (\A c \in Taken(fat) : c \in Taken(Base) /\ (Base[c] >= 192 => fat[c] <= Base[c]))'
      BY <1>3, <1>7, <2>2 DEF Taken
    <2> QED
      BY <1>2, <1>3, <1>4, <2>1, <2>3 DEF PathFat
  <1>15. Growing' /\ Writing'
    BY <1>2 DEF Growing, Writing
  <1>16. Others'
    BY <1>1, <1>3, <1>8 DEF Others, IsOpen
  <1>17. IsWhole(data, h, s'.entry)
    BY <1>4, <1>5, <1>6, NewIsWhole
  <1>18. Own' /\ OwnOnDisk'
    BY <1>2, <1>3, <1>7, <1>17 DEF Own, OwnOnDisk
  <1> QED
    BY <1>13, <1>14, <1>15, <1>16, <1>18 DEF Sound

LEMMA EraseSound ==
  ASSUME Sound, Types', Control', Erase
  PROVE  Sound'
  <1> DEFINE o == s.slot
             g == s.entry.first
             C == Chain(fat, g)
             h == s'.fat
             A == DirStarts
             B == Starts'
  <1>1. Types /\ Control /\ Jobs /\ PathFat /\ Chains /\ Others
    BY DEF Sound, Control
  <1>2. /\ s.pc = "erase" /\ s \in PathState /\ s.fat = fat /\ s.saved = fat
        /\ s.entry = dir[o] /\ s.entry.name # NoName /\ o \in Slot
    BY <1>1, PathTypes DEF Erase, PathFat, Control, PathEntry, Types
  <1>3. /\ fat' = fat /\ lost' = lost /\ torn' = torn \ {o}
        /\ dir' = [dir EXCEPT ![o] = NoEntry]
        /\ data' = [c \in Granule |-> IF c \in C THEN [x \in Offset |-> Forgotten] ELSE data[c]]
        /\ s' = [s EXCEPT !.pc = "putfat", !.fat = Freed(fat, C)]
    BY <1>2 DEF Erase
  <1>4. /\ s'.pc = "putfat" /\ s'.job = s.job /\ s'.saved = fat /\ h = Freed(fat, C)
        /\ s.job \in {"kill", "create"}
    BY <1>1, <1>2, <1>3 DEF PathState, Jobs
  <1>5. fat \in Fat /\ h \in Fat
    BY <1>1, PathTypes DEF Types, TypeOK, Fat
  <1>6. \A c \in Granule : h[c] = IF c \in C THEN Free ELSE fat[c]
    BY <1>4 DEF Freed
  <1>7. Base' = h
    BY <1>4 DEF Base, FatNow
  <1>8. /\ Chained(fat, A) /\ Ended(fat, A, DirFiles) /\ (lost = "nothing" => Used(fat, A))
    BY <1>1, <1>2, <1>4, ChainsOnDisk
  <1>9. /\ o \in DirFiles /\ A[o] = g /\ A \in [DirFiles -> Granule]
    BY <1>1, <1>2, DirStartsType DEF DirFiles, DirStarts
  <1>10. /\ FilesNow' = DirFiles \ {o} /\ B = [i \in DirFiles \ {o} |-> A[i]]
         /\ \A i \in Slot \ {o} : dir'[i] = dir[i]
         /\ dir'[o].name = NoName
    <2>1. dir \in [Slot -> Entry]
      BY <1>1, PathTypes
    <2>2. dir'[o].name = NoName /\ \A i \in Slot \ {o} : dir'[i] = dir[i]
      BY <1>2, <1>3, <2>1 DEF NoEntry
    <2>3. \A i \in Slot : (EntryNow(i))' = dir'[i]
      BY <1>4 DEF EntryNow
    <2>4. FilesNow' = DirFiles \ {o}
      BY <2>2, <2>3 DEF FilesNow, DirFiles
    <2>5. \A i \in DirFiles \ {o} : (EntryNow(i))'.first = A[i]
      BY <2>2, <2>3 DEF DirFiles, DirStarts
    <2> QED
      BY <2>2, <2>4, <2>5 DEF Starts
  <1>11. B \in [DirFiles \ {o} -> Granule] /\ \A i \in DirFiles \ {o} : B[i] = A[i]
    <2> HIDE DEF A, B
    <2> QED
      BY <1>9, <1>10
  <1> HIDE DEF A, B, h
  <1>12. /\ Chained(h, B) /\ Ended(h, B, DirFiles \ {o}) /\ (lost = "nothing" => Used(h, B))
    <2>1. \A c \in Granule : h[c] = IF c \in Chain(fat, A[o]) THEN Free ELSE fat[c]
      BY <1>6, <1>9
    <2> QED
      BY <2>1, <1>5, <1>8, <1>9, <1>11, ChainsWithout
  <1>13. Chains'
    BY <1>3, <1>7, <1>10, <1>12 DEF Chains, B
  <1>14. PathFat'
    BY <1>3, <1>4, <1>6 DEF PathFat, h
  <1>15. Growing' /\ Writing' /\ Own' /\ OwnOnDisk'
    BY <1>4 DEF Growing, Writing, Own, OwnOnDisk
  <1>16. Others'
    <2> SUFFICES ASSUME NEW i \in Slot \ torn, i # o, dir[i].name # NoName
                 PROVE  IsWhole(data', fat, dir[i])
      BY <1>3, <1>10 DEF Others
    <2>1. ~ IsOpen(i)
      BY <1>4 DEF IsOpen
    <2>2. /\ dir[i].first \in Granule /\ dir[i].last \in 0 .. Bps
          /\ ~ Endless(fat, dir[i].first) /\ fat[LastOf(fat, dir[i].first)] # Free
      BY <1>1, <2>1, OtherOnDisk
    <2>3. IsWhole(data, fat, dir[i])
      BY <1>1, <2>1 DEF Others
    <2>4. Chain(fat, dir[i].first) \cap C = {}
      <3>1. i \in DirFiles /\ A[i] = dir[i].first
        BY DEF A, DirFiles, DirStarts
      <3> QED
        BY <3>1, <1>8, <1>9 DEF Chained
    <2>5. \A c \in Chain(fat, dir[i].first) : data'[c] = data[c]
      BY <2>2, <2>4, <1>3, <1>5, ChainType
    <2> QED
      BY <2>2, <2>3, <2>5, <1>5, WholeAgain
  <1> QED
    BY <1>13, <1>14, <1>15, <1>16 DEF Sound
-----------------------------------------------------------------------------
(* The steps that write data *)

(* Only a granule of the open file changes. *)
LEMMA DataWrittenSound ==
  ASSUME Sound, Types', Control', s.pc = "data", s'.pc \in {"data", "entry", "open"},
         s'.job = "file", s'.slot = s.slot, s'.entry = s.entry, s'.fat = s.fat,
         s'.saved = s.saved, fat' = fat, dir' = dir, lost' = lost, torn \subseteq torn',
         \A c \in Granule \ {s.cur} : data'[c] = data[c],
         Writing', Own', OwnOnDisk'
  PROVE  Sound'
  <1>1. Types /\ Control /\ Jobs /\ PathFat /\ Chains /\ Others /\ Writing /\ PathEntry
    BY DEF Sound, Control
  <1>2. s.job = "file" /\ Base = s.fat /\ Base' = s.fat
    BY <1>1 DEF Base, FatNow, Jobs
  <1>3. FilesNow' = FilesNow /\ Starts' = Starts
    BY <1>1, <1>2, SameStarts
  <1>4. Chains'
    BY <1>1, <1>2, <1>3 DEF Chains
  <1>5. PathFat'
    <2>1. SameBut(s.fat, Chain(s.fat, s.entry.first)) /\ s.saved = fat
      BY <1>1, <1>2 DEF PathFat
    <2>2. \A g \in Taken(fat) : g \in Taken(Base) /\ (Base[g] >= 192 => fat[g] <= Base[g])
      BY <1>1, <1>2 DEF PathFat
    <2>3. s'.pc \notin {"idle", "create", "kill", "erase", "grow", "putfat", "newentry"}
      OBVIOUS
    <2> QED
      BY <1>2, <2>1, <2>2, <2>3 DEF PathFat, SameBut, Taken
  <1>6. Growing'
    BY DEF Growing
  <1>7. s.cur \in Chain(s.fat, s.entry.first)
    <2>1. s.cur = Walk(s.fat, s.entry.first)[s.pos \div GranuleSize]
          /\ s.pos \div GranuleSize \in 0 .. EndOf(s.fat, s.entry.first)
      BY <1>1, RoundIs
    <2>2. Shape(s.fat, s.entry.first, EndOf(s.fat, s.entry.first))
      BY <1>1, <1>2, OwnFile, OwnChain, PathTypes, ChainShape
    <2> QED
      BY <2>1, <2>2 DEF Shape
  <1>8. Others'
    <2> SUFFICES ASSUME NEW i \in Slot \ torn, dir[i].name # NoName, ~ IsOpen(i)
                 PROVE  IsWhole(data', fat, dir[i])
      BY <1>2 DEF Others, IsOpen
    <2>1. /\ dir[i].first \in Granule /\ dir[i].last \in 0 .. Bps /\ fat \in Fat
          /\ ~ Endless(fat, dir[i].first) /\ fat[LastOf(fat, dir[i].first)] # Free
          /\ Chain(fat, dir[i].first) \cap Chain(Base, s.entry.first) = {}
      BY <1>1, <1>2, OtherOnDisk, PathTypes
    <2>2. \A c \in Chain(fat, dir[i].first) : data'[c] = data[c]
      BY <1>2, <1>7, <2>1, ChainType
    <2>3. IsWhole(data, fat, dir[i])
      BY <1>1 DEF Others
    <2> QED
      BY <2>1, <2>2, <2>3, WholeAgain
  <1> QED
    BY <1>4, <1>5, <1>6, <1>8 DEF Sound

(* A round of the loop keeps what is right, and makes right what it writes. *)
LEMMA RoundWrites ==
  ASSUME Types, Jobs, PathEntry, Chains, Writing, PutGranule,
         NEW f \in Fat, NEW g \in Granule, ~ Endless(f, g),
         s.cur = Walk(f, g)[s.pos \div GranuleSize],
         s.pos \div GranuleSize \in 0 .. EndOf(f, g),
         NEW r \in Nat, r \div GranuleSize \in 0 .. EndOf(f, g)
  PROVE  /\ IsRight(data, f, g, r) => IsRight(data', f, g, r)
         /\ s.pos <= r /\ r < s.pos + RoundSize => IsRight(data', f, g, r)
  <1> DEFINE p == s.pos
             n == RoundSize
             x == s.cur
  <1>1. s.pc = "data" /\ data' = [data EXCEPT ![x] = Filled(x, p, n)]
    BY DEF PutGranule
  <1>2. n \in Nat /\ (p % GranuleSize) + n <= GranuleSize /\ x \in Granule
    BY <1>1, RoundIs
  <1>3. p \in Nat
    BY PathTypes, DecbAssumption
  <1>4. data \in [Granule -> [Offset -> Forgotten .. (MaxSize - 1)]]
    BY DEF Types, TypeOK
  <1>5. data'[x] = Filled(x, p, n) /\ \A c \in Granule \ {x} : data'[c] = data[c]
    BY <1>1, <1>2, <1>4
  <1>6. Puts(data, data', x, p, n)
    BY <1>5 DEF Filled, Puts
  <1>7. x = Walk(f, g)[p \div GranuleSize] /\ p \div GranuleSize \in 0 .. EndOf(f, g)
    OBVIOUS
  <1> HIDE DEF p, n, x
  <1> QED
    BY <1>2, <1>3, <1>6, <1>7, Filling DEF p, n

LEMMA PutGranuleSound ==
  ASSUME Sound, Types', Control', PutGranule
  PROVE  Sound'
  <1> DEFINE f == s.fat
             g == s.entry.first
             n == RoundSize
  <1>1. /\ Types /\ Control /\ Jobs /\ PathEntry /\ PathFat /\ Chains /\ Writing /\ Own
        /\ OwnOnDisk /\ s \in PathState
    BY DEF Sound, Control, Types
  <1>2. s.pc = "data" /\ s.job = "file" /\ Base = f /\ Base' = s'.fat
        /\ fat' = fat /\ dir' = dir /\ torn' = torn /\ lost' = lost
    <2>1. s.pc = "data" /\ fat' = fat /\ dir' = dir /\ torn' = torn /\ lost' = lost
      BY DEF PutGranule
    <2>2. s'.pc # "grow" /\ s'.pc \notin {"idle", "create", "kill"}
      BY <1>1, <2>1 DEF PutGranule, PathState
    <2> QED
      BY <1>1, <2>1, <2>2 DEF Jobs, Base, FatNow
  <1>3. /\ n \in Nat \ {0} /\ s.pos + n <= s.goal
        /\ s.pos \div GranuleSize \in 0 .. EndOf(f, g)
        /\ s.cur = Walk(f, g)[s.pos \div GranuleSize] /\ s.cur \in Granule
        /\ s.pos + n # s.goal =>
             f[s.cur] = Walk(f, g)[(s.pos + n) \div GranuleSize]
    BY <1>1, <1>2, RoundIs
  <1>4. /\ s'.job = "file" /\ s'.slot = s.slot /\ s'.entry = s.entry /\ s'.fat = f
        /\ s'.saved = s.saved /\ s'.pc \in {"entry", "data"}
        /\ s'.pc = "entry" => s.pos + n = s.goal
        /\ s'.pc = "data" => /\ s.pos + n # s.goal /\ s'.pos = s.pos + n /\ s'.goal = s.goal
                             /\ s'.cur = f[s.cur]
    BY <1>1, <1>2 DEF PutGranule, PathState
  <1>5. s.pos \in Nat /\ s.goal \in Nat
    BY <1>1, PathTypes, DecbAssumption
  <1>6. /\ f \in Fat /\ fat \in Fat /\ g \in Granule /\ s.entry.last \in 0 .. Bps
        /\ ~ Endless(f, g) /\ f[LastOf(f, g)] # Free
    BY <1>1, <1>2, PathTypes, OwnFile, OwnChain
  <1>7. \A c \in Granule \ {s.cur} : data'[c] = data[c]
    BY <1>1 DEF PutGranule, Types, TypeOK
  <1>8. s.goal <= FileSize(f, s.entry)
    BY <1>1, <1>2 DEF Writing
  <1>9. Writing'
    <2>1. s'.pc = "data" => s'.pos < s'.goal
      BY <1>3, <1>4, <1>5
    <2> QED
      BY <2>1, <1>3, <1>4, <1>8 DEF Writing
  <1>10. ASSUME s.slot \notin torn, NEW r \in 0 .. (FileSize(f, s.entry) - 1),
                r < s.pos + n \/ r >= s.goal
         PROVE  IsRight(data', f, g, r)
    <2>1. r \in Nat /\ r \div GranuleSize \in 0 .. EndOf(f, g)
      BY <1>6, PositionInChain, FileSizeIs
    <2>2. CASE r < s.pos \/ r >= s.goal
      <3>1. IsRight(data, f, g, r)
        BY <1>1, <1>2, <1>10, <2>2 DEF Own, IsWholeBut
      <3> QED
        BY <3>1, <2>1, <1>1, <1>3, <1>6, RoundWrites
    <2>3. CASE s.pos <= r /\ r < s.pos + n
      BY <2>1, <2>3, <1>1, <1>3, <1>6, RoundWrites
    <2> QED
      BY <2>1, <2>2, <2>3, <1>5, <1>10
  <1>11. Own'
    <2>1. ASSUME s.slot \notin torn, s'.pc = "data"
          PROVE  IsWholeBut(data', f, s.entry, s.pos + n, s.goal)
      BY <1>10, <2>1 DEF IsWholeBut
    <2>2. ASSUME s.slot \notin torn, s'.pc = "entry" PROVE IsWhole(data', f, s.entry)
      <3> SUFFICES ASSUME NEW r \in 0 .. (FileSize(f, s.entry) - 1)
                   PROVE  IsRight(data', f, g, r)
        BY DEF IsWhole
      <3>1. r < s.pos + n \/ r >= s.goal
        BY <2>2, <1>4, <1>5
      <3> QED
        BY <3>1, <2>2, <1>10
    <2> QED
      BY <2>1, <2>2, <1>2, <1>4 DEF Own
  <1>12. OwnOnDisk'
    <2> SUFFICES ASSUME s.slot \notin torn, f = fat
                 PROVE  IsWhole(data', fat, dir[s.slot])
      BY <1>2, <1>4 DEF OwnOnDisk
    <2> DEFINE e == dir[s.slot]
    <2>1. e.first = g /\ e.last \in 0 .. Bps
      BY <1>1, <1>2, PathTypes, DirStartsType DEF PathEntry
    <2>2. IsWhole(data, fat, e)
      BY <1>1, <1>2 DEF OwnOnDisk
    <2> HIDE DEF e
    <2>3. ASSUME NEW r \in 0 .. (FileSize(f, e) - 1) PROVE IsRight(data', f, g, r)
      <3>1. r \in Nat /\ r \div GranuleSize \in 0 .. EndOf(f, g)
        BY <1>6, <2>1, PositionInChain, FileSizeIs
      <3>2. IsRight(data, f, g, r)
        BY <2>1, <2>2 DEF IsWhole
      <3> QED
        BY <3>1, <3>2, <1>1, <1>3, <1>6, RoundWrites
    <2> QED
      BY <2>1, <2>3 DEF IsWhole, e
  <1> QED
    BY <1>2, <1>4, <1>7, <1>9, <1>11, <1>12, DataWrittenSound

LEMMA PutGranuleFailsSound ==
  ASSUME Sound, Types', Control', PutGranuleFails
  PROVE  Sound'
  <1>1. s \in PathState /\ Jobs
    BY DEF Sound, Types, Control
  <1>2. /\ s.pc = "data" /\ fat' = fat /\ dir' = dir /\ lost' = lost
        /\ torn' = torn \cup {s.slot}
    BY DEF PutGranuleFails
  <1>3. /\ s'.job = "file" /\ s'.slot = s.slot /\ s'.entry = s.entry /\ s'.fat = s.fat
        /\ s'.saved = s.saved /\ s'.pc = "open"
    BY <1>1, <1>2 DEF PutGranuleFails, PathState, Jobs
  <1>4. \A c \in Granule \ {s.cur} : data'[c] = data[c]
    BY DEF PutGranuleFails, Sound, Types, TypeOK
  <1>5. Writing' /\ Own' /\ OwnOnDisk'
    BY <1>2, <1>3 DEF Writing, Own, OwnOnDisk
  <1> QED
    BY <1>2, <1>3, <1>4, <1>5, DataWrittenSound
-----------------------------------------------------------------------------
(* The steps that extend a chain *)

(* What a write that needs more granules starts from: the chain as it is,   *)
(* and the one the file has until the write has the granules.               *)
LEMMA GrowingChain ==
  ASSUME Sound, s.pc = "grow"
  PROVE  /\ s.job = "file" /\ Base = s.undo
         /\ s.fat \in Fat /\ s.undo \in Fat /\ fat \in Fat /\ s.entry.first \in Granule
         /\ s.entry.last \in 0 .. Bps /\ s.cur \in Granule /\ s.pos \in Nat /\ s.goal \in Nat
         /\ s.slot \in FilesNow /\ Starts[s.slot] = s.entry.first
         /\ Starts \in [FilesNow -> Granule]
         /\ ~ Endless(s.fat, s.entry.first) /\ \A c \in Chain(s.fat, s.entry.first) : s.fat[c] # Free
         /\ s.cur = LastOf(s.fat, s.entry.first) /\ s.cur \in Chain(s.fat, s.entry.first)
         /\ EndOf(s.fat, s.entry.first) \in Nat /\ SizeBefore(s.fat, s.entry.first) \in Nat
         /\ ~ Endless(s.undo, s.entry.first)
         /\ s.undo[LastOf(s.undo, s.entry.first)] # Free
         /\ s.undo[LastOf(s.undo, s.entry.first)] >= Last(1)
         /\ EndOf(s.undo, s.entry.first) \in Nat /\ FileSize(s.undo, s.entry) \in Nat
  <1> DEFINE a == s.entry.first
  <1>1. Types /\ Jobs /\ PathEntry /\ Chains /\ Growing /\ Writing
    BY DEF Sound, Control
  <1>2. s.job = "file" /\ Base = s.undo
    BY <1>1 DEF Jobs, Base
  <1>3. /\ s.fat \in Fat /\ s.undo \in Fat /\ fat \in Fat /\ s.cur \in Granule
        /\ s.pos \in Nat /\ s.goal \in Nat
    BY <1>1, PathTypes, DecbAssumption
  <1>4. /\ a \in Granule /\ s.entry.last \in 0 .. Bps /\ s.slot \in FilesNow /\ Starts[s.slot] = a
        /\ Starts \in [FilesNow -> Granule]
    BY <1>1, <1>2, OwnFile, StartsType
  <1>5. ~ Endless(s.fat, a) /\ \A c \in Chain(s.fat, a) : s.fat[c] # Free
    BY <1>1, <1>4 DEF Growing, Chained
  <1>6. s.cur = LastOf(s.fat, a) /\ s.cur \in Chain(s.fat, a)
    BY <1>1, <1>3, <1>4, ChainType DEF Writing
  <1>7. s.fat[LastOf(s.fat, a)] # Free
    BY <1>5, <1>6
  <1>8. EndOf(s.fat, a) \in Nat /\ SizeBefore(s.fat, a) \in Nat
    BY <1>3, <1>4, <1>5, <1>7, FileSizeIs
  <1>9. /\ ~ Endless(s.undo, a) /\ s.undo[LastOf(s.undo, a)] # Free
        /\ s.undo[LastOf(s.undo, a)] >= Last(1)
    BY <1>1, <1>2, OwnChain
  <1>10. EndOf(s.undo, a) \in Nat /\ FileSize(s.undo, s.entry) \in Nat
    BY <1>3, <1>4, <1>9, FileSizeIs
  <1> QED
    BY <1>2, <1>3, <1>4, <1>5, <1>6, <1>8, <1>9, <1>10

LEMMA GrowSound ==
  ASSUME Sound, Types', Control', Grow
  PROVE  Sound'
  <1> DEFINE f == s.fat
             h == s'.fat
             a == s.entry.first
             l == s.cur
             m == EndOf(f, a)
  <1>1. /\ Types /\ Control /\ PathFat /\ Chains /\ Growing /\ Writing /\ Others /\ Own
        /\ OwnOnDisk /\ s \in PathState
    BY DEF Sound, Types
  <1>2. s.pc = "grow" /\ s.goal > Room
        /\ fat' = fat /\ dir' = dir /\ data' = data /\ torn' = torn /\ lost' = lost
    BY DEF Grow
  <1>3. PICK x \in Granule :
          /\ f[x] = Free
          /\ s' = [s EXCEPT !.fat = [s.fat EXCEPT ![s.cur] = x, ![x] = Last(0)], !.cur = x]
    BY DEF Grow, IsNearestFree
  <1>4. /\ s'.pc = "grow" /\ s'.job = s.job /\ s'.slot = s.slot /\ s'.entry = s.entry
        /\ s'.saved = s.saved /\ s'.undo = s.undo /\ s'.pos = s.pos /\ s'.goal = s.goal
        /\ s'.cur = x /\ h = [s.fat EXCEPT ![s.cur] = x, ![x] = Last(0)]
    BY <1>1, <1>2, <1>3 DEF PathState
  <1>5. /\ s.job = "file" /\ Base = s.undo /\ Base' = s.undo
        /\ f \in Fat /\ s.undo \in Fat /\ a \in Granule /\ l \in Granule
        /\ s.goal \in Nat /\ s.pos \in Nat
        /\ s.slot \in FilesNow /\ Starts[s.slot] = a /\ Starts \in [FilesNow -> Granule]
        /\ ~ Endless(f, a) /\ \A c \in Chain(f, a) : f[c] # Free
        /\ l = LastOf(f, a) /\ l \in Chain(f, a) /\ m \in Nat /\ SizeBefore(f, a) \in Nat
        /\ EndOf(s.undo, a) \in Nat
    BY <1>2, <1>4, GrowingChain DEF Base
  <1>6. x \notin Chain(f, a) /\ x # l
    BY <1>3, <1>5
  <1>7. h \in Fat
    BY DEF Types, TypeOK, Fat
  <1>8. h[l] = x /\ h[x] = Last(0) /\ \A c \in Granule \ {l, x} : h[c] = f[c]
    BY <1>3, <1>4, <1>5, <1>6 DEF Fat
  <1> HIDE DEF f, h, a, l, m
  <1>9. /\ ~ Endless(h, a) /\ Chain(h, a) = Chain(f, a) \cup {x} /\ LastOf(h, a) = x
        /\ EndOf(h, a) = m + 1 /\ \A k \in 0 .. m : Walk(h, a)[k] = Walk(f, a)[k]
    BY <1>3, <1>5, <1>6, <1>7, <1>8, AppendedShape DEF m
  <1>10. FilesNow' = FilesNow /\ Starts' = Starts
    BY <1>1, <1>2, <1>4, <1>5, SameStarts
  <1>11. Chains'
    BY <1>1, <1>2, <1>5, <1>10 DEF Chains
  <1>12. Growing'
    <2>1. Chained(f, Starts) /\ Ended(f, Starts, FilesNow \ {s.slot})
          /\ (lost = "nothing" => Used(f, Starts))
      BY <1>1, <1>2 DEF Growing, f
    <2>2. h[LastOf(f, Starts[s.slot])] = x /\ h[x] = Last(0)
          /\ \A c \in Granule \ {LastOf(f, Starts[s.slot]), x} : h[c] = f[c]
      BY <1>5, <1>8
    <2>3. /\ Chained(h, Starts) /\ Ended(h, Starts, FilesNow \ {s.slot})
          /\ (lost = "nothing" => Used(h, Starts))
      BY <2>1, <2>2, <1>3, <1>5, <1>7, ChainsWithMore
    <2> QED
      BY <2>3, <1>2, <1>4, <1>10 DEF Growing, h
  <1>13. PathFat'
    <2>1. /\ s.saved = fat /\ SameBut(f, Chain(f, a)) /\ SameBut(s.undo, Chain(s.undo, a))
          /\ Taken(s.undo) \subseteq Taken(f)
          /\ \A c \in Taken(fat) : c \in Taken(s.undo) /\ (s.undo[c] >= 192 => fat[c] <= s.undo[c])
      BY <1>1, <1>2, <1>5 DEF PathFat, f, a
    <2>2. SameBut(h, Chain(h, a))
      BY <2>1, <1>5, <1>8, <1>9 DEF SameBut
    <2>3. Taken(f) \subseteq Taken(h)
      <3>1. x # Free /\ Last(0) # Free
        BY Bytes DEF Last, Free
      <3> QED
        BY <3>1, <1>8 DEF Taken
    <2>4. x \notin Taken(s.undo)
      BY <2>1, <1>3 DEF Taken
    <2>5. s'.entry.first = a /\ s'.fat = h
      BY <1>4 DEF a, h
    <2>6. SameBut(s.fat, Chain(s.fat, s.entry.first))'
      BY <2>2, <2>5, <1>2 DEF SameBut
    <2>7. SameBut(s.undo, Chain(s.undo, s.entry.first))'
      BY <2>1, <2>5, <1>2, <1>4 DEF SameBut
    <2>8. (\A c \in Taken(fat) : c \in Taken(Base) /\ (Base[c] >= 192 => fat[c] <= Base[c]))'
      BY <2>1, <1>2, <1>5 DEF Taken
    <2>9. (/\ Taken(s.undo) \subseteq Taken(s.fat)
           /\ s.undo = s.fat \/ s.cur \notin Taken(s.undo))'
      BY <2>1, <2>3, <2>4, <2>5, <1>4 DEF Taken
    <2> QED
      BY <2>1, <2>6, <2>7, <2>8, <2>9, <1>2, <1>4, <1>5 DEF PathFat
  <1>14. Writing'
    <2>1. /\ s.pos <= FileSize(s.undo, s.entry) /\ FileSize(s.undo, s.entry) < s.goal
          /\ EndOf(s.undo, a) <= m
          /\ \A k \in 0 .. EndOf(s.undo, a) : Walk(f, a)[k] = Walk(s.undo, a)[k]
      BY <1>1, <1>2 DEF Writing, a, f, m
    <2>2. SizeBefore(h, a) < s.goal
      <3>1. Room = SizeBefore(f, a) + GranuleSize
        BY DEF Room, a, f
      <3>2. SizeBefore(h, a) = GranuleSize * (m + 1) /\ SizeBefore(f, a) = GranuleSize * m
        BY <1>9 DEF SizeBefore, m
      <3>3. GranuleSize * (m + 1) = GranuleSize * m + GranuleSize
        BY <1>5, GranuleSizeIs
      <3>4. Room \in Int /\ Room < s.goal
        BY <3>1, <1>2, <1>5, GranuleSizeIs
      <3> QED
        BY <3>1, <3>2, <3>3, <3>4
    <2>3. EndOf(s.undo, a) <= EndOf(h, a)
      BY <2>1, <1>5, <1>9
    <2>4. \A k \in 0 .. EndOf(s.undo, a) : Walk(h, a)[k] = Walk(s.undo, a)[k]
      <3> SUFFICES ASSUME NEW k \in 0 .. EndOf(s.undo, a)
                   PROVE  Walk(h, a)[k] = Walk(s.undo, a)[k]
        OBVIOUS
      <3>1. k \in 0 .. m
        BY <2>1, <1>5
      <3> QED
        BY <3>1, <2>1, <1>9
    <2>5. s'.entry.first = a /\ s'.fat = h
      BY <1>4 DEF a, h
    <2> QED
      BY <2>1, <2>2, <2>3, <2>4, <2>5, <1>4, <1>9 DEF Writing
  <1>15. Others' /\ Own' /\ OwnOnDisk'
    BY <1>1, <1>2, <1>4, <1>5 DEF Others, Own, OwnOnDisk, IsOpen
  <1> QED
    BY <1>11, <1>12, <1>13, <1>14, <1>15 DEF Sound

(* What the last step of extending a chain leaves in the path: the file has *)
(* the size that the write goes to.                                         *)
LastUsed == s.goal - SizeBefore(s.fat, s.entry.first)

LEMMA GrownIs ==
  ASSUME Sound, Types', Grown
  PROVE  /\ s.pc = "grow"
         /\ fat' = fat /\ dir' = dir /\ data' = data /\ torn' = torn /\ lost' = lost
         /\ s'.pc = "data" /\ s'.job = "file" /\ s'.slot = s.slot
         /\ s'.saved = s.saved /\ s'.pos = s.pos /\ s'.goal = s.goal
         /\ s'.cur = Walk(s'.fat, s.entry.first)[s.pos \div GranuleSize]
         /\ s'.entry.name = s.entry.name /\ s'.entry.first = s.entry.first
         /\ s'.entry.last = BytesInLastSector(LastUsed)
         /\ s'.fat \in Fat /\ s'.fat[s.cur] = LastFor(LastUsed)
         /\ \A c \in Granule \ {s.cur} : s'.fat[c] = s.fat[c]
         /\ LastUsed \in 1 .. GranuleSize
         /\ SizeBefore(s.fat, s.entry.first) + LastUsed = s.goal
         /\ LastFor(LastUsed) \in Byte /\ LastFor(LastUsed) >= Last(1)
         /\ LastFor(LastUsed) # Free /\ LastFor(LastUsed) >= 192
         /\ BytesInLastSector(LastUsed) \in 0 .. Bps
         /\ ~ Endless(s'.fat, s.entry.first)
         /\ Walk(s'.fat, s.entry.first) = Walk(s.fat, s.entry.first)
         /\ Chain(s'.fat, s.entry.first) = Chain(s.fat, s.entry.first)
         /\ LastOf(s'.fat, s.entry.first) = s.cur
         /\ EndOf(s'.fat, s.entry.first) = EndOf(s.fat, s.entry.first)
         /\ FileSize(s'.fat, s'.entry) = s.goal
  <1> DEFINE f == s.fat
             h == s'.fat
             a == s.entry.first
             l == s.cur
             u == LastUsed
             e == s'.entry
  <1>1. Types /\ Writing /\ s \in PathState
    BY DEF Sound, Types
  <1>2. s.pc = "grow" /\ s.goal <= Room
        /\ fat' = fat /\ dir' = dir /\ data' = data /\ torn' = torn /\ lost' = lost
        /\ s' = [s EXCEPT !.pc = "data", !.fat = [s.fat EXCEPT ![s.cur] = LastFor(u)],
                          !.undo = NoFat, !.entry.last = BytesInLastSector(u),
                          !.cur = GranuleAt(s, [s.fat EXCEPT ![s.cur] = LastFor(u)])]
    BY DEF Grown, LastUsed
  <1>3. /\ s'.pc = "data" /\ s'.job = s.job /\ s'.slot = s.slot
        /\ s'.saved = s.saved /\ s'.pos = s.pos /\ s'.goal = s.goal
        /\ h = [s.fat EXCEPT ![s.cur] = LastFor(u)]
        /\ s'.cur = Walk(h, a)[s.pos \div GranuleSize]
        /\ e = [s.entry EXCEPT !.last = BytesInLastSector(u)]
    BY <1>1, <1>2 DEF PathState, GranuleAt
  <1>4. e.name = s.entry.name /\ e.first = a /\ e.last = BytesInLastSector(u)
    BY <1>1, <1>3, PathTypes, EntryType
  <1>5. /\ s.job = "file" /\ Base = s.undo /\ Base' = h
        /\ f \in Fat /\ s.undo \in Fat /\ fat \in Fat /\ a \in Granule /\ l \in Granule
        /\ s.goal \in Nat /\ s.pos \in Nat /\ s.entry.last \in 0 .. Bps
        /\ s.slot \in FilesNow /\ Starts[s.slot] = a /\ Starts \in [FilesNow -> Granule]
        /\ ~ Endless(f, a) /\ \A c \in Chain(f, a) : f[c] # Free
        /\ l = LastOf(f, a) /\ l \in Chain(f, a)
        /\ EndOf(f, a) \in Nat /\ SizeBefore(f, a) \in Nat
        /\ ~ Endless(s.undo, a) /\ EndOf(s.undo, a) \in Nat /\ FileSize(s.undo, s.entry) \in Nat
        /\ s.undo[LastOf(s.undo, a)] # Free /\ s.undo[LastOf(s.undo, a)] >= Last(1)
    BY <1>2, <1>3, GrowingChain DEF Base, FatNow
  <1>6. u \in 1 .. GranuleSize /\ SizeBefore(f, a) + u = s.goal
    <2>1. SizeBefore(f, a) < s.goal /\ s.goal <= SizeBefore(f, a) + GranuleSize
      BY <1>1, <1>2 DEF Writing, Room
    <2> QED
      BY <2>1, <1>5, GranuleSizeIs DEF LastUsed
  <1>7. h \in Fat /\ h[l] = LastFor(u) /\ \A c \in Granule \ {l} : h[c] = f[c]
    <2>1. h \in Fat
      BY DEF Types, TypeOK, Fat
    <2> QED
      BY <2>1, <1>3, <1>5 DEF Fat
  <1> HIDE DEF f, h, a, l, u, e
  <1>8. /\ LastFor(u) \in Byte /\ LastFor(u) >= Last(1) /\ LastFor(u) # Free
        /\ LastFor(u) >= 192
        /\ BytesInLastSector(u) \in 0 .. Bps
        /\ UsedInLast(LastFor(u), BytesInLastSector(u)) = u
    <2>1. /\ LastFor(u) \in Byte /\ LastFor(u) >= Last(1) /\ LastFor(u) # Free
          /\ BytesInLastSector(u) \in 0 .. Bps
          /\ UsedInLast(LastFor(u), BytesInLastSector(u)) = u
      BY <1>6, LastForIs
    <2> QED
      BY <2>1, Bytes DEF Last
  <1>9. /\ ~ Endless(h, a) /\ Walk(h, a) = Walk(f, a) /\ Chain(h, a) = Chain(f, a)
        /\ LastOf(h, a) = l /\ EndOf(h, a) = EndOf(f, a)
    BY <1>5, <1>7, <1>8, MarkedShape
  <1>10. FileSize(h, e) = s.goal
    <2>1. FileSize(h, e) = SizeBefore(h, a) + UsedInLast(h[l], e.last)
      <3>1. e.first = a /\ e.last \in 0 .. Bps /\ h[LastOf(h, a)] # Free
            /\ h[LastOf(h, a)] >= Last(1)
        BY <1>4, <1>7, <1>8, <1>9
      <3> QED
        BY <3>1, <1>5, <1>7, <1>9, FileSizeIs
    <2>2. SizeBefore(h, a) = SizeBefore(f, a)
      BY <1>9 DEF SizeBefore
    <2> QED
      BY <2>1, <2>2, <1>4, <1>6, <1>7, <1>8
  <1> QED
    BY <1>2, <1>3, <1>4, <1>5, <1>6, <1>7, <1>8, <1>9, <1>10 DEF f, h, a, l, u, e

LEMMA GrownSound ==
  ASSUME Sound, Types', Control', Grown
  PROVE  Sound'
  <1> DEFINE f == s.fat
             h == s'.fat
             a == s.entry.first
             l == s.cur
             u == LastUsed
             e == s'.entry
  <1>1. /\ Types /\ Control /\ PathFat /\ Chains /\ Growing /\ Writing /\ Others /\ Own
        /\ OwnOnDisk /\ s \in PathState
    BY DEF Sound, Types
  <1>2. s.pc = "grow" /\ s.goal <= Room
        /\ fat' = fat /\ dir' = dir /\ data' = data /\ torn' = torn /\ lost' = lost
    BY DEF Grown
  <1>3. /\ s'.pc = "data" /\ s'.job = s.job /\ s'.slot = s.slot
        /\ s'.saved = s.saved /\ s'.pos = s.pos /\ s'.goal = s.goal
        /\ s'.cur = Walk(h, a)[s.pos \div GranuleSize]
    BY <1>2, GrownIs, GrowingChain
  <1>4. e.name = s.entry.name /\ e.first = a /\ e.last = BytesInLastSector(u)
    BY GrownIs
  <1>5. /\ s.job = "file" /\ Base = s.undo /\ Base' = h
        /\ f \in Fat /\ s.undo \in Fat /\ fat \in Fat /\ a \in Granule /\ l \in Granule
        /\ s.goal \in Nat /\ s.pos \in Nat /\ s.entry.last \in 0 .. Bps
        /\ s.slot \in FilesNow /\ Starts[s.slot] = a /\ Starts \in [FilesNow -> Granule]
        /\ ~ Endless(f, a) /\ \A c \in Chain(f, a) : f[c] # Free
        /\ l = LastOf(f, a) /\ l \in Chain(f, a)
        /\ EndOf(f, a) \in Nat /\ SizeBefore(f, a) \in Nat
        /\ ~ Endless(s.undo, a) /\ EndOf(s.undo, a) \in Nat /\ FileSize(s.undo, s.entry) \in Nat
        /\ s.undo[LastOf(s.undo, a)] # Free /\ s.undo[LastOf(s.undo, a)] >= Last(1)
    BY <1>2, <1>3, GrowingChain DEF Base, FatNow
  <1>6. u \in 1 .. GranuleSize /\ SizeBefore(f, a) + u = s.goal
    BY GrownIs
  <1>7. h \in Fat /\ h[l] = LastFor(u) /\ \A c \in Granule \ {l} : h[c] = f[c]
    BY GrownIs
  <1>8. /\ LastFor(u) \in Byte /\ LastFor(u) >= Last(1) /\ LastFor(u) # Free
        /\ LastFor(u) >= 192 /\ BytesInLastSector(u) \in 0 .. Bps
    BY GrownIs
  <1>9. /\ ~ Endless(h, a) /\ Walk(h, a) = Walk(f, a) /\ Chain(h, a) = Chain(f, a)
        /\ LastOf(h, a) = l /\ EndOf(h, a) = EndOf(f, a) /\ FileSize(h, e) = s.goal
    BY GrownIs
  <1> HIDE DEF f, h, a, l, u, e
  <1>10. FilesNow' = FilesNow /\ Starts' = Starts
    BY <1>1, <1>2, <1>3, <1>4, <1>5, SameStarts DEF a, e
  <1>11. Chains'
    <2>1. Chained(f, Starts) /\ Ended(f, Starts, FilesNow \ {s.slot})
          /\ (lost = "nothing" => Used(f, Starts))
      BY <1>1, <1>2 DEF Growing, f
    <2>2. h[LastOf(f, Starts[s.slot])] >= Last(1) /\ h[LastOf(f, Starts[s.slot])] # Free
          /\ \A c \in Granule \ {LastOf(f, Starts[s.slot])} : h[c] = f[c]
      BY <1>5, <1>7, <1>8
    <2>3. /\ Chained(h, Starts) /\ Ended(h, Starts, FilesNow)
          /\ (lost = "nothing" => Used(h, Starts))
      BY <2>1, <2>2, <1>5, <1>7, ChainsWithMark
    <2> QED
      BY <2>3, <1>2, <1>5, <1>10 DEF Chains
  <1>12. /\ s.pos <= FileSize(s.undo, s.entry) /\ FileSize(s.undo, s.entry) < s.goal
         /\ EndOf(s.undo, a) <= EndOf(f, a)
         /\ \A k \in 0 .. EndOf(s.undo, a) : Walk(f, a)[k] = Walk(s.undo, a)[k]
    BY <1>1, <1>2 DEF Writing, a, f
  <1>13. /\ s.saved = fat /\ SameBut(f, Chain(f, a))
         /\ Taken(s.undo) \subseteq Taken(f) /\ (s.undo = f \/ l \notin Taken(s.undo))
         /\ \A c \in Taken(fat) : c \in Taken(s.undo) /\ (s.undo[c] >= 192 => fat[c] <= s.undo[c])
    BY <1>1, <1>2, <1>5 DEF PathFat, f, a, l
  <1>14. l \in Taken(fat) => s.undo = f /\ fat[l] <= f[l] /\ f[l] <= h[l]
    <2> SUFFICES ASSUME l \in Taken(fat)
                 PROVE  s.undo = f /\ fat[l] <= f[l] /\ f[l] <= h[l]
      OBVIOUS
    <2>1. s.undo = f
      BY <1>13
    <2>2. f[l] >= Last(1) /\ f[l] # Free /\ f[l] \in Byte
      BY <2>1, <1>5 DEF Fat
    <2>3. FileSize(f, s.entry) = SizeBefore(f, a) + UsedInLast(f[l], s.entry.last)
      BY <2>2, <1>5, FileSizeIs DEF a
    <2>4. UsedInLast(f[l], s.entry.last) < u
      <3>1. UsedInLast(f[l], s.entry.last) \in Int
        BY <2>2, <1>5, UsedInLastIs
      <3> QED
        BY <3>1, <2>1, <2>3, <1>5, <1>6, <1>12
    <2>5. f[l] <= LastFor(u)
      BY <2>2, <2>4, <1>5, <1>6, MarkGrows
    <2>6. f[l] >= 192
      BY <2>2, Bytes DEF Last
    <2> QED
      BY <2>1, <2>5, <2>6, <1>7, <1>13
  <1>15. PathFat'
    <2>1. SameBut(h, Chain(h, a))
      BY <1>5, <1>7, <1>9, <1>13 DEF SameBut
    <2>2. ASSUME NEW c \in Taken(fat) PROVE c \in Taken(h) /\ (h[c] >= 192 => fat[c] <= h[c])
      <3>0. \A g \in Granule : fat[g] \in Int /\ f[g] \in Int /\ h[g] \in Int
        <4>1. \A v \in Byte : v \in Int
          BY Bytes
        <4> QED
          BY <4>1, <1>5, <1>7 DEF Fat
      <3>1. c \in Granule /\ fat[c] \in Int /\ f[c] # Free
        <4>1. c \in Granule /\ c \in Taken(s.undo)
          BY <2>2, <1>13 DEF Taken
        <4>2. c \in Taken(f)
          BY <4>1, <1>13
        <4> QED
          BY <3>0, <4>1, <4>2 DEF Taken
      <3>2. CASE c = l
        <4>1. fat[l] <= f[l] /\ f[l] <= h[l] /\ fat[l] \in Int /\ f[l] \in Int /\ h[l] \in Int
          BY <2>2, <3>0, <3>1, <3>2, <1>14
        <4> QED
          BY <4>1, <3>2, <1>5, <1>7, <1>8 DEF Taken
      <3>3. CASE c # l
        <4>1. h[c] = f[c]
          BY <3>1, <3>3, <1>7
        <4>2. CASE c \in Chain(f, a)
          <5> DEFINE m == EndOf(f, a)
          <5>1. PICK k \in 0 .. m : c = Walk(f, a)[k]
            BY <4>2, <1>5, ChainShape DEF Shape
          <5>2. k # m
            BY <5>1, <3>3, <1>5, ChainShape DEF Shape
          <5>3. k \in 0 .. (m - 1)
            BY <5>1, <5>2, <1>5
          <5>4. ~ EndsAt(f, c)
            BY <5>1, <5>3, <1>5, ChainShape DEF Shape
          <5> QED
            BY <5>4, <4>1, <3>1 DEF EndsAt, Taken
        <4>3. CASE c \notin Chain(f, a)
          <5>1. f[c] = fat[c]
            BY <4>3, <3>1, <1>13 DEF SameBut
          <5> QED
            BY <5>1, <4>1, <3>1 DEF Taken
        <4> QED
          BY <4>2, <4>3
      <3> QED
        BY <3>2, <3>3
    <2>3. s'.entry.first = a /\ s'.fat = h
      BY <1>4 DEF h, e
    <2>4. SameBut(s.fat, Chain(s.fat, s.entry.first))'
      BY <2>1, <2>3, <1>2 DEF SameBut
    <2>5. (\A c \in Taken(fat) : c \in Taken(Base) /\ (Base[c] >= 192 => fat[c] <= Base[c]))'
      BY <2>2, <1>2, <1>5 DEF Taken
    <2> QED
      BY <2>4, <2>5, <1>2, <1>3, <1>5, <1>13 DEF PathFat
  <1>16. Writing' /\ Growing'
    <2>1. s.pos < s.goal /\ s.goal <= FileSize(h, e)
      BY <1>5, <1>12, <1>9
    <2> QED
      BY <2>1, <1>3, <1>4 DEF Writing, Growing, h, e
  <1>17. Own'
    <2> SUFFICES ASSUME s.slot \notin torn PROVE IsWholeBut(data, h, e, s.pos, s.goal)
      BY <1>2, <1>3, <1>5 DEF Own, h, e
    <2>1. IsWhole(data, s.undo, s.entry)
      BY <1>1, <1>2, <1>5 DEF Own
    <2>2. ASSUME NEW r \in 0 .. (s.goal - 1), r < s.pos PROVE IsRight(data, h, a, r)
      <3>1. r \in 0 .. (FileSize(s.undo, s.entry) - 1)
        BY <2>2, <1>5, <1>12
      <3>2. r \div GranuleSize \in 0 .. EndOf(s.undo, a)
        BY <3>1, <1>5, PositionInChain DEF a
      <3>3. IsRight(data, s.undo, a, r)
        BY <3>1, <2>1 DEF IsWhole, a
      <3> QED
        BY <3>2, <3>3, <1>9, <1>12 DEF IsRight
    <2>3. \A r \in 0 .. (s.goal - 1) : ~ (r >= s.goal)
      BY <1>5
    <2> QED
      BY <2>2, <2>3, <1>4, <1>9 DEF IsWholeBut
  <1>18. OwnOnDisk'
    <2> SUFFICES ASSUME s.slot \notin torn, h = fat PROVE IsWhole(data, fat, dir[s.slot])
      BY <1>2, <1>3, <1>5 DEF OwnOnDisk
    <2>1. l \in Taken(fat)
      BY <1>5, <1>7, <1>8 DEF Taken
    <2>2. s.undo = f /\ f[l] = h[l]
      <3>1. f[l] \in Int /\ h[l] \in Int
        <4>1. f[l] \in Byte /\ h[l] \in Byte
          BY <1>5, <1>7 DEF Fat
        <4>2. ASSUME NEW v \in Byte PROVE v \in Int
          BY ONLY <4>2, Bytes
        <4> QED
          BY ONLY <4>1, <4>2
      <3> QED
        BY <3>1, <2>1, <1>14
    <2>3. f = fat
      <3>1. \A c \in Granule : f[c] = h[c]
        BY <2>2, <1>7
      <3> QED
        BY <3>1, <1>5, <1>7 DEF Fat
    <2> QED
      BY <2>2, <2>3, <1>1, <1>2, <1>5 DEF OwnOnDisk
  <1>19. Others'
    BY <1>1, <1>2, <1>3, <1>5 DEF Others, IsOpen
  <1> QED
    BY <1>11, <1>15, <1>16, <1>17, <1>18, <1>19 DEF Sound
-----------------------------------------------------------------------------
(* The invariant *)

LEMMA TypesNext ==
  ASSUME Sound, Next
  PROVE  Types'
  <1>1. Types /\ PathEntry /\ Jobs /\ Chains /\ Writing
    BY DEF Sound, Control
  <1>2. CASE Call
    BY <1>1, <1>2, CallTypes
  <1>3. CASE Grow \/ GrowFails \/ Grown
    BY <1>1, <1>3, ChainStepTypes
  <1>4. CASE PutGranule \/ PutGranuleFails
    BY <1>1, <1>4, DataStepTypes
  <1>5. CASE PutEntry \/ PutEntryFails \/ PutNewEntry \/ Erase \/ EraseFails
    BY <1>1, <1>5, DirectoryStepTypes
  <1>6. CASE \/ PutFat \/ PutFatFails \/ CreateFails \/ Replace \/ NewEntry \/ PutNewEntryFails
             \/ KillOpens \/ KillFindsNothing \/ KillFails \/ Crash
    BY <1>1, <1>6, OtherStepTypes
  <1> QED
    BY <1>2, <1>3, <1>4, <1>5, <1>6 DEF Next, Step

LEMMA SoundNext ==
  ASSUME Sound, Next, lost' # "files"
  PROVE  Sound'
  <1>1. Types' /\ Control'
    BY TypesNext, ControlNext DEF Sound
  <1>2. CASE Rests
    BY <1>1, <1>2, RestsSound
  <1>3. CASE Closes
    BY <1>1, <1>3, ClosesSound
  <1>4. CASE \/ \E a \in Args : Open(a)
             \/ \E a, b \in Args : Rename(a, b) /\ ~ (Exists(b) \/ ~ Exists(a))
             \/ KillOpens
    BY <1>1, <1>4, LoadStepsSound
  <1>5. CASE \/ SetAttributes \/ Close \/ WriteBeyondEnd \/ (\E p \in Positions : Seek(p))
             \/ GrowFails
    BY <1>1, <1>5, QuietStepsSound
  <1>6. CASE \E k \in WriteSizes : Write(k)
    BY <1>1, <1>6, WriteSound
  <1>7. CASE PutEntry \/ PutEntryFails \/ PutNewEntry
    BY <1>1, <1>7, EntryStepsSound
  <1>8. CASE NewEntry \/ Erase
    BY <1>1, <1>8, NewEntrySound, EraseSound
  <1>9. CASE PutGranule \/ PutGranuleFails
    BY <1>1, <1>9, PutGranuleSound, PutGranuleFailsSound
  <1>10. CASE Grow \/ Grown
    BY <1>1, <1>10, GrowSound, GrownSound
  <1>11. ASSUME NEW a \in Args, NEW b \in Args, Rename(a, b) PROVE Sound'
    BY <1>2, <1>4, <1>11 DEF Rests
  <1> QED
    BY <1>2, <1>3, <1>4, <1>5, <1>6, <1>7, <1>8, <1>9, <1>10, <1>11
       DEF Next, Call, Step, Rests, Closes

(* What has been lost stays lost. *)
LEMMA LostStays ==
  ASSUME Next, lost = "files"
  PROVE  lost' = "files"
  <1>1. \A h \in {"files", "granules"} : Harm(h) => lost' = "files"
    BY DEF Harm
  <1>2. CASE Crash
    BY <1>1, <1>2 DEF Crash
  <1>3. CASE Step
    <2>1. CASE PutFatFails
      BY <1>1, <2>1 DEF PutFatFails
    <2>2. CASE Grow \/ GrowFails \/ Grown \/ PutGranule \/ PutGranuleFails \/ PutEntry
               \/ PutEntryFails \/ PutFat
      BY <2>2 DEF Grow, GrowFails, Grown, PutGranule, PutGranuleFails, PutEntry, PutEntryFails,
                  PutFat
    <2>3. CASE CreateFails \/ Replace \/ NewEntry \/ PutNewEntry \/ PutNewEntryFails
               \/ KillOpens \/ KillFindsNothing \/ KillFails \/ Erase \/ EraseFails
      BY <2>3 DEF CreateFails, Replace, NewEntry, PutNewEntry, PutNewEntryFails, KillOpens,
                  KillFindsNothing, KillFails, Erase, EraseFails
    <2> QED
      BY <1>3, <2>1, <2>2, <2>3 DEF Step
  <1>4. CASE Call
    BY <1>4 DEF Call, Open, OpenFindsNothing, Kill, Create, Rename, OpenFails, SetAttributes,
                Close, WriteBeyondEnd, Seek, Write
  <1> QED
    BY <1>2, <1>3, <1>4 DEF Next

LEMMA SoundStutters ==
  ASSUME Sound, UNCHANGED vars
  PROVE  Sound'
  <1>1. /\ fat' = fat /\ dir' = dir /\ data' = data /\ s' = s /\ held' = held
        /\ torn' = torn /\ lost' = lost
    BY DEF vars
  <1>2. FatNow' = FatNow /\ Base' = Base /\ FilesNow' = FilesNow /\ Starts' = Starts
    BY <1>1 DEF FatNow, Base, FilesNow, Starts, EntryNow
  <1>3. Types' /\ Control'
    BY <1>1 DEF Sound, Types, TypeOK, Control, Jobs, PathEntry, NamedOnce
  <1>4. PathFat'
    BY <1>1, <1>2 DEF Sound, PathFat, SameBut, Taken
  <1>5. Chains' /\ Growing' /\ Writing'
    BY <1>1, <1>2 DEF Sound, Chains, Growing, Writing
  <1>6. Others' /\ Own' /\ OwnOnDisk'
    BY <1>1, <1>2 DEF Sound, Others, Own, OwnOnDisk, IsOpen
  <1> QED
    BY <1>3, <1>4, <1>5, <1>6 DEF Sound

LEMMA InitSound ==
  ASSUME Init
  PROVE  Sound
  <1>1. /\ fat = NoFat /\ dir = [i \in Slot |-> NoEntry] /\ s = Idle /\ held = 0
        /\ torn = {} /\ lost = "nothing"
        /\ data = [g \in Granule |-> [o \in Offset |-> Forgotten]]
    BY DEF Init
  <1>2. s.pc = "idle" /\ s.job = "none"
    BY <1>1 DEF Idle
  <1>3. \A i \in Slot : dir[i].name = NoName /\ EntryNow(i).name = NoName
    BY <1>1, <1>2 DEF NoEntry, EntryNow
  <1>4. FilesNow = {} /\ Base = NoFat
    BY <1>1, <1>2, <1>3 DEF FilesNow, Base, FatNow
  <1>5. Types
    <2>1. held \in 0 .. Handles
      BY <1>1, DecbAssumption
    <2> QED
      BY <2>1, <1>1, Constant, ForgottenType, TypesAre
  <1>6. Control
    BY <1>2, <1>3 DEF Control, Jobs, PathEntry, NamedOnce
  <1>7. Chains
    <2>1. DOMAIN Starts = {}
      BY <1>4 DEF Starts
    <2>2. \A g \in Granule : Base[g] = Free
      BY <1>4 DEF NoFat
    <2> QED
      BY <2>1, <2>2, <1>4 DEF Chains, Chained, Ended, Used
  <1>8. PathFat /\ Growing /\ Writing /\ Own /\ OwnOnDisk
    BY <1>2 DEF PathFat, Growing, Writing, Own, OwnOnDisk
  <1>9. Others
    BY <1>3 DEF Others
  <1> QED
    BY <1>5, <1>6, <1>7, <1>8, <1>9 DEF Sound

(* Between any two steps, and whatever fails or ends early, the disk and    *)
(* the open path fit together as Sound says, unless a FAT was lost that an  *)
(* open file needed (_decb_close_image).                                    *)
THEOREM InvHolds == Spec => []Inv
  <1>1. Init => Inv
    BY InitSound DEF Inv
  <1>2. Inv /\ [Next]_vars => Inv'
    <2> SUFFICES ASSUME Inv, [Next]_vars PROVE Inv'
      OBVIOUS
    <2>1. CASE Next
      BY <2>1, SoundNext, LostStays DEF Inv
    <2>2. CASE UNCHANGED vars
      <3>1. lost' = lost
        BY <2>2 DEF vars
      <3> QED
        BY <2>2, <3>1, SoundStutters DEF Inv
    <2> QED
      BY <2>1, <2>2
  <1> QED
    BY <1>1, <1>2, PTL DEF Spec
-----------------------------------------------------------------------------
(* What it is for *)

(* The files as the process sees them: with a file that is growing as far   *)
(* as it has.                                                               *)
LEMMA ChainsNow ==
  ASSUME Sound
  PROVE  Chained(FatNow, Starts)
  <1>1. CASE s.pc = "grow"
    BY <1>1 DEF Sound, Growing, FatNow
  <1>2. CASE s.pc # "grow"
    BY <1>2 DEF Sound, Chains, Base
  <1> QED
    BY <1>1, <1>2

(* Files never share a granule, and no loop along a chain runs forever      *)
(* (extend_fat_chain, _decb_kill).                                          *)
THEOREM NoGranuleIsShared == Spec => []NoSharedGranule
  <1>1. Inv => NoSharedGranule
    <2> SUFFICES ASSUME Sound, NEW i \in FilesNow
                 PROVE  LET C == Chain(FatNow, EntryNow(i).first) IN
                        /\ ~ Endless(FatNow, EntryNow(i).first)
                        /\ \A g \in C : FatNow[g] # Free
                        /\ \A j \in FilesNow \ {i} :
                             C \cap Chain(FatNow, EntryNow(j).first) = {}
      BY DEF Inv, NoSharedGranule
    <2>1. Chained(FatNow, Starts)
      BY ChainsNow
    <2>2. DOMAIN Starts = FilesNow /\ \A j \in FilesNow : Starts[j] = EntryNow(j).first
      BY DEF Starts
    <2> QED
      BY <2>1, <2>2 DEF Chained
  <1> QED
    BY <1>1, InvHolds, PTL

(* Whatever was created, extended, cut short by a full disk, replaced or    *)
(* killed, every granule that is taken when nothing is open is some file's  *)
(* (extend_fat_chain, _decb_kill).                                          *)
THEOREM NoGranuleIsLost == Spec => []NoGranuleLost
  <1>1. Inv => NoGranuleLost
    <2> SUFFICES ASSUME Sound, s.pc = "idle", lost = "nothing", NEW g \in Granule, fat[g] # Free
                 PROVE  \E i \in FilesNow : g \in Chain(fat, dir[i].first)
      BY DEF Inv, NoGranuleLost
    <2>1. Base = fat /\ s.job = "none"
      BY DEF Base, FatNow, Sound, Control, Jobs
    <2>2. Used(fat, Starts)
      BY <2>1 DEF Sound, Chains
    <2>3. DOMAIN Starts = FilesNow /\ \A i \in FilesNow : Starts[i] = dir[i].first
      BY <2>1 DEF Starts, EntryNow
    <2> QED
      BY <2>2, <2>3 DEF Used
  <1> QED
    BY <1>1, InvHolds, PTL

(* The FAT of a path says of the other files what the disk's says. *)
LEMMA OtherInPath ==
  ASSUME Sound, NEW i \in Slot, dir[i].name # NoName, ~ IsOpen(i)
  PROVE  \A c \in Chain(fat, dir[i].first) : FatNow[c] = fat[c]
  <1> DEFINE g == dir[i].first
  <1>1. /\ i \in FilesNow /\ Starts[i] = g /\ g \in Granule
        /\ Chain(fat, g) = Chain(Base, g) /\ \A c \in Chain(Base, g) : fat[c] = Base[c]
    BY OtherOnDisk DEF Sound
  <1>2. CASE s.pc # "grow"
    BY <1>1, <1>2 DEF Base
  <1>3. CASE s.pc = "grow"
    <2> DEFINE f == s.fat
               o == s.slot
    <2>1. /\ s.job = "file" /\ o \in FilesNow /\ Starts[o] = s.entry.first
          /\ f \in Fat /\ fat \in Fat /\ DOMAIN Starts = FilesNow
      BY <1>3, GrowingChain
    <2>2. Chained(f, Starts) /\ SameBut(f, Chain(f, s.entry.first))
      BY <1>3, <2>1 DEF Sound, Growing, PathFat
    <2>3. ~ Endless(f, g) /\ Chain(f, g) \cap Chain(f, s.entry.first) = {}
      BY <1>1, <2>1, <2>2 DEF Chained, IsOpen
    <2>4. \A c \in Chain(f, g) : fat[c] = f[c]
      BY <1>1, <2>1, <2>2, <2>3, ChainType DEF SameBut
    <2>5. Chain(fat, g) = Chain(f, g)
      BY <1>1, <2>1, <2>3, <2>4, SameChain
    <2> QED
      BY <1>3, <2>4, <2>5 DEF FatNow
  <1> QED
    BY <1>2, <1>3

LEMMA WholeIsIntact ==
  ASSUME NEW f, NEW e
  PROVE  Intact(f, e) <=> IsWhole(data, f, e)
  BY DEF Intact, IsWhole, IsRight

(* However files were written, and extended, and whatever else was done in  *)
(* between, each byte is the one last written there (_decb_write).          *)
THEOREM ContentsStayIntact == Spec => []ContentsIntact
  <1>1. Inv => ContentsIntact
    <2> SUFFICES ASSUME Sound, NEW i \in FilesNow \ torn,
                        ~ (i = s.slot /\ s.pc \in {"grow", "data"})
                 PROVE  IsWhole(data, FatNow, EntryNow(i))
      BY WholeIsIntact DEF Inv, ContentsIntact
    <2>1. i \in Slot /\ EntryNow(i).name # NoName
      BY DEF FilesNow
    <2>2. CASE IsOpen(i)
      <3>1. EntryNow(i) = s.entry /\ s.pc # "data" /\ Base = FatNow
        BY <2>2 DEF EntryNow, IsOpen, Base
      <3> QED
        BY <2>2, <3>1 DEF Sound, Own, IsOpen
    <2>3. CASE ~ IsOpen(i)
      <3>1. EntryNow(i) = dir[i] /\ dir[i].name # NoName
        BY <2>1, <2>3 DEF EntryNow, IsOpen
      <3>2. IsWhole(data, fat, dir[i])
        BY <2>1, <2>3, <3>1 DEF Sound, Others
      <3>3. /\ dir[i].first \in Granule /\ dir[i].last \in 0 .. Bps
            /\ ~ Endless(fat, dir[i].first) /\ fat[LastOf(fat, dir[i].first)] # Free
        BY <2>1, <2>3, <3>1, OtherOnDisk DEF Sound
      <3>4. fat \in Fat /\ FatNow \in Fat
        BY PathTypes DEF Sound
      <3>5. \A c \in Chain(fat, dir[i].first) : FatNow[c] = fat[c]
        BY <2>1, <2>3, <3>1, OtherInPath
      <3> QED
        BY <3>1, <3>2, <3>3, <3>4, <3>5, WholeAgain
    <2> QED
      BY <2>2, <2>3
  <1> QED
    BY <1>1, InvHolds, PTL

(* At every instant the disk alone describes in full every file but the     *)
(* open one: a process may end there (_decb_close_image writes the FAT      *)
(* last).                                                                   *)
THEOREM OtherFilesSurvive == Spec => []OthersSurvive
  <1>1. Inv => OthersSurvive
    <2> SUFFICES ASSUME Sound, NEW i \in Slot \ torn, dir[i].name # NoName, ~ IsOpen(i)
                 PROVE  IsWhole(data, fat, dir[i])
      BY WholeIsIntact DEF Inv, OthersSurvive, IsOpen
    <2> QED
      BY DEF Sound, Others
  <1> QED
    BY <1>1, InvHolds, PTL

(* Every byte of the FAT is one Disk BASIC knows, and positions, sizes and  *)
(* slots are in range, as long as no file was lost.                         *)
THEOREM TypesHold == Spec => [](lost # "files" => TypeOK)
  <1>1. Inv => (lost # "files" => TypeOK)
    BY DEF Inv, Sound, Types
  <1> QED
    BY <1>1, InvHolds, PTL

(* Without failures nothing is lost, and they always are. *)
THEOREM TypesHoldWithoutFailures ==
  ASSUME ~ Faults, ~ Crashes
  PROVE  Spec => []TypeOK
  <1>1. Init => lost = "nothing"
    BY DEF Init
  <1>2. lost = "nothing" /\ [Next]_vars => (lost = "nothing")'
    <2> SUFFICES ASSUME lost = "nothing", [Next]_vars PROVE lost' = lost
      OBVIOUS
    <2>1. CASE UNCHANGED vars
      BY <2>1 DEF vars
    <2>2. CASE Call
      BY <2>2 DEF Call, Open, OpenFindsNothing, Kill, Create, Rename, OpenFails, SetAttributes,
                  Close, WriteBeyondEnd, Seek, Write
    <2>3. CASE Step
      <3>1. CASE Grow \/ GrowFails \/ Grown \/ PutGranule \/ PutGranuleFails \/ PutEntry
                 \/ PutEntryFails \/ PutFat \/ PutFatFails
        BY <3>1 DEF Grow, GrowFails, Grown, PutGranule, PutGranuleFails, PutEntry,
                    PutEntryFails, PutFat, PutFatFails
      <3>2. CASE CreateFails \/ Replace \/ NewEntry \/ PutNewEntry \/ PutNewEntryFails
                 \/ KillOpens \/ KillFindsNothing \/ KillFails \/ Erase \/ EraseFails
        BY <3>2 DEF CreateFails, Replace, NewEntry, PutNewEntry, PutNewEntryFails, KillOpens,
                    KillFindsNothing, KillFails, Erase, EraseFails
      <3> QED
        BY <2>3, <3>1, <3>2 DEF Step
    <2>4. ~ Crash
      BY DEF Crash
    <2> QED
      BY <2>1, <2>2, <2>3, <2>4 DEF Next
  <1>3. Inv /\ lost = "nothing" => TypeOK
    BY DEF Inv, Sound, Types
  <1> QED
    BY <1>1, <1>2, <1>3, InvHolds, PTL DEF Spec

-----------------------------------------------------------------------------
(* The files of FileStore, in a state of Decb *)

Files ==
  [n \in EntryNames |->
     IF Entries({n}) = {} THEN -1 ELSE SizeNow(CHOOSE i \in Entries({n}) : TRUE)]

(* No failure has cost anything, and a file begins with nothing in it. *)
Calm ==
  Sound /\ torn = {} /\ lost = "nothing" /\ (s.pc = "newentry" => s.entry.last = 0)

-----------------------------------------------------------------------------
(* The files a state has *)

(* A name is that of one entry at most, and its file has the size the FAT   *)
(* in which every file is complete says.                                    *)
LEMMA FilesAre ==
  ASSUME NamedOnce, NEW n \in EntryNames
  PROVE  /\ (\A i \in Slot : dir[i].name # n) => Files[n] = -1
         /\ \A i \in Slot : dir[i].name = n => Files[n] = FileSize(Base, EntryNow(i))
  <1>1. n # NoName
    BY DecbAssumption
  <1>2. ASSUME \A i \in Slot : dir[i].name # n PROVE Files[n] = -1
    BY <1>2 DEF Files, Entries
  <1>3. ASSUME NEW i \in Slot, dir[i].name = n PROVE Files[n] = FileSize(Base, EntryNow(i))
    <2>1. Entries({n}) = {i}
      BY <1>1, <1>3 DEF Entries, NamedOnce
    <2>2. Files[n] = SizeNow(i)
      BY <2>1 DEF Files
    <2> QED
      BY <2>2 DEF SizeNow, Base
  <1> QED
    BY <1>2, <1>3

LEMMA FilesThen ==
  ASSUME NamedOnce', NEW n \in EntryNames
  PROVE  /\ (\A i \in Slot : dir'[i].name # n) => Files'[n] = -1
         /\ \A i \in Slot : dir'[i].name = n => Files'[n] = FileSize(Base', (EntryNow(i))')
  <1>1. n # NoName
    BY DecbAssumption
  <1>2. ASSUME \A i \in Slot : dir'[i].name # n PROVE Files'[n] = -1
    BY <1>2 DEF Files, Entries
  <1>3. ASSUME NEW i \in Slot, dir'[i].name = n PROVE Files'[n] = FileSize(Base', (EntryNow(i))')
    <2>1. (Entries({n}))' = {i}
      BY <1>1, <1>3 DEF Entries, NamedOnce
    <2>2. Files'[n] = (SizeNow(i))'
      BY <2>1 DEF Files
    <2> QED
      BY <2>2 DEF SizeNow, Base
  <1> QED
    BY <1>2, <1>3

LEMMA FilesAreFunctions ==
  /\ Files = [n \in EntryNames |-> Files[n]]
  /\ Files' = [n \in EntryNames |-> Files'[n]]
  BY DEF Files

(* The names of the files are the same, and their sizes.                    *)
LEMMA SameFiles ==
  ASSUME NamedOnce, NamedOnce', \A i \in Slot : dir'[i].name = dir[i].name,
         \A i \in DirFiles : FileSize(Base', (EntryNow(i))') = FileSize(Base, EntryNow(i))
  PROVE  Files' = Files
  <1>1. ASSUME NEW n \in EntryNames PROVE Files'[n] = Files[n]
    <2>1. CASE \A i \in Slot : dir[i].name # n
      BY <2>1, FilesAre, FilesThen
    <2>2. ASSUME NEW i \in Slot, dir[i].name = n PROVE Files'[n] = Files[n]
      <3>1. i \in DirFiles
        BY <2>2, DecbAssumption DEF DirFiles
      <3>2. Files[n] = FileSize(Base, EntryNow(i))
        BY <2>2, FilesAre
      <3>3. Files'[n] = FileSize(Base', (EntryNow(i))')
        BY <2>2, FilesThen
      <3> QED
        BY <3>1, <3>2, <3>3
    <2> QED
      BY <2>1, <2>2
  <1> QED
    BY <1>1, FilesAreFunctions

(* One file is new, gone, or has another size; the others are as they were. *)
LEMMA OneFileChanges ==
  ASSUME NamedOnce, NamedOnce', NEW o \in Slot,
         \A i \in Slot \ {o} : dir'[i].name = dir[i].name,
         \A i \in DirFiles \ {o} : FileSize(Base', (EntryNow(i))') = FileSize(Base, EntryNow(i))
  PROVE  \A n \in EntryNames : n # dir[o].name /\ n # dir'[o].name => Files'[n] = Files[n]
  <1> SUFFICES ASSUME NEW n \in EntryNames, n # dir[o].name, n # dir'[o].name
               PROVE  Files'[n] = Files[n]
    OBVIOUS
  <1>1. CASE \A i \in Slot : dir[i].name # n
    <2>1. \A i \in Slot : dir'[i].name # n
      BY <1>1
    <2> QED
      BY <1>1, <2>1, FilesAre, FilesThen
  <1>2. ASSUME NEW i \in Slot, dir[i].name = n PROVE Files'[n] = Files[n]
    <2>1. i \in DirFiles \ {o} /\ dir'[i].name = n
      BY <1>2, DecbAssumption DEF DirFiles
    <2>2. Files[n] = FileSize(Base, EntryNow(i))
      BY <1>2, FilesAre
    <2>3. Files'[n] = FileSize(Base', (EntryNow(i))')
      BY <2>1, FilesThen
    <2> QED
      BY <2>1, <2>2, <2>3
  <1> QED
    BY <1>1, <1>2

(* The size of a file that is not open is that on the disk. *)
LEMMA OtherSize ==
  ASSUME Sound, NEW i \in Slot, dir[i].name # NoName, ~ IsOpen(i)
  PROVE  /\ EntryNow(i) = dir[i]
         /\ FileSize(Base, dir[i]) = FileSize(fat, dir[i])
  <1>1. /\ dir[i].first \in Granule /\ ~ Endless(fat, dir[i].first)
        /\ \A c \in Chain(fat, dir[i].first) : Base[c] = fat[c]
    BY OtherOnDisk DEF Sound
  <1>2. fat \in Fat /\ Base \in Fat
    BY PathTypes DEF Sound
  <1> QED
    BY <1>1, <1>2, SameSize DEF EntryNow, IsOpen
(* The same, for the state after a step. *)
OthersSizes ==
  \A i \in Slot :
    dir[i].name # NoName /\ ~ IsOpen(i) =>
      /\ FileSize(Base, EntryNow(i)) = FileSize(fat, dir[i])
      /\ FileSize(fat, dir[i]) \in Nat

LEMMA SizesOfOthers == Sound => OthersSizes
  <1> SUFFICES ASSUME Sound, NEW i \in Slot, dir[i].name # NoName, ~ IsOpen(i)
               PROVE  /\ FileSize(Base, EntryNow(i)) = FileSize(fat, dir[i])
                      /\ FileSize(fat, dir[i]) \in Nat
    BY DEF OthersSizes
  <1>1. /\ dir[i].first \in Granule /\ dir[i].last \in 0 .. Bps /\ ~ Endless(fat, dir[i].first)
        /\ fat[LastOf(fat, dir[i].first)] # Free /\ fat \in Fat
    BY OtherOnDisk, PathTypes DEF Sound
  <1>2. FileSize(fat, dir[i]) \in Nat
    BY <1>1, FileSizeIs
  <1> QED
    BY <1>2, OtherSize

LEMMA SizesOfOthersThen == Sound' => OthersSizes'
  BY SizesOfOthers, PTL

(* A file that no path has, before and after a step.                        *)
LEMMA UnopenedSize ==
  ASSUME Sound, Sound', fat' = fat, NEW i \in Slot, dir'[i] = dir[i], dir[i].name # NoName,
         ~ IsOpen(i), ~ (s'.job = "file" /\ i = s'.slot)
  PROVE  FileSize(Base', (EntryNow(i))') = FileSize(Base, EntryNow(i))
  <1>1. FileSize(Base, EntryNow(i)) = FileSize(fat, dir[i])
    BY SizesOfOthers DEF OthersSizes
  <1>2. FileSize(Base', (EntryNow(i))') = FileSize(fat', dir'[i])
    BY SizesOfOthersThen DEF OthersSizes, IsOpen
  <1> QED
    BY <1>1, <1>2

-----------------------------------------------------------------------------
(* Steps that change no file as the process sees it *)

LEMMA Stutters ==
  ASSUME Sound, Sound', Base' = Base, \A i \in Slot : dir'[i].name = dir[i].name,
         \A i \in DirFiles : (EntryNow(i))' = EntryNow(i)
  PROVE  Files' = Files
  BY SameFiles DEF Sound, Control

LEMMA RestsChangeNothing ==
  ASSUME Sound, Sound', Rests, ~ Faults
  PROVE  Files' = Files
  <1>1. /\ AtRest' /\ s.job # "file" /\ fat' = fat /\ dir' = dir
    BY RestsJobs DEF Sound, Control
  <1>2. AtRest
    BY DEF Rests, OpenFindsNothing, Kill, Create, Rename, OpenFails, CreateFails, Replace,
           KillFindsNothing, KillFails, EraseFails, AtRest
  <1>3. s'.job # "file"
    BY <1>1 DEF Sound, Control, Jobs, AtRest
  <1>4. Base' = Base /\ \A i \in Slot : (EntryNow(i))' = EntryNow(i)
    BY <1>1, <1>2, <1>3 DEF AtRest, Base, FatNow, EntryNow
  <1> QED
    BY <1>1, <1>4, Stutters DEF DirFiles

LEMMA LoadsChangeNothing ==
  ASSUME Sound, Sound', AtRest, fat' = fat, dir' = dir, s'.fat = fat,
         s'.pc \in {"open", "erase", "entry"}, s'.job = "file" => s'.entry = dir[s'.slot]
  PROVE  Files' = Files
  <1>1. s.job # "file"
    BY DEF Sound, Control, Jobs, AtRest
  <1>2. Base' = Base /\ \A i \in Slot : (EntryNow(i))' = EntryNow(i)
    BY <1>1 DEF AtRest, Base, FatNow, EntryNow
  <1> QED
    BY <1>2, Stutters DEF DirFiles

LEMMA LoadStepsChangeNothing ==
  ASSUME Sound, Sound',
         \/ \E a \in Args : Open(a)
         \/ \E a, b \in Args : Rename(a, b) /\ ~ (Exists(b) \/ ~ Exists(a))
         \/ KillOpens
  PROVE  Files' = Files
  <1>1. Types /\ Jobs /\ s \in PathState
    BY DEF Sound, Control, Types
  <1>2. ASSUME NEW a \in Args, Open(a) PROVE Files' = Files
    <2>1. PICK i \in Slot :
            s' = WithFat([Idle EXCEPT !.pc = "open", !.job = "file", !.entry = dir[i], !.slot = i])
      BY <1>2 DEF Open
    <2>2. /\ s'.pc = "open" /\ s'.job = "file" /\ s'.entry = dir[s'.slot] /\ s'.fat = fat
      BY <2>1 DEF WithFat, Idle
    <2>3. AtRest /\ fat' = fat /\ dir' = dir
      BY <1>2 DEF Open, AtRest
    <2> QED
      BY <2>2, <2>3, LoadsChangeNothing
  <1>3. ASSUME NEW a \in Args, NEW b \in Args, Rename(a, b), ~ (Exists(b) \/ ~ Exists(a))
        PROVE  Files' = Files
    <2>1. /\ s'.pc = "entry" /\ s'.job = "rename" /\ s'.fat = fat /\ s.pc = "idle"
          /\ fat' = fat /\ dir' = dir
      BY <1>1, <1>3, RenameIs
    <2> QED
      BY <2>1, LoadsChangeNothing DEF AtRest
  <1>4. CASE KillOpens
    <2>1. PICK i \in Slot : s' = WithFat([s EXCEPT !.pc = "erase", !.entry = dir[i], !.slot = i])
      BY <1>4 DEF KillOpens
    <2>2. s'.pc = "erase" /\ s'.job = s.job /\ s'.fat = fat
      BY <1>1, <2>1 DEF WithFat, PathState
    <2>3. AtRest /\ fat' = fat /\ dir' = dir /\ s.job # "file"
      BY <1>1, <1>4 DEF KillOpens, AtRest, Jobs
    <2> QED
      BY <2>2, <2>3, LoadsChangeNothing
  <1> QED
    BY <1>2, <1>3, <1>4
(* What is done in a path, but for the last step of extending a chain, is   *)
(* not seen in the sizes.                                                   *)
LEMMA PathStepsChangeNothing ==
  ASSUME Sound, Sound',
         \/ SetAttributes \/ Close \/ WriteBeyondEnd \/ (\E p \in Positions : Seek(p))
         \/ (\E k \in WriteSizes : Write(k)) \/ Grow \/ GrowFails \/ PutGranule
  PROVE  Files' = Files
  <1>1. s \in PathState /\ Jobs /\ s.entry \in Entry
    BY PathTypes DEF Sound, Types, Control
  <1>2. s.job = "file" /\ dir' = dir /\ s.pc \in {"open", "grow", "data"}
    BY <1>1 DEF SetAttributes, Close, WriteBeyondEnd, Seek, Write, Grow, GrowFails, PutGranule, Jobs
  <1>3. s'.job = s.job /\ s'.slot = s.slot /\ s'.entry = s.entry
    <2>1. CASE SetAttributes \/ Close \/ WriteBeyondEnd \/ (\E p \in Positions : Seek(p))
      BY <1>1, <2>1 DEF SetAttributes, Close, WriteBeyondEnd, Seek, PathState
    <2>2. CASE \E k \in WriteSizes : Write(k)
      BY <1>1, <2>2 DEF Write, PathState
    <2>3. CASE Grow \/ GrowFails
      BY <1>1, <2>3 DEF Grow, GrowFails, PathState
    <2>4. CASE PutGranule
      BY <1>1, <2>4 DEF PutGranule, PathState
    <2> QED
      BY <2>1, <2>2, <2>3, <2>4
  <1>4. Base' = Base
    <2>1. CASE SetAttributes \/ Close \/ WriteBeyondEnd \/ (\E p \in Positions : Seek(p))
      BY <1>1, <2>1 DEF SetAttributes, Close, WriteBeyondEnd, Seek, PathState, Base, FatNow
    <2>2. CASE \E k \in WriteSizes : Write(k)
      BY <1>1, <2>2 DEF Write, PathState, Base, FatNow
    <2>3. CASE Grow
      BY <1>1, <2>3 DEF Grow, PathState, Base
    <2>4. CASE GrowFails
      BY <1>1, <2>4 DEF GrowFails, PathState, Base, FatNow
    <2>5. CASE PutGranule
      BY <1>1, <2>5 DEF PutGranule, PathState, Base, FatNow
    <2> QED
      BY <2>1, <2>2, <2>3, <2>4, <2>5
  <1>5. \A i \in Slot : (EntryNow(i))' = EntryNow(i)
    BY <1>2, <1>3 DEF EntryNow
  <1> QED
    BY <1>2, <1>4, <1>5, Stutters DEF DirFiles

(* The entry of an open file is written: it has its size from the path.     *)
LEMMA EntryChangesNothing ==
  ASSUME Sound, Sound', PutEntry, s.job = "file"
  PROVE  Files' = Files
  <1>1. s \in PathState /\ PathEntry /\ s.slot \in Slot /\ dir \in [Slot -> Entry]
    BY PathTypes DEF Sound, Types, Control
  <1>2. /\ s.pc = "entry" /\ dir' = [dir EXCEPT ![s.slot] = s.entry]
        /\ s'.pc = "open" /\ s'.job = "file" /\ s'.slot = s.slot /\ s'.entry = s.entry
        /\ s'.fat = s.fat
    BY <1>1 DEF PutEntry, PathState
  <1>3. Base' = Base
    BY <1>2 DEF Base, FatNow
  <1>4. \A i \in Slot : dir'[i].name = dir[i].name
    BY <1>1, <1>2 DEF PathEntry
  <1>5. \A i \in Slot : (EntryNow(i))' = EntryNow(i)
    BY <1>1, <1>2 DEF EntryNow
  <1> QED
    BY <1>3, <1>4, <1>5, Stutters DEF DirFiles

(* The FAT is written: the disk has what the path had.                      *)
LEMMA FatChangesNothing ==
  ASSUME Sound, Sound', PutFat, torn = {}
  PROVE  Files' = Files
  <1>1. AtRest' /\ s'.job \notin {"file", "rename"}
    BY ClosesJobs DEF Sound, Control, Closes
  <1>2. PathEntry /\ s.pc = "putfat" /\ fat' = s.fat /\ dir' = dir
    BY DEF Sound, Control, PutFat
  <1>3. Base' = Base
    BY <1>1, <1>2 DEF AtRest, Base, FatNow
  <1>4. \A i \in Slot : (EntryNow(i))' = EntryNow(i)
    BY <1>1, <1>2 DEF EntryNow, PathEntry
  <1> QED
    BY <1>2, <1>3, <1>4, Stutters DEF DirFiles

(* A new file has its entry in the path only, and its granule is no other's *)
LEMMA NewEntryChangesNothing ==
  ASSUME Sound, Sound', NewEntry
  PROVE  Files' = Files /\ s'.entry.last = 0
  <1>1. Types /\ Jobs
    BY DEF Sound, Control
  <1>2. PICK g \in Granule, o \in Slot :
          /\ s.pc = "create" /\ dir[o].name = NoName
          /\ s'.pc = "newentry" /\ s'.job = "file" /\ s'.slot = o
          /\ s'.entry = [name |-> EntryOf[s.arg], first |-> g, last |-> 0]
    BY <1>1, NewEntryIs
  <1>3. fat' = fat /\ dir' = dir /\ s.job # "file"
    BY <1>1, <1>2 DEF NewEntry, Jobs
  <1>4. ASSUME NEW i \in DirFiles
        PROVE  FileSize(Base', (EntryNow(i))') = FileSize(Base, EntryNow(i))
    <2>1. i \in Slot /\ dir[i].name # NoName
      BY DEF DirFiles
    <2> QED
      BY <2>1, <1>2, <1>3, UnopenedSize DEF IsOpen
  <1> QED
    BY <1>2, <1>3, <1>4, SameFiles DEF Sound, Control
-----------------------------------------------------------------------------
(* The steps that are the store's *)

(* When the last granule of a chain is marked, the file has its new size.   *)
LEMMA GrownGrows ==
  ASSUME Sound, Sound', Grown
  PROVE  \E n \in EntryNames : Store!Grow(n)
  <1>0. PICK o \in Slot : o = s.slot
    BY PathTypes DEF Sound
  <1> DEFINE n == s.entry.name
  <1>1. /\ Types /\ Types' /\ Control /\ PathEntry /\ Writing /\ NamedOnce /\ NamedOnce'
        /\ s.pc = "grow"
    BY DEF Sound, Control, Grown
  <1>2. /\ fat' = fat /\ dir' = dir /\ s'.pc = "data" /\ s'.job = "file" /\ s'.slot = o
        /\ s'.entry.name = n /\ FileSize(s'.fat, s'.entry) = s.goal
    BY <1>0, <1>1, GrownIs
  <1>3. s.job = "file" /\ Base = s.undo /\ FileSize(s.undo, s.entry) \in Nat
    BY <1>0, <1>1, GrowingChain
  <1>4. /\ s.goal \in 0 .. MaxSize /\ o \in Slot /\ FileSize(s.undo, s.entry) < s.goal
    BY <1>0, <1>1, PathTypes DEF Writing
  <1>5. dir[o].name = n /\ n # NoName /\ n \in EntryNames
    <2>1. dir[o].name = n /\ n # NoName
      BY <1>0, <1>1, <1>3 DEF PathEntry
    <2> QED
      BY <2>1, <1>1, PathTypes, EntryType
  <1>6. EntryNow(o) = s.entry /\ (EntryNow(o))' = s'.entry /\ Base' = s'.fat
    BY <1>0, <1>2, <1>3 DEF EntryNow, Base, FatNow
  <1>7. Files[n] = FileSize(s.undo, s.entry) /\ Files'[n] = s.goal
    <2>1. Files[n] = FileSize(Base, EntryNow(o))
      BY <1>1, <1>4, <1>5, FilesAre
    <2>2. Files'[n] = FileSize(Base', (EntryNow(o))')
      BY <1>1, <1>2, <1>4, <1>5, FilesThen
    <2> QED
      BY <2>1, <2>2, <1>2, <1>3, <1>6
  <1>8. \A i \in DirFiles \ {o} : FileSize(Base', (EntryNow(i))') = FileSize(Base, EntryNow(i))
    BY <1>0, <1>2, <1>3, UnopenedSize DEF DirFiles, IsOpen
  <1>9. \A m \in EntryNames : m # n => Files'[m] = Files[m]
    BY <1>0, <1>1, <1>2, <1>4, <1>5, <1>8, OneFileChanges
  <1> HIDE DEF n
  <1>10. Files' = [Files EXCEPT ![n] = Files'[n]]
    BY <1>9, FilesAreFunctions
  <1>11. Files[n] # -1 /\ Files'[n] \in 0 .. MaxSize /\ Files'[n] > Files[n]
    BY <1>3, <1>4, <1>7
  <1> QED
    BY <1>5, <1>10, <1>11 DEF Store!Grow, Store!Absent, Files

(* When the entry of a new file is written, there is a file with nothing in *)
(* it.                                                                      *)
LEMMA NewEntryCreates ==
  ASSUME Sound, Sound', PutNewEntry, s.entry.last = 0
  PROVE  \E n \in EntryNames : Store!Create(n)
  <1>0. PICK o \in Slot : o = s.slot
    BY PathTypes DEF Sound
  <1> DEFINE n == s.entry.name
  <1>1. /\ Types /\ Control /\ PathEntry /\ PathFat /\ NamedOnce /\ NamedOnce' /\ s \in PathState
        /\ s.pc = "newentry" /\ s.job = "file" /\ dir \in [Slot -> Entry]
    BY <1>0, PathTypes DEF Sound, Control, PutNewEntry, Jobs, Types
  <1>2. /\ fat' = fat /\ dir' = [dir EXCEPT ![o] = s.entry] /\ s'.pc = "open" /\ s'.job = "file"
        /\ s'.slot = o /\ s'.entry = s.entry /\ s'.fat = s.fat
    BY <1>0, <1>1 DEF PutNewEntry, PathState
  <1>3. /\ s.fat \in Fat /\ s.entry.first \in Granule /\ s.fat[s.entry.first] = Last(1)
        /\ n \in EntryNames /\ n # NoName /\ dir[o].name = NoName
        /\ \A i \in Slot : dir[i].name # n
    <2>1. s.fat \in Fat /\ fat \in Fat /\ s.entry.first \in Granule
          /\ n \in EntryNames \cup {NoName}
      BY <1>1, PathTypes, EntryType
    <2>2. s.fat[s.entry.first] = Last(1)
      BY <2>1, <1>1 DEF PathFat, Fat
    <2> QED
      BY <1>0, <2>1, <2>2, <1>1 DEF PathEntry
  <1>4. Files[n] = -1
    BY <1>0, <1>1, <1>3, FilesAre
  <1>5. Base' = s.fat /\ (EntryNow(o))' = s.entry /\ dir'[o].name = n
    BY <1>0, <1>1, <1>2 DEF Base, FatNow, EntryNow
  <1>6. FileSize(s.fat, s.entry) = 0
    BY <1>3, NewIsWhole
  <1>7. Files'[n] = 0
    <2>1. NamedOnce' /\ o \in Slot /\ n \in EntryNames /\ dir'[o].name = n
      BY <1>1, <1>3, <1>5
    <2>2. Files'[n] = FileSize(Base', (EntryNow(o))')
      <3> HIDE DEF n
      <3> QED
        BY <2>1, FilesThen
    <2> QED
      BY <2>2, <1>5, <1>6
  <1>8. \A i \in Slot \ {o} : dir'[i] = dir[i]
    BY <1>0, <1>1, <1>2
  <1>9. \A i \in DirFiles \ {o} : FileSize(Base', (EntryNow(i))') = FileSize(Base, EntryNow(i))
    BY <1>0, <1>1, <1>2, <1>8, UnopenedSize DEF DirFiles, IsOpen
  <1>10. \A m \in EntryNames : m # n => Files'[m] = Files[m]
    <2>1. \A m \in EntryNames : m # dir[o].name
      BY <1>3, DecbAssumption
    <2>2. \A i \in Slot \ {o} : dir'[i].name = dir[i].name
      BY <1>8
    <2> QED
      BY <2>1, <2>2, <1>1, <1>5, <1>9, OneFileChanges
  <1> HIDE DEF n
  <1>11. Files' = [Files EXCEPT ![n] = 0]
    BY <1>7, <1>10, FilesAreFunctions
  <1> QED
    BY <1>3, <1>4, <1>11 DEF Store!Create, Store!Absent, Files

(* When an entry is erased, the file is gone. *)
LEMMA EraseRemoves ==
  ASSUME Sound, Sound', Erase
  PROVE  \E n \in EntryNames : Store!Remove(n)
  <1>0. PICK o \in Slot : o = s.slot
    BY PathTypes DEF Sound
  <1> DEFINE n == dir[o].name
  <1>1. /\ Types /\ Control /\ Jobs /\ PathEntry /\ NamedOnce /\ NamedOnce' /\ s \in PathState
        /\ s.pc = "erase" /\ dir \in [Slot -> Entry]
    BY <1>0, PathTypes DEF Sound, Control, Erase, Types
  <1>2. /\ fat' = fat /\ dir' = [dir EXCEPT ![o] = NoEntry] /\ s'.pc = "putfat" /\ s'.job = s.job
        /\ s.job # "file"
    BY <1>0, <1>1 DEF Erase, PathState, Jobs
  <1>3. n # NoName /\ n \in EntryNames
    <2>1. n # NoName
      BY <1>0, <1>1 DEF PathEntry
    <2> QED
      BY <2>1, <1>1, EntryType
  <1>4. /\ dir'[o].name = NoName /\ \A i \in Slot \ {o} : dir'[i] = dir[i]
    BY <1>0, <1>1, <1>2 DEF NoEntry
  <1>5. Files[n] \in Nat
    <2>1. Files[n] = FileSize(Base, EntryNow(o))
      BY <1>1, <1>3, FilesAre
    <2> QED
      BY <2>1, <1>1, <1>2, <1>3, SizesOfOthers DEF OthersSizes, IsOpen
  <1>6. Files'[n] = -1
    <2>1. \A i \in Slot : dir'[i].name # n
      BY <1>1, <1>3, <1>4 DEF NamedOnce
    <2> QED
      BY <2>1, <1>1, <1>3, FilesThen
  <1>7. \A i \in DirFiles \ {o} : FileSize(Base', (EntryNow(i))') = FileSize(Base, EntryNow(i))
    BY <1>0, <1>1, <1>2, <1>4, UnopenedSize DEF DirFiles, IsOpen
  <1>8. \A m \in EntryNames : m # n => Files'[m] = Files[m]
    <2>1. \A m \in EntryNames : m # dir'[o].name
      BY <1>4, DecbAssumption
    <2>2. \A i \in Slot \ {o} : dir'[i].name = dir[i].name
      BY <1>4
    <2> QED
      BY <2>1, <2>2, <1>1, <1>7, OneFileChanges
  <1> HIDE DEF n
  <1>9. Files' = [Files EXCEPT ![n] = -1]
    BY <1>6, <1>8, FilesAreFunctions
  <1>10. Files[n] # -1
    BY <1>5
  <1> QED
    BY <1>3, <1>9, <1>10 DEF Store!Remove, Store!Absent, Files
(* When an entry is given another name, the file has it, which no file had. *)
LEMMA EntryRenames ==
  ASSUME Sound, Sound', PutEntry, s.job = "rename"
  PROVE  \E n, m \in EntryNames : Store!Rename(n, m)
  <1>0. PICK o \in Slot : o = s.slot
    BY PathTypes DEF Sound
  <1> DEFINE n == dir[o].name
             m == s.entry.name
  <1>1. /\ Types /\ Control /\ PathEntry /\ PathFat /\ NamedOnce /\ NamedOnce' /\ s \in PathState
        /\ s.pc = "entry" /\ dir \in [Slot -> Entry]
    BY <1>0, PathTypes DEF Sound, Control, PutEntry, Types
  <1>2. /\ fat' = fat /\ dir' = [dir EXCEPT ![o] = s.entry] /\ s'.pc = "idle" /\ s'.job = "none"
    BY <1>0, <1>1, DoneFields DEF PutEntry
  <1>3. /\ n # NoName /\ m # NoName /\ s.entry = [dir[o] EXCEPT !.name = m]
        /\ \A i \in Slot : dir[i].name # m
    BY <1>0, <1>1 DEF PathEntry
  <1>4. n \in EntryNames /\ m \in EntryNames /\ n # m
    <2>1. s.entry \in Entry /\ dir[o] \in Entry
      BY <1>1, PathTypes
    <2> QED
      BY <2>1, <1>1, <1>3, EntryType
  <1>5. /\ dir'[o] = s.entry /\ dir'[o].name = m /\ \A i \in Slot \ {o} : dir'[i] = dir[i]
    BY <1>0, <1>1, <1>2
  <1>6. s.entry.first = dir[o].first /\ s.entry.last = dir[o].last
    BY <1>0, <1>1, <1>3, EntryType
  <1>7. Files[m] = -1 /\ Files'[n] = -1
    <2>1. \A i \in Slot : dir'[i].name # n
      BY <1>1, <1>3, <1>4, <1>5 DEF NamedOnce
    <2> HIDE DEF n, m
    <2> QED
      BY <2>1, <1>1, <1>3, <1>4, FilesAre, FilesThen
  <1>8. Files[n] = FileSize(fat, dir[o]) /\ Files[n] \in Nat
    <2>1. Files[n] = FileSize(Base, EntryNow(o))
      BY <1>1, <1>4, FilesAre
    <2> QED
      BY <2>1, <1>1, <1>3, SizesOfOthers DEF OthersSizes, IsOpen
  <1>9. Files'[m] = FileSize(fat, s.entry)
    <2>1. NamedOnce' /\ o \in Slot /\ m \in EntryNames /\ dir'[o].name = m
      BY <1>1, <1>4, <1>5
    <2>2. Files'[m] = FileSize(Base', (EntryNow(o))')
      <3> HIDE DEF m
      <3> QED
        BY <2>1, FilesThen
    <2>3. (EntryNow(o))' = s.entry /\ Base' = fat
      BY <1>2, <1>5 DEF EntryNow, Base, FatNow
    <2> QED
      BY <2>2, <2>3
  <1>10. FileSize(fat, s.entry) = FileSize(fat, dir[o])
    BY <1>6 DEF FileSize
  <1>11. \A i \in DirFiles \ {o} : FileSize(Base', (EntryNow(i))') = FileSize(Base, EntryNow(i))
    BY <1>0, <1>1, <1>2, <1>5, UnopenedSize DEF DirFiles, IsOpen
  <1>12. \A k \in EntryNames : k # n /\ k # m => Files'[k] = Files[k]
    <2>1. \A i \in Slot \ {o} : dir'[i].name = dir[i].name
      BY <1>5
    <2>2. dir'[o].name = m /\ dir[o].name = n
      BY <1>5
    <2> HIDE DEF n, m
    <2> QED
      BY <2>1, <2>2, <1>1, <1>11, OneFileChanges
  <1> HIDE DEF n, m
  <1>13. Files'[m] = Files[n] /\ Files[n] # -1
    BY <1>8, <1>9, <1>10
  <1>14. Files' = [Files EXCEPT ![n] = -1, ![m] = Files[n]]
    BY <1>4, <1>7, <1>12, <1>13, FilesAreFunctions
  <1> QED
    BY <1>4, <1>7, <1>13, <1>14 DEF Store!Rename, Store!Absent, Files

-----------------------------------------------------------------------------
(* The refinement *)

LEMMA CalmInit == Init => Calm
  BY InitSound DEF Calm, Init, Idle

(* What a step does if nothing fails, and that nothing is lost.             *)
LEMMA NothingLost ==
  ASSUME ~ Faults, ~ Crashes, Next
  PROVE  lost' = lost /\ torn' \subseteq torn
  <1>1. CASE Call
    BY <1>1 DEF Call, Open, OpenFindsNothing, Kill, Create, Rename, OpenFails, SetAttributes,
                Close, WriteBeyondEnd, Seek, Write
  <1>2. CASE Step
    BY <1>2 DEF Step, Grow, GrowFails, Grown, PutGranule, PutGranuleFails, PutEntry,
                PutEntryFails, PutFat, PutFatFails, CreateFails, Replace, NewEntry, PutNewEntry,
                PutNewEntryFails, KillOpens, KillFindsNothing, KillFails, Erase, EraseFails
  <1> QED
    BY <1>1, <1>2 DEF Next, Crash

(* Each step changes nothing the store can see, or is one of its own.       *)
LEMMA StepsAreTheStores ==
  ASSUME ~ Faults, ~ Crashes, Calm, Next
  PROVE  Calm' /\ (Store!Next \/ Files' = Files)
  <1>1. Sound /\ Sound' /\ torn = {} /\ torn' = {} /\ lost' = "nothing"
    BY NothingLost, SoundNext DEF Calm
  <1>2. Jobs /\ s \in PathState
    BY <1>1 DEF Sound, Control, Types
  <1>3. CASE NewEntry
    BY <1>1, <1>3, NewEntryChangesNothing DEF Calm
  <1>4. ASSUME ~ NewEntry PROVE s'.pc # "newentry"
    <2>1. CASE Rests
      BY <1>2, <2>1, <1>1, RestsJobs DEF AtRest, Sound
    <2>2. CASE PutFat
      BY <2>2, AfterKillFields DEF PutFat
    <2>3. CASE \E a \in Args : Open(a)
      BY <2>3 DEF Open, WithFat, Idle
    <2>4. CASE \E a, b \in Args : Rename(a, b) /\ ~ (Exists(b) \/ ~ Exists(a))
      BY <1>1, <2>4, RenameIs DEF Sound
    <2>5. CASE KillOpens
      BY <1>2, <2>5 DEF KillOpens, WithFat, PathState
    <2>6. CASE \/ SetAttributes \/ Close \/ WriteBeyondEnd \/ (\E p \in Positions : Seek(p))
               \/ (\E k \in WriteSizes : Write(k))
      BY <1>2, <2>6 DEF SetAttributes, Close, WriteBeyondEnd, Seek, Write, PathState
    <2>7. CASE Grow \/ GrowFails \/ Grown \/ PutGranule
      BY <1>2, <2>7 DEF Grow, GrowFails, Grown, PutGranule, PathState
    <2>8. CASE PutEntry \/ PutNewEntry \/ Erase
      BY <1>2, <2>8, DoneFields DEF PutEntry, PutNewEntry, Erase, PathState
    <2> QED
      BY <1>4, <2>1, <2>2, <2>3, <2>4, <2>5, <2>6, <2>7, <2>8
      DEF Next, Call, Step, Rests, Crash, PutGranuleFails, PutEntryFails, PutFatFails,
          PutNewEntryFails
  <1>5. Calm'
    BY <1>1, <1>3, <1>4 DEF Calm
  <1>6. CASE Rests \/ NewEntry \/ PutFat
    BY <1>1, <1>6, RestsChangeNothing, NewEntryChangesNothing, FatChangesNothing, <1>5
  <1>7. CASE \/ \E a \in Args : Open(a)
             \/ \E a, b \in Args : Rename(a, b) /\ ~ (Exists(b) \/ ~ Exists(a))
             \/ KillOpens
    BY <1>1, <1>5, <1>7, LoadStepsChangeNothing
  <1>8. CASE \/ SetAttributes \/ Close \/ WriteBeyondEnd \/ (\E p \in Positions : Seek(p))
             \/ (\E k \in WriteSizes : Write(k)) \/ Grow \/ GrowFails \/ PutGranule
    BY <1>1, <1>5, <1>8, PathStepsChangeNothing
  <1>9. CASE Grown
    BY <1>1, <1>5, <1>9, GrownGrows DEF Store!Next
  <1>10. CASE PutNewEntry
    <2>1. s.entry.last = 0
      BY <1>10 DEF Calm, PutNewEntry
    <2> QED
      BY <2>1, <1>1, <1>5, <1>10, NewEntryCreates DEF Store!Next
  <1>11. CASE Erase
    BY <1>1, <1>5, <1>11, EraseRemoves DEF Store!Next
  <1>12. CASE PutEntry
    <2>1. s.job \in {"file", "rename"}
      BY <1>2, <1>12 DEF PutEntry, Jobs
    <2>2. CASE s.job = "file"
      BY <2>2, <1>1, <1>5, <1>12, EntryChangesNothing
    <2>3. CASE s.job = "rename"
      BY <2>3, <1>1, <1>5, <1>12, EntryRenames DEF Store!Next
    <2> QED
      BY <2>1, <2>2, <2>3
  <1> QED
    BY <1>6, <1>7, <1>8, <1>9, <1>10, <1>11, <1>12
    DEF Next, Call, Step, Rests, Crash, PutGranuleFails, PutEntryFails, PutFatFails,
        PutNewEntryFails

(* Where no write fails and no process ends in the middle, the steps of     *)
(* _decb_create, _decb_write, _decb_kill and _decb_rename_ex are those of a *)
(* plain store of files: each call takes effect at one instant, on the file *)
(* of one name.                                                             *)
THEOREM ImplementsStore ==
  ASSUME ~ Faults, ~ Crashes
  PROVE  Spec => IsStore
  <1>1. Init => Store!Init
    <2> SUFFICES ASSUME Init PROVE \A n \in EntryNames : Files[n] = -1
      BY FilesAreFunctions DEF Store!Init, Store!Absent, Files
    <2>1. \A i \in Slot : dir[i].name = NoName
      BY DEF Init, NoEntry
    <2>2. NamedOnce
      BY <2>1 DEF NamedOnce
    <2> QED
      BY <2>1, <2>2, FilesAre, DecbAssumption
  <1>2. Calm /\ [Next]_vars => Calm'
    <2> SUFFICES ASSUME Calm, [Next]_vars PROVE Calm'
      OBVIOUS
    <2>1. CASE UNCHANGED vars
      BY <2>1, SoundStutters DEF Calm, vars
    <2> QED
      BY <2>1, StepsAreTheStores
  <1>3. Calm /\ [Next]_vars => [Store!Next]_Files
    <2>1. CASE UNCHANGED vars
      BY <2>1 DEF vars, Files, Entries, SizeNow, FatNow, EntryNow
    <2> QED
      BY <2>1, StepsAreTheStores
  <1> QED
    BY <1>1, <1>2, <1>3, CalmInit, PTL DEF Spec, IsStore, Store!Spec, Files
=============================================================================

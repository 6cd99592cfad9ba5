--------------------------- MODULE DragonDirProofs ---------------------------
(***************************************************************************)
(* Lemmas about DragonDir: the chains of entries of a directory, and the   *)
(* sectors of the extents in them.                                         *)
(***************************************************************************)
EXTENDS DragonDir, SequenceTheorems, Iteration

(* What the entries of a directory are. *)
AnyExtent == [lsn : Nat, count : Nat]

Slot == [kind : Kind, name : Names \cup {NoName}, ext : Seq(AnyExtent), next : Entry,
         last : 0 .. (Bps - 1)]

Table == [Entry -> Slot]

(* The numbers of entries: finitely many, and NoNext is one of them. *)
LEMMA EntryIs ==
  /\ Entries \in Nat \ {0} /\ 0 \in Entry /\ Entry \subseteq Nat /\ NoNext \in Entry
  /\ IsFiniteSet(Entry) /\ Cardinality(Entry) = Entries
  <1>1. Entries \in Nat \ {0} /\ 0 \in Entry /\ Entry \subseteq Nat /\ NoNext \in Entry
    BY DirAssumption DEF Entry, NoNext
  <1>2. Entries - 1 \in Int /\ 0 \in Int /\ 0 <= Entries - 1 /\ (Entries - 1) - 0 + 1 = Entries
    BY <1>1
  <1>3. IsFiniteSet(0 .. (Entries - 1)) /\ Cardinality(0 .. (Entries - 1)) = Entries
    BY <1>1, <1>2, FS_Interval
  <1> QED
    BY <1>1, <1>3 DEF Entry

(* What each entry of a directory is. *)
LEMMA TableIs ==
  ASSUME NEW e \in Table, NEW j \in Entry
  PROVE  /\ e[j] \in Slot /\ e[j].kind \in Kind /\ e[j].name \in Names \cup {NoName}
         /\ e[j].ext \in Seq(AnyExtent) /\ e[j].next \in Entry /\ e[j].last \in 0 .. (Bps - 1)
  BY DEF Table, Slot

-----------------------------------------------------------------------------
(* Chains *)

Link(e) == [j \in Entry |-> IF e[j].next = NoNext THEN j ELSE e[j].next]

Ends(e) == { j \in Entry : e[j].next = NoNext }

(* The next entry of an entry is an entry. *)
LEMMA LinkType ==
  ASSUME NEW e \in Table
  PROVE  Link(e) \in [Entry -> Entry]
  BY TableIs DEF Link

(* The entries met from entry i on are those of a walk along the links. *)
LEMMA WalkIs ==
  ASSUME NEW e \in Table, NEW i \in Entry
  PROVE  IsWalk(Walk(e, i), Entry, i, Link(e))
  <1> DEFINE n == Link(e)
  <1>1. n \in [Entry -> Entry]
    BY LinkType
  <1> HIDE DEF n
  <1>2. PICK w \in [Nat -> Entry] : w = [k \in Nat |-> IF k = 0 THEN i ELSE n[w[k - 1]]]
    BY <1>1, IterationExists
  <1>3. \A k \in Nat \ {0} :
          n[w[k - 1]] = IF e[w[k - 1]].next = NoNext THEN w[k - 1] ELSE e[w[k - 1]].next
    <2> SUFFICES ASSUME NEW k \in Nat \ {0}
                 PROVE  n[w[k - 1]] = IF e[w[k - 1]].next = NoNext THEN w[k - 1] ELSE e[w[k - 1]].next
      OBVIOUS
    <2>1. w[k - 1] \in Entry
      OBVIOUS
    <2> QED
      BY <2>1 DEF n, Link
  <1>4. \A k \in Nat :
          (IF k = 0 THEN i ELSE n[w[k - 1]])
            = (IF k = 0 THEN i
               ELSE LET j == w[k - 1] IN IF e[j].next = NoNext THEN j ELSE e[j].next)
    BY <1>3
  <1>5. w = [k \in Nat |->
               IF k = 0 THEN i
               ELSE LET j == w[k - 1] IN IF e[j].next = NoNext THEN j ELSE e[j].next]
    BY <1>2, <1>4
  <1>6. Walk(e, i) = [k \in Nat |->
               IF k = 0 THEN i
               ELSE LET j == Walk(e, i)[k - 1] IN IF e[j].next = NoNext THEN j ELSE e[j].next]
    BY <1>5 DEF Walk
  <1> DEFINE v == Walk(e, i)
  <1> HIDE DEF v
  <1>7. v = [k \in Nat |->
               IF k = 0 THEN i
               ELSE IF e[v[k - 1]].next = NoNext THEN v[k - 1] ELSE e[v[k - 1]].next]
    BY <1>6 DEF v
  <1>8. v[0] = i
    BY <1>7
  <1>9. \A k \in Nat : v[k + 1] = IF e[v[k]].next = NoNext THEN v[k] ELSE e[v[k]].next
    <2> SUFFICES ASSUME NEW k \in Nat
                 PROVE  v[k + 1] = IF e[v[k]].next = NoNext THEN v[k] ELSE e[v[k]].next
      OBVIOUS
    <2>1. k + 1 \in Nat /\ k + 1 # 0 /\ (k + 1) - 1 = k
      OBVIOUS
    <2> QED
      BY <2>1, <1>7
  <1> DEFINE N == { k \in Nat : v[k] \in Entry }
  <1>10. 0 \in N
    BY <1>8
  <1>11. ASSUME NEW k \in Nat, k \in N PROVE k + 1 \in N
    <2>1. v[k] \in Entry /\ e[v[k]].next \in Entry
      BY <1>11, TableIs
    <2>2. v[k + 1] \in Entry
      BY <1>9, <2>1
    <2> QED
      BY <2>2
  <1> HIDE DEF N
  <1>12. \A k \in Nat : v[k] \in Entry
    BY <1>10, <1>11, AllNumbers DEF N
  <1>13. v \in [Nat -> Entry]
    BY <1>7, <1>12
  <1>14. \A k \in Nat : v[k + 1] = Link(e)[v[k]]
    BY <1>9, <1>12 DEF Link
  <1> QED
    BY <1>8, <1>13, <1>14 DEF v, IsWalk

(* Such a walk begins with i and never leaves the directory. *)
LEMMA WalkType ==
  ASSUME NEW e \in Table, NEW i \in Entry
  PROVE  /\ Walk(e, i) \in [Nat -> Entry] /\ Walk(e, i)[0] = i
         /\ \A k \in Nat : Walk(e, i)[k + 1] = IF e[Walk(e, i)[k]].next = NoNext
                                                 THEN Walk(e, i)[k] ELSE e[Walk(e, i)[k]].next
  <1>1. PICK w : w = Walk(e, i) /\ IsWalk(w, Entry, i, Link(e))
    BY WalkIs
  <1>2. /\ w \in [Nat -> Entry] /\ w[0] = i
        /\ \A k \in Nat : w[k + 1] = Link(e)[w[k]]
    BY <1>1 DEF IsWalk
  <1>3. ASSUME NEW k \in Nat
        PROVE  w[k + 1] = IF e[w[k]].next = NoNext THEN w[k] ELSE e[w[k]].next
    <2>1. w[k] \in Entry /\ w[k + 1] = Link(e)[w[k]]
      BY <1>2
    <2> QED
      BY <2>1 DEF Link
  <1> QED
    BY <1>1, <1>2, <1>3

(* A chain is a set of entries, with its first one among them. *)
LEMMA ChainType ==
  ASSUME NEW e \in Table, NEW i \in Entry
  PROVE  /\ Chain(e, i) \subseteq Entry /\ i \in Chain(e, i)
         /\ LastEntry(e, i) \in Chain(e, i) /\ LastEntry(e, i) \in Entry
  <1>1. Walk(e, i) \in [Nat -> Entry] /\ Walk(e, i)[0] = i
    BY WalkType
  <1>2. 0 \in 0 .. (Entries - 1) /\ Entries - 1 \in 0 .. (Entries - 1)
        /\ 0 .. (Entries - 1) \subseteq Nat
    BY EntryIs
  <1> QED
    BY <1>1, <1>2 DEF Chain, LastEntry

(* A chain that ends at step m: its entries are those of the first m + 1    *)
(* steps, all different.                                                    *)
Shape(e, i, m) ==
  /\ m \in 0 .. (Entries - 1)
  /\ e[Walk(e, i)[m]].next = NoNext
  /\ \A k \in 0 .. (m - 1) : e[Walk(e, i)[k]].next # NoNext
  /\ \A k \in Nat : k >= m => Walk(e, i)[k] = Walk(e, i)[m]
  /\ \A a, b \in 0 .. m : Walk(e, i)[a] = Walk(e, i)[b] => a = b
  /\ LastEntry(e, i) = Walk(e, i)[m]
  /\ Chain(e, i) = { Walk(e, i)[k] : k \in 0 .. m }

(* A chain whose walk first ends at step m is the m + 1 entries met up to   *)
(* it.                                                                      *)
LEMMA ChainUpTo ==
  ASSUME NEW e \in Table, NEW i \in Entry, NEW m \in Nat,
         e[Walk(e, i)[m]].next = NoNext, \A k \in 0 .. (m - 1) : e[Walk(e, i)[k]].next # NoNext
  PROVE  Shape(e, i, m)
  <1> DEFINE w == Walk(e, i)
  <1>1. IsWalk(w, Entry, i, Link(e))
    BY WalkIs
  <1>2. w \in [Nat -> Entry]
    BY <1>1 DEF IsWalk
  <1>3. e[w[m]].next = NoNext /\ \A k \in 0 .. (m - 1) : e[w[k]].next # NoNext
    OBVIOUS
  <1> HIDE DEF w
  <1>4. w[m] \in Ends(e) /\ \A k \in 0 .. (m - 1) : w[k] \notin Ends(e)
    BY <1>2, <1>3 DEF Ends
  <1>5. m + 1 <= Entries
    <2> DEFINE C == { w[k] : k \in 0 .. m }
    <2>1. C = { w[k] : k \in 0 .. m }
      OBVIOUS
    <2> HIDE DEF C
    <2>2. m + 1 <= Cardinality(Entry)
      BY <1>1, <1>4, <2>1, EntryIs, WalkShort
    <2> QED
      BY <2>2, EntryIs
  <1>6. \A a, b \in 0 .. m : w[a] = w[b] => a = b
    BY <1>1, <1>4, WalkDistinct
  <1>7. Link(e)[w[m]] = w[m]
    BY <1>2, <1>3 DEF Link
  <1>8. \A k \in Nat : k >= m => w[k] = w[m]
    BY <1>1, <1>7, WalkStays
  <1>9. Entries - 1 \in Nat /\ Entries - 1 >= m /\ m \in 0 .. (Entries - 1)
    BY <1>5, EntryIs
  <1>10. w[Entries - 1] = w[m]
    BY <1>8, <1>9
  <1>11. { w[k] : k \in 0 .. (Entries - 1) } = { w[k] : k \in 0 .. m }
    <2>1. ASSUME NEW k \in 0 .. (Entries - 1) PROVE \E j \in 0 .. m : w[k] = w[j]
      BY <1>8
    <2>2. 0 .. m \subseteq 0 .. (Entries - 1)
      BY <1>9
    <2> QED
      BY <2>1, <2>2
  <1> QED
    BY <1>3, <1>6, <1>8, <1>9, <1>10, <1>11 DEF Shape, w, Chain, LastEntry

Ended(e, i) == e[LastEntry(e, i)].next = NoNext

(* A chain that ends is met in m + 1 steps, for some m. *)
LEMMA ChainShape ==
  ASSUME NEW e \in Table, NEW i \in Entry, Ended(e, i)
  PROVE  \E m \in Nat : Shape(e, i, m)
  <1> DEFINE N == { k \in Nat : e[Walk(e, i)[k]].next = NoNext }
  <1>1. Entries - 1 \in N
    BY EntryIs DEF Ended, LastEntry
  <1>2. PICK m \in N : \A k \in N : m <= k
    BY <1>1, LeastNumber
  <1>3. Shape(e, i, m)
    BY <1>2, ChainUpTo
  <1> QED
    BY <1>3

(* A chain met in m + 1 steps ends. *)
LEMMA ShapeEnds ==
  ASSUME NEW e, NEW i, NEW m, Shape(e, i, m)
  PROVE  Ended(e, i)
  BY DEF Shape, Ended

(* A chain is the same in every directory that has the same links there. *)
LEMMA SameChain ==
  ASSUME NEW e \in Table, NEW h \in Table, NEW i \in Entry, NEW m \in Nat, Shape(e, i, m),
         \A c \in Chain(e, i) : h[c].next = e[c].next
  PROVE  /\ Walk(h, i) = Walk(e, i) /\ Chain(h, i) = Chain(e, i)
         /\ LastEntry(h, i) = LastEntry(e, i) /\ Shape(h, i, m)
  <1> DEFINE v == Walk(e, i)
             w == Walk(h, i)
  <1>2. IsWalk(v, Entry, i, Link(e)) /\ IsWalk(w, Entry, i, Link(h))
    BY WalkIs
  <1>3. v \in [Nat -> Entry] /\ w \in [Nat -> Entry]
    BY <1>2 DEF IsWalk
  <1>4. \A k \in 0 .. m : v[k] \in Chain(e, i)
    BY DEF Shape
  <1>5. \A k \in 0 .. m : h[v[k]].next = e[v[k]].next
    BY <1>4
  <1> HIDE DEF v, w
  <1>6. \A k \in 0 .. (m - 1) : Link(e)[v[k]] = Link(h)[v[k]]
    BY <1>3, <1>5 DEF Link
  <1>7. \A k \in 0 .. m : w[k] = v[k]
    BY <1>2, <1>6, WalksAgree
  <1>8. Shape(h, i, m)
    <2>1. e[v[m]].next = NoNext /\ \A k \in 0 .. (m - 1) : e[v[k]].next # NoNext
      BY DEF Shape, v
    <2>2. h[w[m]].next = NoNext /\ \A k \in 0 .. (m - 1) : h[w[k]].next # NoNext
      BY <1>5, <1>7, <2>1
    <2> QED
      BY <2>2, ChainUpTo DEF w
  <1>9. \A k \in Nat : w[k] = v[k]
    <2> SUFFICES ASSUME NEW k \in Nat PROVE w[k] = v[k]
      OBVIOUS
    <2>1. CASE k <= m
      BY <2>1, <1>7
    <2>2. CASE ~ (k <= m)
      <3>1. v[k] = v[m] /\ w[k] = w[m]
        BY <2>2, <1>8 DEF Shape, v, w
      <3> QED
        BY <3>1, <1>7
    <2> QED
      BY <2>1, <2>2
  <1>10. w = v
    BY <1>3, <1>9
  <1> QED
    BY <1>8, <1>10 DEF v, w, Chain, LastEntry
(* A chain cut behind step k. *)
LEMMA CutChain ==
  ASSUME NEW e \in Table, NEW h \in Table, NEW i \in Entry, NEW m \in Nat, Shape(e, i, m),
         NEW k \in 0 .. m, h[Walk(e, i)[k]].next = NoNext,
         \A a \in 0 .. (k - 1) : h[Walk(e, i)[a]].next = e[Walk(e, i)[a]].next
  PROVE  /\ Shape(h, i, k) /\ \A a \in 0 .. k : Walk(h, i)[a] = Walk(e, i)[a]
         /\ Chain(h, i) = { Walk(e, i)[a] : a \in 0 .. k } /\ LastEntry(h, i) = Walk(e, i)[k]
  <1> DEFINE v == Walk(e, i)
             w == Walk(h, i)
  <1>1. IsWalk(v, Entry, i, Link(e)) /\ IsWalk(w, Entry, i, Link(h)) /\ k \in Nat
    BY WalkIs
  <1>2. v \in [Nat -> Entry] /\ w \in [Nat -> Entry]
    BY <1>1 DEF IsWalk
  <1>3. /\ h[v[k]].next = NoNext
        /\ \A a \in 0 .. (k - 1) : h[v[a]].next = e[v[a]].next
        /\ \A a \in 0 .. (m - 1) : e[v[a]].next # NoNext
    BY DEF Shape
  <1> HIDE DEF v, w
  <1>4. \A a \in 0 .. (k - 1) : Link(e)[v[a]] = Link(h)[v[a]]
    BY <1>2, <1>3 DEF Link
  <1>5. \A a \in 0 .. k : w[a] = v[a]
    BY <1>1, <1>4, WalksAgree
  <1>6. h[w[k]].next = NoNext /\ \A a \in 0 .. (k - 1) : h[w[a]].next # NoNext
    BY <1>3, <1>5
  <1>7. Shape(h, i, k)
    BY <1>1, <1>6, ChainUpTo DEF w
  <1>8. Chain(h, i) = { w[a] : a \in 0 .. k } /\ LastEntry(h, i) = w[k]
    BY <1>7 DEF Shape, w
  <1> QED
    BY <1>1, <1>5, <1>7, <1>8 DEF v, w

(* A chain with another entry behind its last. *)
LEMMA LongerChain ==
  ASSUME NEW e \in Table, NEW h \in Table, NEW i \in Entry, NEW m \in Nat, Shape(e, i, m),
         NEW x \in Entry \ {NoNext}, x \notin Chain(e, i),
         h[LastEntry(e, i)].next = x, h[x].next = NoNext,
         \A c \in Chain(e, i) \ {LastEntry(e, i)} : h[c].next = e[c].next
  PROVE  /\ Shape(h, i, m + 1) /\ \A a \in 0 .. m : Walk(h, i)[a] = Walk(e, i)[a]
         /\ Walk(h, i)[m + 1] = x
         /\ Chain(h, i) = Chain(e, i) \cup {x} /\ LastEntry(h, i) = x
  <1> DEFINE v == Walk(e, i)
             w == Walk(h, i)
  <1>1. IsWalk(v, Entry, i, Link(e)) /\ IsWalk(w, Entry, i, Link(h))
    BY WalkIs
  <1>2. v \in [Nat -> Entry] /\ w \in [Nat -> Entry]
    BY <1>1 DEF IsWalk
  <1>3. /\ LastEntry(e, i) = v[m] /\ Chain(e, i) = { v[a] : a \in 0 .. m }
        /\ \A a, b \in 0 .. m : v[a] = v[b] => a = b
        /\ \A a \in 0 .. (m - 1) : e[v[a]].next # NoNext
    BY DEF Shape
  <1> HIDE DEF v, w
  <1>4. \A a \in 0 .. (m - 1) : h[v[a]].next = e[v[a]].next
    <2> SUFFICES ASSUME NEW a \in 0 .. (m - 1) PROVE h[v[a]].next = e[v[a]].next
      OBVIOUS
    <2>1. a \in 0 .. m /\ m \in 0 .. m /\ a # m
      OBVIOUS
    <2> QED
      BY <1>3, <2>1
  <1>5. \A a \in 0 .. (m - 1) : Link(e)[v[a]] = Link(h)[v[a]]
    BY <1>2, <1>4 DEF Link
  <1>6. \A a \in 0 .. m : w[a] = v[a]
    BY <1>1, <1>5, WalksAgree
  <1>7. w[m + 1] = x
    <2>1. w[m + 1] = Link(h)[w[m]] /\ w[m] = v[m]
      BY <1>1, <1>6 DEF IsWalk
    <2> QED
      BY <1>2, <1>3, <2>1 DEF Link
  <1>8. h[w[m + 1]].next = NoNext /\ \A a \in 0 .. ((m + 1) - 1) : h[w[a]].next # NoNext
    <2> SUFFICES ASSUME NEW a \in 0 .. m PROVE h[w[a]].next # NoNext
      BY <1>7
    <2>1. CASE a = m
      BY <2>1, <1>3, <1>6
    <2>2. CASE a # m
      BY <2>2, <1>3, <1>4, <1>6
    <2> QED
      BY <2>1, <2>2
  <1>9. Shape(h, i, m + 1)
    BY <1>8, ChainUpTo DEF w
  <1>10. Chain(h, i) = { w[a] : a \in 0 .. (m + 1) } /\ LastEntry(h, i) = w[m + 1]
    BY <1>9 DEF Shape, w
  <1>11. { w[a] : a \in 0 .. (m + 1) } = { v[a] : a \in 0 .. m } \cup {x}
    <2>1. \A a \in 0 .. (m + 1) : a \in 0 .. m \/ a = m + 1
      OBVIOUS
    <2>2. 0 .. m \subseteq 0 .. (m + 1) /\ m + 1 \in 0 .. (m + 1)
      OBVIOUS
    <2> QED
      BY <1>6, <1>7, <2>1, <2>2
  <1> QED
    BY <1>3, <1>6, <1>7, <1>9, <1>10, <1>11 DEF v, w

(* An entry with no next one is a chain by itself, and its last entry. *)
LEMMA AloneChain ==
  ASSUME NEW e \in Table, NEW i \in Entry, e[i].next = NoNext
  PROVE  Shape(e, i, 0) /\ Chain(e, i) = {i} /\ LastEntry(e, i) = i
  <1>1. Walk(e, i)[0] = i
    BY WalkType
  <1>2. Shape(e, i, 0)
    BY <1>1, ChainUpTo
  <1> QED
    BY <1>1, <1>2 DEF Shape

(* What follows an entry of a chain. *)
LEMMA RestOfChain ==
  ASSUME NEW e \in Table, NEW i \in Entry, NEW m \in Nat, Shape(e, i, m), NEW k \in 0 .. m
  PROVE  /\ Walk(e, i)[k] \in Entry /\ Shape(e, Walk(e, i)[k], m - k)
         /\ \A a \in Nat : Walk(e, Walk(e, i)[k])[a] = Walk(e, i)[k + a]
  <1> DEFINE v == Walk(e, i)
             w == Walk(e, v[k])
  <1>0. k \in Nat
    OBVIOUS
  <1>1. v \in [Nat -> Entry]
        /\ \A a \in Nat : v[a + 1] = IF e[v[a]].next = NoNext THEN v[a] ELSE e[v[a]].next
    BY WalkType
  <1>2. v[k] \in Entry
    BY <1>0, <1>1
  <1>3. /\ w \in [Nat -> Entry] /\ w[0] = v[k]
        /\ \A a \in Nat : w[a + 1] = IF e[w[a]].next = NoNext THEN w[a] ELSE e[w[a]].next
    BY <1>2, WalkType
  <1>4. e[v[m]].next = NoNext /\ \A a \in 0 .. (m - 1) : e[v[a]].next # NoNext
    BY DEF Shape
  <1> HIDE DEF v, w
  <1> DEFINE N == { a \in Nat : w[a] = v[k + a] }
  <1>5. 0 \in N
    BY <1>1, <1>3
  <1>6. ASSUME NEW a \in Nat, a \in N PROVE a + 1 \in N
    <2>1. k + a \in Nat /\ k + (a + 1) = (k + a) + 1
      BY <1>0
    <2>2. w[a] = v[k + a]
      BY <1>6
    <2> QED
      BY <1>1, <1>3, <2>1, <2>2
  <1> HIDE DEF N
  <1>7. \A a \in Nat : w[a] = v[k + a]
    BY <1>5, <1>6, AllNumbers DEF N
  <1>8. m - k \in Nat /\ k + (m - k) = m
    OBVIOUS
  <1>9. e[w[m - k]].next = NoNext
    BY <1>4, <1>7, <1>8
  <1>10. \A a \in 0 .. ((m - k) - 1) : e[w[a]].next # NoNext
    <2> SUFFICES ASSUME NEW a \in 0 .. ((m - k) - 1) PROVE e[w[a]].next # NoNext
      OBVIOUS
    <2>1. k + a \in 0 .. (m - 1) /\ a \in Nat
      OBVIOUS
    <2> QED
      BY <1>4, <1>7, <2>1
  <1>11. Shape(e, v[k], m - k)
    BY <1>2, <1>8, <1>9, <1>10, ChainUpTo DEF w
  <1> QED
    BY <1>2, <1>7, <1>11 DEF v, w
-----------------------------------------------------------------------------
(* Concatenations *)

(* Concatenation is associative. *)
LEMMA ConcatThree == \A a, b, c \in Seq(Nat) : (a \o b) \o c = a \o (b \o c)
  BY ConcatAssociative

(* F[k] is the concatenation of the first k pieces of p. *)
IsConcat(F, p, m) ==
  /\ p \in [1 .. m -> Seq(Nat)] /\ F \in [0 .. m -> Seq(Nat)]
  /\ F[0] = << >>
  /\ \A k \in 1 .. m : F[k] = F[k - 1] \o p[k]

Concatenates(F, p, k) ==
  /\ F \in [0 .. k -> Seq(Nat)] /\ F[0] = << >>
  /\ \A a \in 1 .. k : F[a] = F[a - 1] \o p[a]

(* The pieces of any list have a concatenation. *)
LEMMA ConcatExists ==
  ASSUME NEW m \in Nat, NEW p \in [1 .. m -> Seq(Nat)]
  PROVE  \E F : IsConcat(F, p, m)
  <1> DEFINE N == { k \in Nat : k <= m => \E F : Concatenates(F, p, k) }
  <1>1. 0 \in N
    <2>1. Concatenates([k \in 0 .. 0 |-> << >>], p, 0)
      BY DEF Concatenates
    <2> QED
      BY <2>1
  <1>2. ASSUME NEW k \in Nat, k \in N PROVE k + 1 \in N
    <2> SUFFICES ASSUME k + 1 <= m PROVE \E F : Concatenates(F, p, k + 1)
      OBVIOUS
    <2>1. PICK F : Concatenates(F, p, k)
      BY <1>2
    <2> DEFINE G == [a \in 0 .. (k + 1) |-> IF a = k + 1 THEN F[k] \o p[k + 1] ELSE F[a]]
    <2>0. k \in 0 .. k /\ k + 1 \in 1 .. m /\ (k + 1) - 1 = k /\ k \in 0 .. (k + 1)
          /\ k + 1 \in 0 .. (k + 1) /\ k # k + 1
      OBVIOUS
    <2>2. F \in [0 .. k -> Seq(Nat)] /\ F[0] = << >>
          /\ \A a \in 1 .. k : F[a] = F[a - 1] \o p[a]
      BY <2>1 DEF Concatenates
    <2>3. F[k] \o p[k + 1] \in Seq(Nat)
      BY <2>0, <2>2, ConcatProperties
    <2>4. G \in [0 .. (k + 1) -> Seq(Nat)] /\ G[0] = << >>
      <3>1. ASSUME NEW a \in 0 .. (k + 1), a # k + 1 PROVE F[a] \in Seq(Nat)
        BY <2>2, <3>1
      <3> QED
        BY <2>0, <2>2, <2>3, <3>1
    <2>5. ASSUME NEW a \in 1 .. (k + 1) PROVE G[a] = G[a - 1] \o p[a]
      <3>1. CASE a = k + 1
        <4>1. G[k + 1] = F[k] \o p[k + 1] /\ G[k] = F[k]
          BY <2>0
        <4> QED
          BY <2>0, <3>1, <4>1
      <3>2. CASE a # k + 1
        <4>1. G[a] = F[a] /\ G[a - 1] = F[a - 1] /\ a \in 1 .. k
          BY <3>2
        <4> QED
          BY <2>2, <4>1
      <3> QED
        BY <3>1, <3>2
    <2> HIDE DEF G
    <2> QED
      BY <2>4, <2>5 DEF Concatenates
  <1> HIDE DEF N
  <1>3. Nat \subseteq N
    BY <1>1, <1>2, AllNumbers
  <1>4. \E F : Concatenates(F, p, m)
    BY <1>3 DEF N
  <1> QED
    BY <1>4 DEF IsConcat, Concatenates

(* What is concatenated of the same pieces is the same. *)
LEMMA ConcatSame ==
  ASSUME NEW m \in Nat, NEW j \in Nat, NEW F, NEW G, NEW p, NEW q,
         IsConcat(F, p, m), IsConcat(G, q, j),
         NEW l \in Nat, l <= m, l <= j, \A k \in 1 .. l : p[k] = q[k]
  PROVE  \A k \in 0 .. l : F[k] = G[k]
  <1> DEFINE N == { k \in Nat : k <= l => F[k] = G[k] }
  <1>1. 0 \in N
    BY DEF IsConcat
  <1>2. ASSUME NEW k \in Nat, k \in N PROVE k + 1 \in N
    <2> SUFFICES ASSUME k + 1 <= l PROVE F[k + 1] = G[k + 1]
      OBVIOUS
    <2>1. k + 1 \in 1 .. m /\ k + 1 \in 1 .. j /\ k + 1 \in 1 .. l /\ (k + 1) - 1 = k
      OBVIOUS
    <2>2. F[k] = G[k]
      BY <1>2
    <2> QED
      BY <2>1, <2>2 DEF IsConcat
  <1> HIDE DEF N
  <1>3. Nat \subseteq N
    BY <1>1, <1>2, AllNumbers
  <1> QED
    BY <1>3 DEF N

Begins(a, b) == Len(a) <= Len(b) /\ \A k \in 1 .. Len(a) : a[k] = b[k]

(* A list that begins another is its first part, and the other way round. *)
LEMMA BeginsIs ==
  ASSUME NEW a \in Seq(Nat), NEW b \in Seq(Nat)
  PROVE  /\ Begins(a, b) => a = SubSeq(b, 1, Len(a))
         /\ Begins(a, a \o b)
         /\ Begins(a, b) /\ Len(a) = Len(b) => a = b
  <1>1. Begins(a, b) => a = SubSeq(b, 1, Len(a))
    <2> SUFFICES ASSUME Begins(a, b) PROVE a = SubSeq(b, 1, Len(a))
      OBVIOUS
    <2>1. Len(a) <= Len(b) /\ Len(a) \in Nat /\ Len(b) \in Nat
      BY DEF Begins
    <2>2. \A k \in 1 .. Len(a) : b[k] \in Nat
      BY <2>1
    <2>3. /\ SubSeq(b, 1, Len(a)) \in Seq(Nat)
          /\ Len(SubSeq(b, 1, Len(a))) = Len(a)
          /\ \A k \in 1 .. Len(a) : SubSeq(b, 1, Len(a))[k] = b[k]
      BY <2>1, <2>2
    <2> QED
      BY <2>3, SeqEqual DEF Begins
  <1>2. Begins(a, a \o b)
    BY DEF Begins
  <1>3. Begins(a, b) /\ Len(a) = Len(b) => a = b
    BY SeqEqual DEF Begins
  <1> QED
    BY <1>1, <1>2, <1>3

(* What begins the beginning of a list begins that list. *)
LEMMA BeginsTransitive ==
  ASSUME NEW a \in Seq(Nat), NEW b \in Seq(Nat), NEW c \in Seq(Nat), Begins(a, b), Begins(b, c)
  PROVE  Begins(a, c)
  BY DEF Begins

(* What is concatenated of fewer pieces is its beginning. *)
LEMMA ConcatBegins ==
  ASSUME NEW m \in Nat, NEW F, NEW p, IsConcat(F, p, m), NEW j \in 0 .. m
  PROVE  \A k \in j .. m : Begins(F[j], F[k])
  <1> DEFINE N == { k \in Nat : k >= j /\ k <= m => Begins(F[j], F[k]) }
  <1>1. 0 \in N
    <2>1. 0 >= j => j = 0
      OBVIOUS
    <2> QED
      BY <2>1 DEF Begins
  <1>2. ASSUME NEW k \in Nat, k \in N PROVE k + 1 \in N
    <2> SUFFICES ASSUME k + 1 >= j, k + 1 <= m PROVE Begins(F[j], F[k + 1])
      OBVIOUS
    <2>1. CASE k + 1 = j
      BY <2>1 DEF Begins
    <2>2. CASE k + 1 # j
      <3>1. k >= j /\ k + 1 \in 1 .. m /\ k \in 0 .. m /\ (k + 1) - 1 = k /\ k + 1 \in 0 .. m
        BY <2>2
      <3>2. Begins(F[j], F[k])
        BY <1>2, <3>1
      <3>3. F[k + 1] = F[k] \o p[k + 1] /\ F[j] \in Seq(Nat) /\ F[k] \in Seq(Nat)
            /\ p[k + 1] \in Seq(Nat) /\ F[k + 1] \in Seq(Nat)
        BY <3>1 DEF IsConcat
      <3>4. Begins(F[k], F[k + 1])
        BY <3>3, BeginsIs
      <3> QED
        BY <3>2, <3>3, <3>4, BeginsTransitive
    <2> QED
      BY <2>1, <2>2
  <1> HIDE DEF N
  <1>3. Nat \subseteq N
    BY <1>1, <1>2, AllNumbers
  <1> QED
    BY <1>3 DEF N

(* What is in it is in some piece. *)
LEMMA ConcatRange ==
  ASSUME NEW m \in Nat, NEW F, NEW p, IsConcat(F, p, m)
  PROVE  Range(F[m]) = UNION { Range(p[k]) : k \in 1 .. m }
  <1> DEFINE N == { k \in Nat : k <= m => Range(F[k]) = UNION { Range(p[a]) : a \in 1 .. k } }
  <1>1. 0 \in N
    <2>1. F[0] = << >>
      BY DEF IsConcat
    <2>2. Range(<< >>) = {} /\ 1 .. 0 = {}
      BY DEF Range
    <2> QED
      BY <2>1, <2>2
  <1>2. ASSUME NEW k \in Nat, k \in N PROVE k + 1 \in N
    <2> SUFFICES ASSUME k + 1 <= m
                 PROVE  Range(F[k + 1]) = UNION { Range(p[a]) : a \in 1 .. (k + 1) }
      OBVIOUS
    <2>1. k + 1 \in 1 .. m /\ k \in 0 .. m /\ (k + 1) - 1 = k
      OBVIOUS
    <2>2. F[k + 1] = F[k] \o p[k + 1] /\ F[k] \in Seq(Nat) /\ p[k + 1] \in Seq(Nat)
      BY <2>1 DEF IsConcat
    <2>3. Range(F[k + 1]) = Range(F[k]) \cup Range(p[k + 1])
      BY <2>2, RangeConcatenation
    <2>4. Range(F[k]) = UNION { Range(p[a]) : a \in 1 .. k }
      BY <1>2, <2>1
    <2>5. \A a : a \in 1 .. (k + 1) <=> a \in 1 .. k \/ a = k + 1
      OBVIOUS
    <2> QED
      BY <2>3, <2>4, <2>5
  <1> HIDE DEF N
  <1>3. Nat \subseteq N
    BY <1>1, <1>2, AllNumbers
  <1> QED
    BY <1>3 DEF N

(* FlattenSeq is the concatenation of all pieces. *)
LEMMA FlattenIs ==
  ASSUME NEW p, NEW m \in Nat, NEW F, IsConcat(F, p, m)
  PROVE  FlattenSeq(p) = F[m]
  <1>1. p \in [1 .. m -> Seq(Nat)] /\ F \in [0 .. m -> Seq(Nat)] /\ F[0] = << >>
        /\ \A k \in 1 .. m : F[k] = F[k - 1] \o p[k]
    BY DEF IsConcat
  <1>2. Len(p) = m
    BY <1>1
  <1>3. CASE m = 0
    <2>1. p = << >>
      BY <1>1, <1>3
    <2> QED
      BY <1>1, <1>2, <1>3, <2>1 DEF FlattenSeq
  <1>4. CASE m # 0
    <2> DEFINE g == [k \in 1 .. m |-> F[k]]
    <2>1. 1 \in 1 .. m /\ m \in 1 .. m
      BY <1>4
    <2>2. F[1] = p[1]
      <3>1. p[1] \in Seq(Nat)
        BY <1>1, <2>1
      <3>2. F[1] = << >> \o p[1]
        <4>1. PICK k \in 1 .. m : k = 1
          BY <2>1
        <4>2. F[k] = F[k - 1] \o p[k]
          BY <1>1
        <4>3. k - 1 = 0
          BY <4>1
        <4> QED
          BY <1>1, <4>1, <4>2, <4>3
      <3> QED
        BY <3>1, <3>2, ConcatEmptySeq
    <2>3. \A k \in 1 .. m : k # 1 => k - 1 \in 1 .. m
      OBVIOUS
    <2>4. ASSUME NEW k \in 1 .. m PROVE g[k] = IF k = 1 THEN p[k] ELSE g[k - 1] \o p[k]
      <3>1. CASE k = 1
        BY <2>1, <2>2, <3>1
      <3>2. CASE k # 1
        BY <1>1, <2>3, <3>2
      <3> QED
        BY <3>1, <3>2
    <2>5. g = [k \in 1 .. m |-> IF k = 1 THEN p[k] ELSE g[k - 1] \o p[k]]
      BY <2>4
    <2> HIDE DEF g
    <2>6. \E h : h = [k \in 1 .. Len(p) |-> IF k = 1 THEN p[k] ELSE h[k - 1] \o p[k]]
      BY <1>2, <2>5
    <2>7. \E h : /\ h = [k \in 1 .. Len(p) |-> IF k = 1 THEN p[k] ELSE h[k - 1] \o p[k]]
                 /\ FlattenSeq(p) = h[Len(p)]
      BY <1>2, <1>4, <2>6 DEF FlattenSeq
    <2>8. PICK h : /\ h = [k \in 1 .. m |-> IF k = 1 THEN p[k] ELSE h[k - 1] \o p[k]]
                   /\ FlattenSeq(p) = h[m]
      BY <1>2, <2>7
    <2> DEFINE N == { k \in Nat : k \in 1 .. m => h[k] = F[k] }
    <2>9. 0 \in N
      OBVIOUS
    <2>10. ASSUME NEW k \in Nat, k \in N PROVE k + 1 \in N
      <3> SUFFICES ASSUME k + 1 \in 1 .. m PROVE h[k + 1] = F[k + 1]
        OBVIOUS
      <3>1. h[k + 1] = IF k + 1 = 1 THEN p[k + 1] ELSE h[(k + 1) - 1] \o p[k + 1]
        BY <2>8
      <3>2. CASE k = 0
        BY <2>2, <3>1, <3>2
      <3>3. CASE k # 0
        <4>1. k \in 1 .. m /\ (k + 1) - 1 = k /\ k + 1 # 1
          BY <3>3
        <4>2. h[k] = F[k]
          BY <2>10, <4>1
        <4> QED
          BY <1>1, <3>1, <4>1, <4>2
      <3> QED
        BY <3>2, <3>3
    <2> HIDE DEF N
    <2>11. m \in N
      BY <2>9, <2>10, AllNumbers
    <2> QED
      BY <2>1, <2>8, <2>11 DEF N
  <1> QED
    BY <1>3, <1>4

-----------------------------------------------------------------------------
(* The sectors of extents *)

Run(x) == [k \in 1 .. x.count |-> x.lsn + k - 1]

Runs(x) == [j \in 1 .. Len(x) |-> Run(x[j])]

FirstOf(x, k) == SectorsOf(SubSeq(x, 1, k))

(* An extent's sectors, one after the other, are as many as it counts. *)
LEMMA RunIs ==
  ASSUME NEW x \in AnyExtent
  PROVE  /\ Run(x) \in Seq(Nat) /\ Len(Run(x)) = x.count
         /\ Range(Run(x)) = x.lsn .. (x.lsn + x.count - 1)
  <1>1. x.lsn \in Nat /\ x.count \in Nat
    BY DEF AnyExtent
  <1>2. Run(x) \in [1 .. x.count -> Nat]
    BY <1>1 DEF Run
  <1>3. Run(x) \in Seq(Nat) /\ Len(Run(x)) = x.count
    BY <1>1, <1>2
  <1>4. Range(Run(x)) = { x.lsn + k - 1 : k \in 1 .. x.count }
    BY <1>1 DEF Run, Range
  <1>5. ASSUME NEW l \in x.lsn .. (x.lsn + x.count - 1)
        PROVE  l - x.lsn + 1 \in 1 .. x.count /\ x.lsn + (l - x.lsn + 1) - 1 = l
    BY <1>1
  <1>6. \A k \in 1 .. x.count : x.lsn + k - 1 \in x.lsn .. (x.lsn + x.count - 1)
    BY <1>1
  <1> QED
    BY <1>3, <1>4, <1>5, <1>6

(* The runs of a list of extents, one for each. *)
LEMMA RunsAre ==
  ASSUME NEW x \in Seq(AnyExtent)
  PROVE  /\ Runs(x) \in [1 .. Len(x) -> Seq(Nat)] /\ Len(x) \in Nat
         /\ SectorsOf(x) = FlattenSeq(Runs(x))
  <1>1. DOMAIN x = 1 .. Len(x) /\ Len(x) \in Nat /\ \A j \in 1 .. Len(x) : x[j] \in AnyExtent
    OBVIOUS
  <1>2. \A j \in 1 .. Len(x) : Run(x[j]) \in Seq(Nat)
    BY <1>1, RunIs
  <1> QED
    BY <1>1, <1>2 DEF Runs, SectorsOf, Run

(* The sectors of the first extents are a concatenation. *)
LEMMA FirstOfIs ==
  ASSUME NEW x \in Seq(AnyExtent)
  PROVE  \E F : /\ IsConcat(F, Runs(x), Len(x)) /\ SectorsOf(x) = F[Len(x)]
                /\ \A k \in 0 .. Len(x) : FirstOf(x, k) = F[k]
  <1>1. Runs(x) \in [1 .. Len(x) -> Seq(Nat)] /\ Len(x) \in Nat
    BY RunsAre
  <1>2. PICK F : IsConcat(F, Runs(x), Len(x))
    BY <1>1, ConcatExists
  <1>3. SectorsOf(x) = F[Len(x)]
    BY <1>1, <1>2, RunsAre, FlattenIs
  <1>4. ASSUME NEW k \in 0 .. Len(x) PROVE FirstOf(x, k) = F[k]
    <2> DEFINE y == SubSeq(x, 1, k)
    <2>1. y \in Seq(AnyExtent) /\ Len(y) = k /\ \A j \in 1 .. k : y[j] = x[j]
      OBVIOUS
    <2> HIDE DEF y
    <2>2. Runs(y) \in [1 .. k -> Seq(Nat)] /\ SectorsOf(y) = FlattenSeq(Runs(y))
      BY <2>1, RunsAre
    <2>3. PICK G : IsConcat(G, Runs(y), k)
      BY <2>2, ConcatExists
    <2>4. SectorsOf(y) = G[k]
      BY <2>2, <2>3, FlattenIs
    <2>5. \A j \in 1 .. k : Runs(x)[j] = Runs(y)[j]
      BY <2>1 DEF Runs
    <2>6. k \in Nat /\ k <= Len(x) /\ k <= k /\ k \in 0 .. k
      OBVIOUS
    <2>7. \A a \in 0 .. k : F[a] = G[a]
      <3> DEFINE p == Runs(x)
                 q == Runs(y)
                 m == Len(x)
      <3>1. IsConcat(F, p, m) /\ IsConcat(G, q, k) /\ m \in Nat /\ k \in Nat /\ k <= m
            /\ \A j \in 1 .. k : p[j] = q[j]
        BY <1>1, <1>2, <2>3, <2>5, <2>6
      <3> HIDE DEF p, q, m
      <3> QED
        BY <3>1, ConcatSame
    <2> QED
      BY <2>4, <2>6, <2>7 DEF y, FirstOf
  <1> QED
    BY <1>2, <1>3, <1>4

(* The sectors of a list of extents are those of its runs put together. *)
LEMMA SectorsOfIs ==
  ASSUME NEW x \in Seq(AnyExtent)
  PROVE  /\ SectorsOf(x) \in Seq(Nat) /\ Len(x) \in Nat
         /\ \A k \in 0 .. Len(x) : FirstOf(x, k) \in Seq(Nat)
         /\ FirstOf(x, 0) = << >> /\ FirstOf(x, Len(x)) = SectorsOf(x)
         /\ \A k \in 1 .. Len(x) : FirstOf(x, k) = FirstOf(x, k - 1) \o Run(x[k])
         /\ \A j \in 0 .. Len(x) : \A k \in j .. Len(x) : Begins(FirstOf(x, j), FirstOf(x, k))
         /\ Range(SectorsOf(x)) = UNION { Range(Run(x[k])) : k \in 1 .. Len(x) }
  <1>1. PICK F : /\ IsConcat(F, Runs(x), Len(x)) /\ SectorsOf(x) = F[Len(x)]
                 /\ \A k \in 0 .. Len(x) : FirstOf(x, k) = F[k]
    BY FirstOfIs
  <1>2. Len(x) \in Nat /\ 0 \in 0 .. Len(x) /\ Len(x) \in 0 .. Len(x)
    OBVIOUS
  <1>3. F \in [0 .. Len(x) -> Seq(Nat)] /\ F[0] = << >>
        /\ \A k \in 1 .. Len(x) : F[k] = F[k - 1] \o Runs(x)[k]
    BY <1>1 DEF IsConcat
  <1>4. \A k \in 1 .. Len(x) : Runs(x)[k] = Run(x[k])
    BY DEF Runs
  <1>5. \A k \in 1 .. Len(x) : k - 1 \in 0 .. Len(x) /\ k \in 0 .. Len(x)
    OBVIOUS
  <1>6. \A k \in 1 .. Len(x) : FirstOf(x, k) = FirstOf(x, k - 1) \o Run(x[k])
    BY <1>1, <1>3, <1>4, <1>5
  <1>7. ASSUME NEW j \in 0 .. Len(x), NEW k \in j .. Len(x) PROVE Begins(FirstOf(x, j), FirstOf(x, k))
    <2>1. k \in 0 .. Len(x)
      OBVIOUS
    <2>2. Begins(F[j], F[k])
      BY <1>1, <1>2, ConcatBegins
    <2> QED
      BY <1>1, <2>1, <2>2
  <1>8. Range(SectorsOf(x)) = UNION { Range(Run(x[k])) : k \in 1 .. Len(x) }
    <2>1. Range(F[Len(x)]) = UNION { Range(Runs(x)[k]) : k \in 1 .. Len(x) }
      BY <1>1, <1>2, ConcatRange
    <2> QED
      BY <1>1, <1>4, <2>1
  <1> QED
    BY <1>1, <1>2, <1>3, <1>6, <1>7, <1>8

(* Extents that are the same up to one have the same sectors there. *)
LEMMA SameFirst ==
  ASSUME NEW x \in Seq(AnyExtent), NEW y \in Seq(AnyExtent), NEW k \in Nat,
         k <= Len(x), k <= Len(y), \A j \in 1 .. k : x[j] = y[j]
  PROVE  FirstOf(x, k) = FirstOf(y, k)
  <1>1. /\ SubSeq(x, 1, k) \in Seq(AnyExtent) /\ Len(SubSeq(x, 1, k)) = k
        /\ SubSeq(y, 1, k) \in Seq(AnyExtent) /\ Len(SubSeq(y, 1, k)) = k
        /\ \A j \in 1 .. k : SubSeq(x, 1, k)[j] = x[j] /\ SubSeq(y, 1, k)[j] = y[j]
    OBVIOUS
  <1>2. SubSeq(x, 1, k) = SubSeq(y, 1, k)
    BY <1>1, SeqEqual
  <1> QED
    BY <1>2 DEF FirstOf

(* No extents, no sectors. *)
LEMMA SectorsOfNone == SectorsOf(<< >>) = << >>
  <1>1. << >> \in Seq(AnyExtent) /\ Len(<< >>) = 0
    OBVIOUS
  <1> QED
    BY <1>1, SectorsOfIs

(* One more extent adds its sectors at the end. *)
LEMMA SectorsOfAppend ==
  ASSUME NEW x \in Seq(AnyExtent), NEW y \in AnyExtent
  PROVE  SectorsOf(Append(x, y)) = SectorsOf(x) \o Run(y)
  <1> DEFINE z == Append(x, y)
  <1>1. z \in Seq(AnyExtent) /\ Len(z) = Len(x) + 1 /\ z[Len(x) + 1] = y
        /\ \A j \in 1 .. Len(x) : z[j] = x[j]
    BY AppendProperties
  <1> HIDE DEF z
  <1>2. Len(x) \in Nat /\ Len(x) + 1 \in 1 .. Len(z) /\ (Len(x) + 1) - 1 = Len(x)
    BY <1>1
  <1>3. FirstOf(z, Len(x)) = FirstOf(x, Len(x))
    BY <1>1, <1>2, SameFirst
  <1>4. FirstOf(z, Len(x) + 1) = FirstOf(z, Len(x)) \o Run(y)
    BY <1>1, <1>2, SectorsOfIs
  <1>5. FirstOf(z, Len(x) + 1) = SectorsOf(z) /\ FirstOf(x, Len(x)) = SectorsOf(x)
    BY <1>1, SectorsOfIs
  <1> QED
    BY <1>3, <1>4, <1>5 DEF z

(* An extent in two parts. *)
LEMMA RunInParts ==
  ASSUME NEW l \in Nat, NEW a \in Nat, NEW b \in Nat
  PROVE  Run([lsn |-> l, count |-> a + b])
           = Run([lsn |-> l, count |-> a]) \o Run([lsn |-> l + a, count |-> b])
  <1> DEFINE r == Run([lsn |-> l, count |-> a + b])
             p == Run([lsn |-> l, count |-> a])
             q == Run([lsn |-> l + a, count |-> b])
  <1>1. /\ [lsn |-> l, count |-> a + b] \in AnyExtent /\ [lsn |-> l, count |-> a] \in AnyExtent
        /\ [lsn |-> l + a, count |-> b] \in AnyExtent
    BY DEF AnyExtent
  <1>2. r \in Seq(Nat) /\ Len(r) = a + b /\ p \in Seq(Nat) /\ Len(p) = a
        /\ q \in Seq(Nat) /\ Len(q) = b
    BY <1>1, RunIs
  <1>3. /\ \A k \in 1 .. (a + b) : r[k] = l + k - 1
        /\ \A k \in 1 .. a : p[k] = l + k - 1
        /\ \A k \in 1 .. b : q[k] = l + a + k - 1
    BY DEF Run
  <1> HIDE DEF p, q, r
  <1>4. p \o q \in Seq(Nat) /\ Len(p \o q) = a + b
        /\ \A k \in 1 .. (a + b) : (p \o q)[k] = IF k <= a THEN p[k] ELSE q[k - a]
    BY <1>2, ConcatProperties
  <1>5. ASSUME NEW k \in 1 .. (a + b) PROVE r[k] = (p \o q)[k]
    <2>1. CASE k <= a
      BY <1>3, <1>4, <2>1
    <2>2. CASE ~ (k <= a)
      <3>1. k - a \in 1 .. b /\ l + a + (k - a) - 1 = l + k - 1
        BY <2>2
      <3> QED
        BY <1>3, <1>4, <2>2, <3>1
    <2> QED
      BY <2>1, <2>2
  <1>6. r = p \o q
    BY <1>2, <1>4, <1>5, SeqEqual
  <1> QED
    BY <1>6 DEF p, q, r

(* The last extent with more sectors. *)
LEMMA SectorsOfGrown ==
  ASSUME NEW x \in Seq(AnyExtent), x # << >>, NEW u \in Nat,
         NEW y \in Seq(AnyExtent), Len(y) = Len(x),
         \A j \in 1 .. (Len(x) - 1) : y[j] = x[j],
         y[Len(x)].lsn = x[Len(x)].lsn, y[Len(x)].count = x[Len(x)].count + u
  PROVE  SectorsOf(y)
           = SectorsOf(x) \o Run([lsn |-> x[Len(x)].lsn + x[Len(x)].count, count |-> u])
  <1> DEFINE n == Len(x)
             b == x[n]
             c == y[n]
             r == Run([lsn |-> b.lsn + b.count, count |-> u])
  <1>1. n \in Nat /\ n \in 1 .. n /\ n - 1 \in 0 .. n /\ n - 1 \in Nat /\ b \in AnyExtent /\ c \in AnyExtent
    OBVIOUS
  <1>2. b.lsn \in Nat /\ b.count \in Nat /\ b = [lsn |-> b.lsn, count |-> b.count]
        /\ c = [lsn |-> c.lsn, count |-> c.count]
        /\ c.lsn = b.lsn /\ c.count = b.count + u
    BY <1>1 DEF AnyExtent
  <1>3. FirstOf(y, n - 1) = FirstOf(x, n - 1)
    BY <1>1, SameFirst
  <1>4. SectorsOf(y) = FirstOf(y, n - 1) \o Run(c) /\ SectorsOf(x) = FirstOf(x, n - 1) \o Run(b)
        /\ FirstOf(x, n - 1) \in Seq(Nat)
    BY <1>1, SectorsOfIs
  <1>5. Run(c) = Run(b) \o r
    <2>1. c = [lsn |-> b.lsn, count |-> b.count + u]
      BY <1>2
    <2> DEFINE l == b.lsn
               a == b.count
    <2>2. l \in Nat /\ a \in Nat /\ b = [lsn |-> l, count |-> a]
          /\ c = [lsn |-> l, count |-> a + u] /\ r = Run([lsn |-> l + a, count |-> u])
      BY <1>2, <2>1
    <2> HIDE DEF l, a, b, c, r
    <2> QED
      BY <2>2, RunInParts
  <1>6. Run(b) \in Seq(Nat) /\ r \in Seq(Nat)
    <2>1. [lsn |-> b.lsn + b.count, count |-> u] \in AnyExtent
      BY <1>2 DEF AnyExtent
    <2> QED
      BY <1>1, <2>1, RunIs
  <1> HIDE DEF n, b, c, r
  <1>7. SectorsOf(y) = SectorsOf(x) \o r
    <2>1. PICK f \in Seq(Nat) : f = FirstOf(x, n - 1)
      BY <1>4
    <2>2. (f \o Run(b)) \o r = f \o (Run(b) \o r)
      BY <1>6, ConcatThree
    <2> QED
      BY <1>3, <1>4, <1>5, <2>1, <2>2
  <1> QED
    BY <1>7 DEF n, b, r

(* An extent is its first sector and its count. *)
LEMMA ExtentIs ==
  ASSUME NEW x \in AnyExtent
  PROVE  /\ x.lsn \in Nat /\ x.count \in Nat /\ x = [lsn |-> x.lsn, count |-> x.count]
         /\ \A c : [x EXCEPT !.count = c] = [lsn |-> x.lsn, count |-> c]
  BY DEF AnyExtent

(* What begins a list still does after the same beginning is put before     *)
(* both.                                                                    *)
LEMMA BeginsConcat ==
  ASSUME NEW g \in Seq(Nat), NEW u \in Seq(Nat), NEW v \in Seq(Nat), Begins(u, v)
  PROVE  Begins(g \o u, g \o v)
  <1>1. Len(u) <= Len(v) /\ \A k \in 1 .. Len(u) : u[k] = v[k]
    BY DEF Begins
  <1>2. Len(g) \in Nat /\ Len(u) \in Nat /\ Len(v) \in Nat
    OBVIOUS
  <1>3. PICK a, b : a = g \o u /\ b = g \o v
    OBVIOUS
  <1>4. /\ Len(a) = Len(g) + Len(u) /\ Len(b) = Len(g) + Len(v)
        /\ \A k \in 1 .. (Len(g) + Len(u)) : a[k] = IF k <= Len(g) THEN g[k] ELSE u[k - Len(g)]
        /\ \A k \in 1 .. (Len(g) + Len(v)) : b[k] = IF k <= Len(g) THEN g[k] ELSE v[k - Len(g)]
    BY <1>3, ConcatProperties
  <1>5. ASSUME NEW k \in 1 .. (Len(g) + Len(u)) PROVE a[k] = b[k]
    <2>1. k \in 1 .. (Len(g) + Len(v))
      BY <1>1, <1>2
    <2>2. CASE k <= Len(g)
      BY <1>4, <2>1, <2>2
    <2>3. CASE ~ (k <= Len(g))
      <3>1. k - Len(g) \in 1 .. Len(u)
        BY <1>2, <2>3
      <3>2. u[k - Len(g)] = v[k - Len(g)]
        BY <1>1, <3>1
      <3> QED
        BY <1>4, <2>1, <2>3, <3>2
    <2> QED
      BY <2>2, <2>3
  <1>6. Len(a) <= Len(b) /\ \A k \in 1 .. Len(a) : a[k] = b[k]
    BY <1>1, <1>2, <1>4, <1>5
  <1> QED
    BY <1>3, <1>6 DEF Begins

(* Extents x of which y is left. *)
Shortened(x, y) ==
  /\ Len(y) <= Len(x)
  /\ \A j \in 1 .. Len(y) : /\ y[j].lsn = x[j].lsn
                            /\ y[j].count \in 1 .. x[j].count \/ y[j].count = x[j].count

(* Its first q sectors are. *)
HasFirst(x, y, q) ==
  /\ y \in Seq(AnyExtent) /\ Shortened(x, y)
  /\ Begins(SectorsOf(y), SectorsOf(x)) /\ Len(SectorsOf(y)) = q
  /\ q = 0 => y = << >>

(* What is left of l sectors, of which the first is number k, when p stay.  *)
LEMMA PartLeft ==
  ASSUME NEW k \in Nat, NEW l \in Nat, NEW p \in Nat, k + l >= p, ~ (k >= p)
  PROVE  p - k \in 1 .. l /\ (k + l <= p => l = p - k)
  OBVIOUS

(* What CutExtents leaves are the first sectors, in extents as full as they *)
(* were but for the last.                                                   *)
LEMMA CutExtentsIs ==
  ASSUME NEW x \in Seq(AnyExtent), NEW q \in 0 .. Len(SectorsOf(x)),
         NEW y, y = CutExtents(x, q)
  PROVE  HasFirst(x, y, q)
  <1> DEFINE n == Len(x)
             f == [j \in 0 .. n |-> Len(FirstOf(x, j))]
  <1>1. /\ n \in Nat /\ SectorsOf(x) \in Seq(Nat)
        /\ \A k \in 0 .. n : FirstOf(x, k) \in Seq(Nat)
        /\ FirstOf(x, 0) = << >> /\ FirstOf(x, n) = SectorsOf(x)
        /\ \A k \in 1 .. n : FirstOf(x, k) = FirstOf(x, k - 1) \o Run(x[k])
        /\ \A j \in 0 .. n : \A k \in j .. n : Begins(FirstOf(x, j), FirstOf(x, k))
    BY SectorsOfIs
  <1>2. \A k \in 1 .. n : k - 1 \in 0 .. n /\ k \in 0 .. n
    BY <1>1
  <1>3. \A k \in 1 .. n : x[k] \in AnyExtent /\ x[k].lsn \in Nat /\ x[k].count \in Nat
                          /\ x[k] = [lsn |-> x[k].lsn, count |-> x[k].count]
    <2>1. \A k \in 1 .. n : x[k] \in AnyExtent
      OBVIOUS
    <2> QED
      BY <2>1, ExtentIs
  <1>4. /\ \A k \in 0 .. n : f[k] \in Nat
        /\ f[0] = 0 /\ f[n] = Len(SectorsOf(x)) /\ q \in Nat /\ q <= f[n]
        /\ \A k \in 1 .. n : f[k] = f[k - 1] + x[k].count
        /\ \A j \in 0 .. n : \A k \in j .. n : f[j] <= f[k]
    <2>1. f[0] = 0 /\ f[n] = Len(SectorsOf(x)) /\ q \in Nat /\ q <= f[n]
      BY <1>1
    <2>2. ASSUME NEW k \in 1 .. n PROVE f[k] = f[k - 1] + x[k].count
      <3>1. FirstOf(x, k) = FirstOf(x, k - 1) \o Run(x[k]) /\ FirstOf(x, k - 1) \in Seq(Nat)
            /\ Run(x[k]) \in Seq(Nat) /\ Len(Run(x[k])) = x[k].count
        BY <1>1, <1>2, <1>3, RunIs
      <3>2. Len(FirstOf(x, k)) = Len(FirstOf(x, k - 1)) + x[k].count
        <4>1. PICK a \in Seq(Nat), b \in Seq(Nat) : a = FirstOf(x, k - 1) /\ b = Run(x[k])
          BY <3>1
        <4>2. Len(a \o b) = Len(a) + Len(b)
          BY ConcatProperties
        <4> QED
          BY <3>1, <4>1, <4>2
      <3> QED
        BY <1>2, <3>2
    <2>3. ASSUME NEW j \in 0 .. n, NEW k \in j .. n PROVE f[j] <= f[k]
      <3>1. k \in 0 .. n
        OBVIOUS
      <3>2. Begins(FirstOf(x, j), FirstOf(x, k))
        BY <1>1
      <3> QED
        BY <3>1, <3>2 DEF Begins
    <2>4. \A k \in 0 .. n : f[k] \in Nat
      BY <1>1
    <2> QED
      BY <2>1, <2>2, <2>3, <2>4
  <1>5. PICK r \in 0 .. n : f[r] >= q /\ \A k \in 0 .. n : f[k] >= q => r <= k
    <2> DEFINE N == { k \in 0 .. n : f[k] >= q }
    <2>1. n \in N
      BY <1>1, <1>4
    <2> HIDE DEF f, n
    <2>2. \A k \in N : k \in Nat
      BY <1>1
    <2>4. N \in SUBSET Nat /\ N # {}
      <3> HIDE DEF N
      <3> QED
        BY <2>1, <2>2
    <2>3. PICK r \in N : \A k \in N : r <= k
      BY <2>4, LeastNumber
    <2> QED
      BY <2>3
  <1> DEFINE b == [j \in 1 .. n |-> Len(SectorsOf(SubSeq(x, 1, j - 1)))]
  <1>6. \A j \in 1 .. n : b[j] = f[j - 1]
    BY <1>2 DEF FirstOf
  <1>7. DOMAIN x = 1 .. n
    OBVIOUS
  <1>8. { j \in 1 .. n : b[j] < q } = 1 .. r
    <2>1. ASSUME NEW j \in 1 .. n, j <= r PROVE b[j] < q
      <3>1. j - 1 \in 0 .. n /\ ~ (r <= j - 1)
        BY <2>1
      <3>2. ~ (f[j - 1] >= q)
        BY <1>5, <3>1
      <3>3. PICK l \in Nat : l = f[j - 1]
        BY <1>4, <3>1
      <3>4. b[j] = l /\ ~ (l >= q)
        BY <1>6, <3>2, <3>3
      <3> HIDE DEF b, f, n
      <3> QED
        BY <3>4
    <2>2. ASSUME NEW j \in 1 .. n, ~ (j <= r) PROVE ~ (b[j] < q)
      <3> HIDE DEF b, f, n
      <3>1. j - 1 \in r .. n /\ j - 1 \in 0 .. n
        BY <1>1, <2>2
      <3>2. f[r] <= f[j - 1] /\ f[r] \in Nat /\ f[j - 1] \in Nat /\ q \in Nat /\ f[r] >= q
        BY <1>4, <1>5, <3>1
      <3>3. b[j] = f[j - 1]
        BY <1>6
      <3> QED
        BY <3>2, <3>3
    <2>3. 1 .. r = { j \in 1 .. n : j <= r }
      BY <1>1
    <2> QED
      BY <2>1, <2>2, <2>3
  <1> DEFINE c == [j \in 1 .. r |-> IF f[j - 1] + x[j].count <= q THEN x[j].count ELSE q - f[j - 1]]
  <1>9. y = [j \in { k \in 1 .. n : b[k] < q } |->
               IF b[j] + x[j].count <= q THEN x[j] ELSE [x[j] EXCEPT !.count = q - b[j]]]
    BY <1>7 DEF CutExtents
  <1>10. y = [j \in 1 .. r |-> [lsn |-> x[j].lsn, count |-> c[j]]]
    <2>1. \A j \in 1 .. r : j \in 1 .. n
      BY <1>1
    <2>2. y = [j \in 1 .. r |->
               IF b[j] + x[j].count <= q THEN x[j] ELSE [x[j] EXCEPT !.count = q - b[j]]]
      BY <1>8, <1>9
    <2>3. ASSUME NEW j \in 1 .. r
          PROVE  (IF b[j] + x[j].count <= q THEN x[j] ELSE [x[j] EXCEPT !.count = q - b[j]])
                   = [lsn |-> x[j].lsn, count |-> c[j]]
      <3>1. b[j] = f[j - 1] /\ x[j] = [lsn |-> x[j].lsn, count |-> x[j].count]
        BY <1>3, <1>6, <2>1
      <3>2. \A v : [x[j] EXCEPT !.count = v] = [lsn |-> x[j].lsn, count |-> v]
        BY <1>3, <2>1, ExtentIs
      <3> QED
        BY <3>1, <3>2
    <2> QED
      BY <2>2, <2>3
  <1> HIDE DEF f, b
  <1>11. \A j \in 1 .. r : j \in 1 .. n /\ j - 1 \in 0 .. n /\ j \in 0 .. n
    BY <1>1
  <1>12. \A j \in 1 .. (r - 1) : c[j] = x[j].count
    <2> SUFFICES ASSUME NEW j \in 1 .. (r - 1) PROVE f[j - 1] + x[j].count <= q
      OBVIOUS
    <2>1. j \in 1 .. r /\ j \in 0 .. n /\ ~ (r <= j) /\ j \in 1 .. n
      BY <1>11
    <2>2. ~ (f[j] >= q)
      BY <1>5, <2>1
    <2>3. f[j] = f[j - 1] + x[j].count /\ f[j] \in Nat
      BY <1>4, <2>1
    <2> QED
      BY <1>4, <2>2, <2>3
  <1>13. r # 0 => c[r] = q - f[r - 1] /\ c[r] \in 1 .. x[r].count
    <2> SUFFICES ASSUME r # 0 PROVE c[r] = q - f[r - 1] /\ c[r] \in 1 .. x[r].count
      OBVIOUS
    <2>1. r \in 1 .. r /\ ~ (r <= r - 1)
      BY <1>1
    <2>2. r - 1 \in 0 .. n /\ f[r - 1] \in Nat /\ f[r] = f[r - 1] + x[r].count /\ x[r].count \in Nat
      BY <1>3, <1>4, <1>11, <2>1
    <2>3. ~ (f[r - 1] >= q)
      BY <1>5, <2>1, <2>2
    <2>4. c[r] = IF f[r - 1] + x[r].count <= q THEN x[r].count ELSE q - f[r - 1]
      BY <2>1
    <2>5. PICK k \in Nat, l \in Nat, p \in Nat :
            /\ k = f[r - 1] /\ l = x[r].count /\ p = q /\ f[r] = k + l
            /\ k + l >= p /\ ~ (k >= p)
      BY <1>4, <1>5, <2>2, <2>3
    <2> HIDE DEF c
    <2>6. p - k \in 1 .. l /\ (k + l <= p => l = p - k)
      BY <2>5, PartLeft
    <2> QED
      BY <2>4, <2>5, <2>6
  <1>14. \A j \in 1 .. r : c[j] \in Nat
                           /\ (c[j] \in 1 .. x[j].count \/ c[j] = x[j].count)
    <2> SUFFICES ASSUME NEW j \in 1 .. r
                 PROVE  c[j] \in Nat /\ (c[j] \in 1 .. x[j].count \/ c[j] = x[j].count)
      OBVIOUS
    <2>1. CASE j = r
      BY <1>13, <2>1
    <2>2. CASE j # r
      <3>1. j \in 1 .. (r - 1)
        BY <2>2
      <3> QED
        BY <1>3, <1>11, <1>12, <3>1
    <2> QED
      BY <2>1, <2>2
  <1> HIDE DEF c
  <1>15. y \in Seq(AnyExtent) /\ Len(y) = r /\ r <= n
         /\ \A j \in 1 .. r : y[j].lsn = x[j].lsn /\ y[j].count = c[j]
    <2>1. \A j \in 1 .. r : [lsn |-> x[j].lsn, count |-> c[j]] \in AnyExtent
      BY <1>3, <1>11, <1>14 DEF AnyExtent
    <2> QED
      BY <1>10, <2>1
  <1>16. Begins(SectorsOf(y), SectorsOf(x)) /\ Len(SectorsOf(y)) = q
    <2>1. CASE r = 0
      <3>1. y = << >> /\ q = 0
        BY <1>4, <1>5, <1>10, <2>1
      <3>2. SectorsOf(y) = << >>
        BY <3>1, SectorsOfNone
      <3> QED
        BY <3>1, <3>2 DEF Begins, SectorsOf
    <2>2. CASE r # 0
      <3> DEFINE g == FirstOf(x, r - 1)
                 u == Run(y[r])
                 v == Run(x[r])
      <3>1. r \in 1 .. r /\ r \in 1 .. n /\ r - 1 \in 0 .. n /\ r - 1 \in Nat
        BY <1>1, <2>2
      <3>2. /\ SectorsOf(y) = FirstOf(y, r)
            /\ FirstOf(y, r) = FirstOf(y, r - 1) \o u
        BY <1>15, <3>1, SectorsOfIs
      <3>3. \A j \in 1 .. (r - 1) : y[j] = x[j]
        <4> SUFFICES ASSUME NEW j \in 1 .. (r - 1) PROVE y[j] = x[j]
          OBVIOUS
        <4>1. j \in 1 .. r /\ j \in 1 .. n /\ c[j] = x[j].count
          BY <1>11, <1>12
        <4>2. x[j] = [lsn |-> x[j].lsn, count |-> x[j].count]
          BY <1>3, <4>1
        <4>3. y[j] = [lsn |-> x[j].lsn, count |-> c[j]]
          BY <1>10, <4>1
        <4> QED
          BY <4>1, <4>2, <4>3
      <3>4. FirstOf(y, r - 1) = g
        BY <1>15, <3>1, <3>3, SameFirst
      <3>5. g \in Seq(Nat) /\ Len(g) = f[r - 1] /\ FirstOf(x, r) = g \o v
        BY <1>1, <3>1 DEF f
      <3>6. u \in Seq(Nat) /\ Len(u) = c[r] /\ v \in Seq(Nat) /\ Len(v) = x[r].count
            /\ (\A k \in 1 .. c[r] : u[k] = x[r].lsn + k - 1)
            /\ (\A k \in 1 .. x[r].count : v[k] = x[r].lsn + k - 1)
        <4>1. y[r] \in AnyExtent /\ x[r] \in AnyExtent /\ y[r].lsn = x[r].lsn /\ y[r].count = c[r]
          BY <1>3, <1>15, <3>1
        <4> QED
          BY <4>1, RunIs DEF Run
      <3>7. c[r] = q - f[r - 1] /\ c[r] \in 1 .. x[r].count /\ x[r].count \in Nat /\ f[r - 1] \in Nat
        BY <1>3, <1>4, <1>13, <2>2, <3>1
      <3> HIDE DEF g, u, v
      <3>8. /\ g \o u \in Seq(Nat) /\ Len(g \o u) = Len(g) + Len(u)
            /\ g \o v \in Seq(Nat) /\ Len(g \o v) = Len(g) + Len(v)
            /\ \A k \in 1 .. (Len(g) + Len(u)) :
                 (g \o u)[k] = IF k <= Len(g) THEN g[k] ELSE u[k - Len(g)]
            /\ \A k \in 1 .. (Len(g) + Len(v)) :
                 (g \o v)[k] = IF k <= Len(g) THEN g[k] ELSE v[k - Len(g)]
        BY <3>5, <3>6, ConcatProperties
      <3>9. Begins(g \o u, g \o v)
        <4>3. Len(u) = c[r] /\ Len(v) = x[r].count /\ c[r] \in Nat /\ c[r] <= x[r].count
          BY <3>6, <3>7
        <4>4. ASSUME NEW k \in 1 .. Len(u) PROVE u[k] = v[k]
          <5>1. k \in 1 .. c[r] /\ k \in 1 .. x[r].count
            BY <3>7, <4>3
          <5> QED
            BY <3>6, <5>1
        <4>1. Len(u) <= Len(v) /\ \A k \in 1 .. Len(u) : u[k] = v[k]
          BY <4>3, <4>4
        <4>2. Begins(u, v)
          BY <4>1 DEF Begins
        <4> QED
          BY <3>5, <3>6, <4>2, BeginsConcat
      <3>10. FirstOf(x, r) \in Seq(Nat) /\ SectorsOf(x) \in Seq(Nat) /\ Begins(FirstOf(x, r), SectorsOf(x))
        <4>1. r \in 0 .. n /\ n \in r .. n
          BY <1>1
        <4> QED
          BY <1>1, <4>1
      <3>11. SectorsOf(y) = g \o u
        BY <3>2, <3>4
      <3>12. Begins(SectorsOf(y), SectorsOf(x))
        BY <3>5, <3>8, <3>9, <3>10, <3>11, BeginsTransitive
      <3>13. Len(SectorsOf(y)) = q
        BY <1>4, <3>5, <3>6, <3>7, <3>8, <3>11
      <3> QED
        BY <3>12, <3>13
    <2> QED
      BY <2>1, <2>2
  <1>17. q = 0 => y = << >>
    <2>1. q = 0 => r = 0
      <3>1. 0 \in 0 .. n
        BY <1>1
      <3>2. q = 0 => f[0] >= q
        BY <1>4
      <3>3. q = 0 => r <= 0
        BY <1>5, <3>1, <3>2
      <3> QED
        BY <3>3
    <2> QED
      BY <1>10, <2>1
  <1>18. Shortened(x, y)
    BY <1>14, <1>15 DEF Shortened
  <1> QED
    BY <1>15, <1>16, <1>17, <1>18 DEF HasFirst
-----------------------------------------------------------------------------
(* The sectors of a file *)

Pieces(e, i, m) == [k \in 1 .. (m + 1) |-> SectorsOf(e[Walk(e, i)[k - 1]].ext)]

FileIs(F, e, i, m) == IsConcat(F, Pieces(e, i, m), m + 1) /\ FileSectors(e, i) = F[m + 1]

(* The sectors of the entries of a walk, entry by entry. *)
LEMMA PiecesAre ==
  ASSUME NEW e \in Table, NEW i \in Entry, NEW m \in Nat
  PROVE  /\ Pieces(e, i, m) \in [1 .. (m + 1) -> Seq(Nat)]
         /\ \A k \in 0 .. m : Pieces(e, i, m)[k + 1] = SectorsOf(e[Walk(e, i)[k]].ext)
  <1>1. \A k \in Nat : Walk(e, i)[k] \in Entry
    BY WalkType
  <1>2. \A j \in Entry : SectorsOf(e[j].ext) \in Seq(Nat)
    BY TableIs, SectorsOfIs
  <1>3. \A k \in 1 .. (m + 1) : k - 1 \in Nat
    OBVIOUS
  <1>4. \A k \in 1 .. (m + 1) : SectorsOf(e[Walk(e, i)[k - 1]].ext) \in Seq(Nat)
    BY <1>1, <1>2, <1>3
  <1>5. \A k \in 0 .. m : k + 1 \in 1 .. (m + 1) /\ (k + 1) - 1 = k
    OBVIOUS
  <1> QED
    BY <1>4, <1>5 DEF Pieces

(* A file's sectors are those of the entries of its chain, in order.        *)
LEMMA FileSectorsAre ==
  ASSUME NEW e \in Table, NEW i \in Entry, NEW m \in Nat, Shape(e, i, m)
  PROVE  \E F : FileIs(F, e, i, m)
  <1> DEFINE w == Walk(e, i)
             p == Pieces(e, i, m)
             S(j) == SectorsOf(e[j].ext)
  <1>1. p \in [1 .. (m + 1) -> Seq(Nat)] /\ m + 1 \in Nat
        /\ \A k \in 0 .. m : p[k + 1] = S(w[k])
    <2>1. p \in [1 .. (m + 1) -> Seq(Nat)]
      BY PiecesAre
    <2>2. \A k \in 0 .. m : p[k + 1] = S(w[k])
      BY PiecesAre
    <2>3. m + 1 \in Nat
      OBVIOUS
    <2> QED
      BY <2>1, <2>2, <2>3
  <1>2. PICK F : IsConcat(F, p, m + 1)
    <2> HIDE DEF p
    <2> QED
      BY <1>1, ConcatExists
  <1>3. w \in [Nat -> Entry] /\ w[0] = i
    BY WalkType
  <1>4. /\ \A k \in Nat : k >= m => w[k] = w[m]
        /\ \A a, b \in 0 .. m : w[a] = w[b] => a = b
        /\ m \in 0 .. (Entries - 1)
    BY DEF Shape
  <1> DEFINE g == [k \in Nat |-> IF k <= m THEN F[k + 1] ELSE F[m + 1]]
             t == [j \in Entry |-> S(j)]
  <1>5. F[0] = << >> /\ F \in [0 .. (m + 1) -> Seq(Nat)]
        /\ \A k \in 1 .. (m + 1) : F[k] = F[k - 1] \o p[k]
    BY <1>2 DEF IsConcat
  <1>6. \A k \in 0 .. m : F[k + 1] = F[k] \o t[w[k]] /\ t[w[k]] \in Seq(Nat)
    <2> SUFFICES ASSUME NEW k \in 0 .. m PROVE F[k + 1] = F[k] \o t[w[k]] /\ t[w[k]] \in Seq(Nat)
      OBVIOUS
    <2>1. k + 1 \in 1 .. (m + 1) /\ (k + 1) - 1 = k /\ k \in Nat
      OBVIOUS
    <2>2. w[k] \in Entry
      BY <1>3, <2>1
    <2>3. p[k + 1] = t[w[k]] /\ p[k + 1] \in Seq(Nat)
      BY <1>1, <2>1, <2>2
    <2>4. F[k + 1] = F[(k + 1) - 1] \o p[k + 1]
      BY <1>5, <2>1
    <2> QED
      BY <2>1, <2>3, <2>4
  <1>7. F[1] = t[w[0]]
    <2>1. 0 \in 0 .. m
      OBVIOUS
    <2>2. PICK z \in 0 .. m : z = 0
      BY <2>1
    <2>3. F[z + 1] = F[z] \o t[w[z]] /\ t[w[z]] \in Seq(Nat)
      BY <1>6
    <2>4. F[z] = << >> /\ z + 1 = 1
      BY <1>5, <2>2
    <2> QED
      BY <2>2, <2>3, <2>4, ConcatEmptySeq
  <1> HIDE DEF w, p
  <1>8. \A k \in Nat : g[k] = IF k = 0 THEN t[i]
                              ELSE IF w[k] = w[k - 1] THEN g[k - 1] ELSE g[k - 1] \o t[w[k]]
    <2> SUFFICES ASSUME NEW k \in Nat
                 PROVE  g[k] = IF k = 0 THEN t[i]
                               ELSE IF w[k] = w[k - 1] THEN g[k - 1] ELSE g[k - 1] \o t[w[k]]
      OBVIOUS
    <2>1. CASE k = 0
      <3>1. g[0] = F[1]
        OBVIOUS
      <3> QED
        BY <1>3, <1>7, <2>1, <3>1
    <2>2. CASE k # 0 /\ k <= m
      <3>1. k - 1 \in Nat /\ k - 1 <= m /\ k \in 0 .. m /\ k - 1 \in 0 .. m /\ k # k - 1
            /\ (k - 1) + 1 = k
        BY <2>2
      <3>2. w[k] # w[k - 1]
        BY <1>4, <3>1
      <3>3. g[k] = F[k + 1] /\ g[k - 1] = F[k]
        BY <2>2, <3>1
      <3> HIDE DEF g, t
      <3> QED
        BY <1>6, <2>2, <3>1, <3>2, <3>3
    <2>3. CASE k # 0 /\ ~ (k <= m)
      <3>1. k - 1 \in Nat /\ k - 1 >= m /\ k >= m /\ (k - 1 <= m => k - 1 = m)
        BY <2>3
      <3>2. w[k] = w[k - 1]
        BY <1>4, <3>1
      <3>3. g[k] = F[m + 1] /\ g[k - 1] = F[m + 1]
        BY <2>3, <3>1
      <3> HIDE DEF g, t
      <3> QED
        BY <2>3, <3>2, <3>3
    <2> QED
      BY <2>1, <2>2, <2>3
  <1>9. g = [k \in Nat |-> IF k = 0 THEN SectorsOf(e[i].ext)
                           ELSE IF w[k] = w[k - 1] THEN g[k - 1]
                           ELSE g[k - 1] \o SectorsOf(e[w[k]].ext)]
    <2>1. t[i] = SectorsOf(e[i].ext) /\ \A k \in Nat : t[w[k]] = SectorsOf(e[w[k]].ext)
      BY <1>3
    <2>2. g = [k \in Nat |-> g[k]]
      OBVIOUS
    <2> HIDE DEF g, t
    <2> QED
      BY <1>8, <2>1, <2>2
  <1>10. g[Entries - 1] = F[m + 1]
    <2>1. Entries - 1 \in Nat /\ (Entries - 1 <= m => Entries - 1 = m)
      BY <1>4, EntryIs
    <2> QED
      BY <2>1
  <1> HIDE DEF g, t
  <1>11. \E h : h = [k \in Nat |-> IF k = 0 THEN SectorsOf(e[i].ext)
                                   ELSE IF w[k] = w[k - 1] THEN h[k - 1]
                                   ELSE h[k - 1] \o SectorsOf(e[w[k]].ext)]
    BY <1>9
  <1>12. \E h : /\ h = [k \in Nat |-> IF k = 0 THEN SectorsOf(e[i].ext)
                                      ELSE IF w[k] = w[k - 1] THEN h[k - 1]
                                      ELSE h[k - 1] \o SectorsOf(e[w[k]].ext)]
                /\ FileSectors(e, i) = h[Entries - 1]
    BY <1>11 DEF FileSectors, w
  <1>13. PICK h : /\ h = [k \in Nat |-> IF k = 0 THEN SectorsOf(e[i].ext)
                                        ELSE IF w[k] = w[k - 1] THEN h[k - 1]
                                        ELSE h[k - 1] \o SectorsOf(e[w[k]].ext)]
                  /\ FileSectors(e, i) = h[Entries - 1]
    BY <1>12
  <1> DEFINE N == { k \in Nat : h[k] = g[k] }
  <1>14. 0 \in N
    <2>1. h[0] = SectorsOf(e[i].ext)
      BY <1>13
    <2>2. g[0] = SectorsOf(e[i].ext)
      BY <1>9
    <2> QED
      BY <2>1, <2>2
  <1>15. ASSUME NEW k \in Nat, k \in N PROVE k + 1 \in N
    <2>1. k + 1 \in Nat /\ k + 1 # 0 /\ (k + 1) - 1 = k
      OBVIOUS
    <2>2. h[k + 1] = IF w[k + 1] = w[k] THEN h[k] ELSE h[k] \o SectorsOf(e[w[k + 1]].ext)
      BY <1>13, <2>1
    <2>3. g[k + 1] = IF w[k + 1] = w[k] THEN g[k] ELSE g[k] \o SectorsOf(e[w[k + 1]].ext)
      BY <1>9, <2>1
    <2>4. h[k] = g[k]
      BY <1>15
    <2> QED
      BY <2>2, <2>3, <2>4
  <1> HIDE DEF N
  <1>16. h[Entries - 1] = g[Entries - 1]
    <2>1. Nat \subseteq N
      BY <1>14, <1>15, AllNumbers
    <2>2. Entries - 1 \in Nat
      BY EntryIs
    <2> QED
      BY <2>1, <2>2 DEF N
  <1> QED
    BY <1>2, <1>10, <1>13, <1>16 DEF FileIs, p
Parts(F, e, i, m) ==
  /\ F \in [0 .. (m + 1) -> Seq(Nat)] /\ F[0] = << >>
  /\ FileSectors(e, i) = F[m + 1] /\ FileSectors(e, i) \in Seq(Nat)
  /\ \A k \in 0 .. m : /\ F[k + 1] = F[k] \o SectorsOf(e[Walk(e, i)[k]].ext)
                       /\ Walk(e, i)[k] \in Entry
                       /\ SectorsOf(e[Walk(e, i)[k]].ext) \in Seq(Nat)

(* A file's sectors, entry by entry: what each entry adds to those before   *)
(* it.                                                                      *)
LEMMA FileIsFacts ==
  ASSUME NEW e \in Table, NEW i \in Entry, NEW m \in Nat, NEW F, FileIs(F, e, i, m)
  PROVE  Parts(F, e, i, m)
  <1>1. /\ F \in [0 .. (m + 1) -> Seq(Nat)] /\ F[0] = << >>
        /\ \A k \in 1 .. (m + 1) : F[k] = F[k - 1] \o Pieces(e, i, m)[k]
        /\ FileSectors(e, i) = F[m + 1]
    BY DEF FileIs, IsConcat
  <1>2. m + 1 \in 0 .. (m + 1)
    OBVIOUS
  <1>3. ASSUME NEW k \in 0 .. m
        PROVE  /\ F[k + 1] = F[k] \o SectorsOf(e[Walk(e, i)[k]].ext)
               /\ Walk(e, i)[k] \in Entry
               /\ SectorsOf(e[Walk(e, i)[k]].ext) \in Seq(Nat)
    <2>1. k + 1 \in 1 .. (m + 1) /\ (k + 1) - 1 = k /\ k \in Nat
      OBVIOUS
    <2>2. Pieces(e, i, m)[k + 1] = SectorsOf(e[Walk(e, i)[k]].ext)
      BY PiecesAre
    <2>3. Pieces(e, i, m)[k + 1] \in Seq(Nat)
      <3>1. Pieces(e, i, m) \in [1 .. (m + 1) -> Seq(Nat)]
        BY PiecesAre
      <3> QED
        BY <2>1, <3>1
    <2>4. Walk(e, i)[k] \in Entry
      BY <2>1, WalkType
    <2>5. F[k + 1] = F[(k + 1) - 1] \o Pieces(e, i, m)[k + 1]
      BY <1>1, <2>1
    <2> QED
      BY <2>1, <2>2, <2>3, <2>4, <2>5
  <1> QED
    BY <1>1, <1>2, <1>3 DEF Parts

EndsWith(F, e, i, m) ==
  /\ FileSectors(e, i) = F[m] \o SectorsOf(e[Walk(e, i)[m]].ext) /\ F[m] \in Seq(Nat)
  /\ SectorsOf(e[Walk(e, i)[m]].ext) \in Seq(Nat)

(* The sectors of a file's last entry end the file. *)
LEMMA LastPiece ==
  ASSUME NEW e \in Table, NEW i \in Entry, NEW m \in Nat, NEW F, FileIs(F, e, i, m)
  PROVE  EndsWith(F, e, i, m)
  <1>1. /\ F \in [0 .. (m + 1) -> Seq(Nat)] /\ FileSectors(e, i) = F[m + 1]
        /\ \A k \in 0 .. m : /\ F[k + 1] = F[k] \o SectorsOf(e[Walk(e, i)[k]].ext)
                             /\ SectorsOf(e[Walk(e, i)[k]].ext) \in Seq(Nat)
    <2>1. Parts(F, e, i, m)
      BY FileIsFacts
    <2> QED
      BY <2>1 DEF Parts
  <1>2. m \in 0 .. m /\ m \in 0 .. (m + 1)
    OBVIOUS
  <1> QED
    BY <1>1, <1>2 DEF EndsWith

(* Files with the same sectors in the first entries. *)
Alike(e, i, h, x, l) ==
  \A a \in 0 .. (l - 1) : SectorsOf(h[Walk(h, x)[a]].ext) = SectorsOf(e[Walk(e, i)[a]].ext)

AgreeUpTo(F, G, l) == \A a \in 0 .. l : F[a] = G[a]

(* Two files whose first entries have the same sectors begin the same. *)
LEMMA FilesAgree ==
  ASSUME NEW e \in Table, NEW h \in Table, NEW i \in Entry, NEW x \in Entry,
         NEW m \in Nat, NEW k \in Nat,
         NEW F, NEW G, FileIs(F, e, i, m), FileIs(G, h, x, k),
         NEW l \in Nat, l <= m + 1, l <= k + 1,
         Alike(e, i, h, x, l)
  PROVE  AgreeUpTo(F, G, l)
  <1> DEFINE p == Pieces(e, i, m)
             q == Pieces(h, x, k)
  <1>0. \A a \in 0 .. (l - 1) :
           SectorsOf(h[Walk(h, x)[a]].ext) = SectorsOf(e[Walk(e, i)[a]].ext)
    BY DEF Alike
  <1>1. \A a \in 1 .. l : p[a] = q[a]
    <2> SUFFICES ASSUME NEW a \in 1 .. l PROVE p[a] = q[a]
      OBVIOUS
    <2>1. a - 1 \in 0 .. m /\ a - 1 \in 0 .. k /\ a - 1 \in 0 .. (l - 1) /\ (a - 1) + 1 = a
      OBVIOUS
    <2>2. PICK b : b = a - 1
      OBVIOUS
    <2>3. p[b + 1] = SectorsOf(e[Walk(e, i)[b]].ext)
      BY <2>1, <2>2, PiecesAre
    <2>4. q[b + 1] = SectorsOf(h[Walk(h, x)[b]].ext)
      BY <2>1, <2>2, PiecesAre
    <2> QED
      BY <1>0, <2>1, <2>2, <2>3, <2>4
  <1>2. IsConcat(F, p, m + 1) /\ IsConcat(G, q, k + 1) /\ m + 1 \in Nat /\ k + 1 \in Nat
    BY DEF FileIs
  <1> HIDE DEF p, q
  <1>3. \A a \in 0 .. l : F[a] = G[a]
    BY <1>1, <1>2, ConcatSame
  <1> QED
    BY <1>3 DEF AgreeUpTo

(* A file's sectors are a finite list. *)
LEMMA FileType ==
  ASSUME NEW e \in Table, NEW i \in Entry, Ended(e, i)
  PROVE  /\ FileSectors(e, i) \in Seq(Nat)
         /\ Held(e, i) = UNION { Range(SectorsOf(e[c].ext)) : c \in Chain(e, i) }
  <1>1. PICK m \in Nat : Shape(e, i, m)
    BY ChainShape
  <1>2. PICK F : FileIs(F, e, i, m)
    BY <1>1, FileSectorsAre
  <1>3. FileSectors(e, i) \in Seq(Nat)
    BY <1>2, FileIsFacts DEF Parts
  <1> DEFINE p == Pieces(e, i, m)
             w == Walk(e, i)
  <1>4. IsConcat(F, p, m + 1) /\ FileSectors(e, i) = F[m + 1] /\ m + 1 \in Nat
    BY <1>2 DEF FileIs
  <1>5. \A k \in 0 .. m : p[k + 1] = SectorsOf(e[w[k]].ext)
    BY PiecesAre
  <1>6. Chain(e, i) = { w[k] : k \in 0 .. m }
    BY <1>1 DEF Shape
  <1> HIDE DEF p, w
  <1>7. Range(F[m + 1]) = UNION { Range(p[k]) : k \in 1 .. (m + 1) }
    BY <1>4, ConcatRange
  <1>8. \A k \in 1 .. (m + 1) : k - 1 \in 0 .. m /\ (k - 1) + 1 = k
    OBVIOUS
  <1>9. \A k \in 0 .. m : k + 1 \in 1 .. (m + 1)
    OBVIOUS
  <1>10. \A k \in 1 .. (m + 1) : p[k] = SectorsOf(e[w[k - 1]].ext)
    BY <1>5, <1>8
  <1>11. UNION { Range(p[k]) : k \in 1 .. (m + 1) }
           = UNION { Range(SectorsOf(e[w[k]].ext)) : k \in 0 .. m }
    <2>1. ASSUME NEW k \in 1 .. (m + 1) PROVE \E a \in 0 .. m : Range(p[k]) = Range(SectorsOf(e[w[a]].ext))
      BY <1>8, <1>10
    <2>2. ASSUME NEW a \in 0 .. m PROVE \E k \in 1 .. (m + 1) : Range(p[k]) = Range(SectorsOf(e[w[a]].ext))
      BY <1>5, <1>9
    <2> QED
      BY <2>1, <2>2
  <1>12. UNION { Range(SectorsOf(e[c].ext)) : c \in Chain(e, i) }
           = UNION { Range(SectorsOf(e[w[k]].ext)) : k \in 0 .. m }
    BY <1>6
  <1> QED
    BY <1>3, <1>4, <1>7, <1>11, <1>12 DEF Held

(* A file of which the entries have the same sectors and links. *)
LEMMA SameFile ==
  ASSUME NEW e \in Table, NEW h \in Table, NEW i \in Entry, Ended(e, i),
         \A c \in Chain(e, i) : h[c].next = e[c].next /\ SectorsOf(h[c].ext) = SectorsOf(e[c].ext)
  PROVE  /\ FileSectors(h, i) = FileSectors(e, i) /\ Chain(h, i) = Chain(e, i)
         /\ LastEntry(h, i) = LastEntry(e, i) /\ Ended(h, i) /\ Held(h, i) = Held(e, i)
  <1>1. PICK m \in Nat : Shape(e, i, m)
    BY ChainShape
  <1>2. /\ Walk(h, i) = Walk(e, i) /\ Chain(h, i) = Chain(e, i)
        /\ LastEntry(h, i) = LastEntry(e, i) /\ Shape(h, i, m)
    BY <1>1, SameChain
  <1>3. PICK F : FileIs(F, e, i, m)
    BY <1>1, FileSectorsAre
  <1>4. PICK G : FileIs(G, h, i, m)
    BY <1>2, FileSectorsAre
  <1>5. \A a \in 0 .. m : Walk(e, i)[a] \in Chain(e, i)
    BY <1>1 DEF Shape
  <1>6. \A a \in 0 .. ((m + 1) - 1) :
          SectorsOf(h[Walk(h, i)[a]].ext) = SectorsOf(e[Walk(e, i)[a]].ext)
    BY <1>2, <1>5
  <1>7. m + 1 \in 0 .. (m + 1)
    OBVIOUS
  <1>8. \A a \in 0 .. (m + 1) : F[a] = G[a]
    <2>1. PICK l \in Nat : l = m + 1
      OBVIOUS
    <2>2. l <= m + 1 /\ Alike(e, i, h, i, l)
      BY <1>6, <2>1 DEF Alike
    <2>3. AgreeUpTo(F, G, l)
      BY <1>3, <1>4, <2>2, FilesAgree
    <2> QED
      BY <2>1, <2>3 DEF AgreeUpTo
  <1>9. FileSectors(h, i) = FileSectors(e, i)
    BY <1>3, <1>4, <1>7, <1>8 DEF FileIs
  <1>10. Ended(h, i)
    BY <1>2, ShapeEnds
  <1> QED
    BY <1>2, <1>9, <1>10 DEF Held

(* A file with more sectors r in its last entry. *)
LEMMA GrownFile ==
  ASSUME NEW e \in Table, NEW h \in Table, NEW i \in Entry, Ended(e, i), NEW r \in Seq(Nat),
         \A c \in Chain(e, i) : h[c].next = e[c].next,
         \A c \in Chain(e, i) \ {LastEntry(e, i)} : SectorsOf(h[c].ext) = SectorsOf(e[c].ext),
         SectorsOf(h[LastEntry(e, i)].ext) = SectorsOf(e[LastEntry(e, i)].ext) \o r
  PROVE  /\ FileSectors(h, i) = FileSectors(e, i) \o r /\ Chain(h, i) = Chain(e, i)
         /\ LastEntry(h, i) = LastEntry(e, i) /\ Ended(h, i)
  <1>1. PICK m \in Nat : Shape(e, i, m)
    BY ChainShape
  <1>2. /\ Walk(h, i) = Walk(e, i) /\ Chain(h, i) = Chain(e, i)
        /\ LastEntry(h, i) = LastEntry(e, i) /\ Shape(h, i, m)
    BY <1>1, SameChain
  <1>3. PICK F : FileIs(F, e, i, m)
    BY <1>1, FileSectorsAre
  <1>4. PICK G : FileIs(G, h, i, m)
    BY <1>2, FileSectorsAre
  <1>5. /\ Chain(e, i) = { Walk(e, i)[a] : a \in 0 .. m } /\ LastEntry(e, i) = Walk(e, i)[m]
        /\ \A a, b \in 0 .. m : Walk(e, i)[a] = Walk(e, i)[b] => a = b
    BY <1>1 DEF Shape
  <1>6. \A a \in 0 .. (m - 1) :
          SectorsOf(h[Walk(h, i)[a]].ext) = SectorsOf(e[Walk(e, i)[a]].ext)
    <2> SUFFICES ASSUME NEW a \in 0 .. (m - 1)
                 PROVE  SectorsOf(h[Walk(e, i)[a]].ext) = SectorsOf(e[Walk(e, i)[a]].ext)
      BY <1>2
    <2>1. a \in 0 .. m /\ m \in 0 .. m /\ a # m
      OBVIOUS
    <2>2. Walk(e, i)[a] \in Chain(e, i) \ {LastEntry(e, i)}
      BY <1>5, <2>1
    <2> QED
      BY <2>2
  <1>7. m <= m + 1 /\ m \in 0 .. m /\ m + 1 \in Nat
    OBVIOUS
  <1>8. F[m] = G[m]
    <2>1. PICK l \in Nat : l = m
      OBVIOUS
    <2>2. l <= m + 1 /\ Alike(e, i, h, i, l)
      BY <1>6, <2>1 DEF Alike
    <2>3. AgreeUpTo(F, G, l)
      BY <1>3, <1>4, <2>2, FilesAgree
    <2> QED
      BY <1>7, <2>1, <2>3 DEF AgreeUpTo
  <1>9. FileSectors(e, i) = F[m] \o SectorsOf(e[Walk(e, i)[m]].ext) /\ F[m] \in Seq(Nat)
        /\ SectorsOf(e[Walk(e, i)[m]].ext) \in Seq(Nat)
    BY <1>3, LastPiece DEF EndsWith
  <1>10. FileSectors(h, i) = G[m] \o SectorsOf(h[Walk(h, i)[m]].ext)
    BY <1>4, LastPiece DEF EndsWith
  <1>11. FileSectors(h, i) = FileSectors(e, i) \o r
    <2>1. PICK a \in Seq(Nat), b \in Seq(Nat) : a = F[m] /\ b = SectorsOf(e[Walk(e, i)[m]].ext)
      BY <1>9
    <2>2. SectorsOf(h[Walk(h, i)[m]].ext) = b \o r
      BY <1>2, <1>5, <2>1
    <2>3. (a \o b) \o r = a \o (b \o r)
      BY ConcatThree
    <2> QED
      BY <1>8, <1>9, <1>10, <2>1, <2>2, <2>3
  <1> QED
    BY <1>2, <1>11, ShapeEnds

(* A file with another entry that has no extent. *)
LEMMA LongerFile ==
  ASSUME NEW e \in Table, NEW h \in Table, NEW i \in Entry, Ended(e, i),
         NEW x \in Entry \ {NoNext}, x \notin Chain(e, i),
         h[LastEntry(e, i)].next = x, h[x].next = NoNext, h[x].ext = << >>,
         \A c \in Chain(e, i) \ {LastEntry(e, i)} : h[c].next = e[c].next,
         \A c \in Chain(e, i) : h[c].ext = e[c].ext
  PROVE  /\ FileSectors(h, i) = FileSectors(e, i) /\ Chain(h, i) = Chain(e, i) \cup {x}
         /\ LastEntry(h, i) = x /\ Ended(h, i)
  <1>1. PICK m \in Nat : Shape(e, i, m)
    BY ChainShape
  <1>2. /\ Shape(h, i, m + 1) /\ \A a \in 0 .. m : Walk(h, i)[a] = Walk(e, i)[a]
        /\ Walk(h, i)[m + 1] = x
        /\ Chain(h, i) = Chain(e, i) \cup {x} /\ LastEntry(h, i) = x
    BY <1>1, LongerChain
  <1>3. PICK F : FileIs(F, e, i, m)
    BY <1>1, FileSectorsAre
  <1>4. PICK n \in Nat : n = m + 1
    OBVIOUS
  <1>5. PICK G : FileIs(G, h, i, n)
    BY <1>2, <1>4, FileSectorsAre
  <1>6. \A a \in 0 .. m : Walk(e, i)[a] \in Chain(e, i)
    BY <1>1 DEF Shape
  <1>7. \A a \in 0 .. (n - 1) :
          SectorsOf(h[Walk(h, i)[a]].ext) = SectorsOf(e[Walk(e, i)[a]].ext)
    BY <1>2, <1>4, <1>6
  <1>8. n <= m + 1 /\ n <= n + 1 /\ n \in 0 .. n
    BY <1>4
  <1>9. \A a \in 0 .. n : F[a] = G[a]
    <2>1. PICK l \in Nat : l = n
      OBVIOUS
    <2>2. l <= m + 1 /\ l <= n + 1 /\ Alike(e, i, h, i, l)
      BY <1>7, <1>8, <2>1 DEF Alike
    <2>3. AgreeUpTo(F, G, l)
      BY <1>3, <1>5, <2>2, FilesAgree
    <2> QED
      BY <2>1, <2>3 DEF AgreeUpTo
  <1>10. F[n] = G[n] /\ FileSectors(e, i) = F[n] /\ FileSectors(e, i) \in Seq(Nat)
    <2>1. Parts(F, e, i, m)
      BY <1>3, FileIsFacts
    <2>2. FileSectors(e, i) = F[m + 1] /\ FileSectors(e, i) \in Seq(Nat)
      BY <2>1 DEF Parts
    <2> QED
      BY <1>4, <1>8, <1>9, <2>2
  <1>11. FileSectors(h, i) = G[n] \o SectorsOf(h[x].ext)
    <2>0. FileIs(G, h, i, n)
      BY <1>5
    <2>1. EndsWith(G, h, i, n)
      BY <2>0, LastPiece
    <2>2. FileSectors(h, i) = G[n] \o SectorsOf(h[Walk(h, i)[n]].ext)
      BY <2>1 DEF EndsWith
    <2> QED
      BY <1>2, <1>4, <2>2
  <1>12. FileSectors(h, i) = FileSectors(e, i)
    BY <1>10, <1>11, SectorsOfNone, ConcatEmptySeq
  <1> QED
    BY <1>2, <1>12, ShapeEnds
(* The sectors before an entry of a file are those of the first pieces.     *)
LongerBy(F, G, k, a) == Len(F[k + a]) = Len(F[k]) + Len(G[a])

(* What stands before an entry of a chain is what the entries before it add *)
(* up to.                                                                   *)
LEMMA SectorsBeforeIs ==
  ASSUME NEW e \in Table, NEW i \in Entry, NEW m \in Nat, Shape(e, i, m),
         NEW F, FileIs(F, e, i, m), NEW k \in 0 .. m
  PROVE  SectorsBefore(e, i, Walk(e, i)[k]) = Len(F[k])
  <1> DEFINE w == Walk(e, i)
             v == Walk(e, w[k])
  <1>1. w[k] \in Entry /\ Shape(e, w[k], m - k) /\ \A a \in Nat : v[a] = w[k + a]
    BY RestOfChain
  <1>2. PICK n \in Nat : n = m - k
    OBVIOUS
  <1>3. k \in Nat /\ k + n = m
    BY <1>2
  <1>4. PICK x \in Entry : x = w[k]
    BY <1>1
  <1>5. Shape(e, x, n)
    BY <1>1, <1>2, <1>4
  <1>6. PICK G : FileIs(G, e, x, n)
    BY <1>5, FileSectorsAre
  <1>7. /\ F \in [0 .. (m + 1) -> Seq(Nat)] /\ FileSectors(e, i) = F[m + 1]
        /\ \A a \in 0 .. m : /\ F[a + 1] = F[a] \o SectorsOf(e[w[a]].ext)
                             /\ SectorsOf(e[w[a]].ext) \in Seq(Nat)
    <2>1. Parts(F, e, i, m)
      BY FileIsFacts
    <2> QED
      BY <2>1 DEF Parts
  <1>8. /\ G \in [0 .. (n + 1) -> Seq(Nat)] /\ G[0] = << >> /\ FileSectors(e, x) = G[n + 1]
        /\ \A a \in 0 .. n : G[a + 1] = G[a] \o SectorsOf(e[Walk(e, x)[a]].ext)
    <2>1. Parts(G, e, x, n)
      BY <1>6, FileIsFacts
    <2> QED
      BY <2>1 DEF Parts
  <1>9. \A a \in Nat : Walk(e, x)[a] = w[k + a]
    BY <1>1, <1>4
  <1> HIDE DEF w, v
  <1> DEFINE N == { a \in Nat : a <= n + 1 => LongerBy(F, G, k, a) }
  <1>10. 0 \in N
    <2>1. F[k] \in Seq(Nat) /\ k + 0 = k
      BY <1>3, <1>7
    <2>2. Len(F[k]) \in Nat /\ Len(G[0]) = 0
      BY <1>8, <2>1
    <2>3. LongerBy(F, G, k, 0)
      BY <2>1, <2>2 DEF LongerBy
    <2> QED
      BY <2>3
  <1>11. ASSUME NEW a \in Nat, a \in N PROVE a + 1 \in N
    <2> SUFFICES ASSUME a + 1 <= n + 1 PROVE LongerBy(F, G, k, a + 1)
      OBVIOUS
    <2>1. PICK b \in 0 .. m : b = k + a
      BY <1>3
    <2>2. a \in 0 .. n /\ b \in 0 .. (m + 1) /\ k + (a + 1) = b + 1 /\ a \in 0 .. (n + 1)
          /\ k \in 0 .. (m + 1)
      BY <1>3, <2>1
    <2>3. Len(F[b]) = Len(F[k]) + Len(G[a])
      <3>1. LongerBy(F, G, k, a)
        BY <1>11
      <3> QED
        BY <2>1, <3>1 DEF LongerBy
    <2>4. Walk(e, x)[a] = w[b]
      BY <1>9, <2>1
    <2>5. PICK p \in Seq(Nat) : p = SectorsOf(e[w[b]].ext)
      BY <1>7
    <2>6. F[b + 1] = F[b] \o p /\ G[a + 1] = G[a] \o p
      BY <1>7, <1>8, <2>2, <2>4, <2>5
    <2>7. F[b] \in Seq(Nat) /\ G[a] \in Seq(Nat) /\ F[k] \in Seq(Nat)
      BY <1>7, <1>8, <2>2
    <2>8. Len(F[b] \o p) = Len(F[b]) + Len(p) /\ Len(G[a] \o p) = Len(G[a]) + Len(p)
      BY <2>7, ConcatProperties
    <2>9. Len(F[b]) \in Nat /\ Len(G[a]) \in Nat /\ Len(p) \in Nat /\ Len(F[k]) \in Nat
      BY <2>7
    <2>10. Len(F[b + 1]) = Len(F[k]) + Len(G[a + 1])
      <3>1. Len(F[b + 1]) = Len(F[b]) + Len(p) /\ Len(G[a + 1]) = Len(G[a]) + Len(p)
        BY <2>6, <2>8
      <3>2. PICK c \in Nat, d \in Nat, f \in Nat, g \in Nat :
              c = Len(F[k]) /\ d = Len(G[a]) /\ f = Len(p) /\ g = Len(F[b])
        BY <2>9
      <3>3. g = c + d /\ Len(F[b + 1]) = g + f /\ Len(G[a + 1]) = d + f
        BY <2>3, <3>1, <3>2
      <3>4. g + f = c + (d + f)
        BY <3>3
      <3> QED
        BY <3>2, <3>3, <3>4
    <2> QED
      BY <2>2, <2>10 DEF LongerBy
  <1> HIDE DEF N
  <1>12. Len(F[m + 1]) = Len(F[k]) + Len(G[n + 1])
    <2>1. n + 1 \in N
      BY <1>10, <1>11, AllNumbers
    <2>2. LongerBy(F, G, k, n + 1)
      BY <2>1 DEF N
    <2>3. k + (n + 1) = m + 1
      BY <1>3
    <2> QED
      BY <2>2, <2>3 DEF LongerBy
  <1>13. Len(FileSectors(e, i)) = Len(F[k]) + Len(FileSectors(e, x))
    BY <1>7, <1>8, <1>12
  <1>14. Len(F[k]) \in Nat /\ Len(FileSectors(e, x)) \in Nat
    <2>1. k \in 0 .. (m + 1) /\ n + 1 \in 0 .. (n + 1)
      BY <1>3
    <2>2. F[k] \in Seq(Nat) /\ G[n + 1] \in Seq(Nat)
      BY <1>7, <1>8, <2>1
    <2> QED
      BY <1>8, <2>2
  <1> QED
    BY <1>4, <1>13, <1>14 DEF SectorsBefore, w
(* Where the file is cut: the entry r of its chain is the first that, with  *)
(* those before it, has the sectors that stay.                              *)
CutAt(e, i, m, F, r, q) ==
  /\ r \in 0 .. m /\ Len(F[r + 1]) >= q
  /\ \A k \in 0 .. (r - 1) : Len(F[k + 1]) < q
  /\ r # 0 => Len(F[r]) < q

(* Every number of sectors a file has is reached in one of its entries. *)
LEMMA CutPlace ==
  ASSUME NEW e \in Table, NEW i \in Entry, NEW m \in Nat, NEW F, FileIs(F, e, i, m),
         NEW q \in Nat, q <= Len(FileSectors(e, i))
  PROVE  \E r \in 0 .. m : CutAt(e, i, m, F, r, q)
  <1> DEFINE N == { k \in 0 .. m : Len(F[k + 1]) >= q }
  <1>1. F \in [0 .. (m + 1) -> Seq(Nat)] /\ FileSectors(e, i) = F[m + 1]
    BY DEF FileIs, IsConcat
  <1>2. m \in N
    BY <1>1
  <1>3. N \subseteq Nat
    OBVIOUS
  <1>4. PICK r \in N : \A k \in N : r <= k
    BY <1>2, <1>3, LeastNumber
  <1>5. r \in 0 .. m /\ Len(F[r + 1]) >= q
    OBVIOUS
  <1>6. ASSUME NEW k \in 0 .. (r - 1) PROVE Len(F[k + 1]) < q
    <2>1. k \in 0 .. m /\ ~ (r <= k) /\ k + 1 \in 0 .. (m + 1)
      BY <1>5
    <2>2. ~ (Len(F[k + 1]) >= q)
      BY <1>4, <2>1
    <2>3. Len(F[k + 1]) \in Nat
      BY <1>1, <2>1
    <2> QED
      BY <2>2, <2>3
  <1>7. r # 0 => Len(F[r]) < q
    <2> SUFFICES ASSUME r # 0 PROVE Len(F[r]) < q
      OBVIOUS
    <2>1. r - 1 \in 0 .. (r - 1) /\ (r - 1) + 1 = r
      BY <1>5
    <2>2. PICK k \in 0 .. (r - 1) : k + 1 = r
      BY <2>1
    <2>3. Len(F[k + 1]) < q
      BY <1>6
    <2> QED
      BY <2>2, <2>3
  <1> QED
    BY <1>5, <1>6, <1>7 DEF CutAt

(* Entry by entry a file only gets longer. *)
LEMMA LengthsGrow ==
  ASSUME NEW e \in Table, NEW i \in Entry, NEW m \in Nat, NEW F, FileIs(F, e, i, m)
  PROVE  /\ \A k \in 0 .. (m + 1) : F[k] \in Seq(Nat) /\ Len(F[k]) \in Nat
         /\ \A j \in 0 .. (m + 1) : \A k \in j .. (m + 1) :
              Begins(F[j], F[k]) /\ Len(F[j]) <= Len(F[k])
  <1>1. IsConcat(F, Pieces(e, i, m), m + 1) /\ m + 1 \in Nat
    BY DEF FileIs
  <1>2. F \in [0 .. (m + 1) -> Seq(Nat)]
    BY <1>1 DEF IsConcat
  <1>3. ASSUME NEW j \in 0 .. (m + 1), NEW k \in j .. (m + 1)
        PROVE  Begins(F[j], F[k]) /\ Len(F[j]) <= Len(F[k])
    <2>0. PICK n \in Nat : n = m + 1
      BY <1>1
    <2>1. PICK p : p = Pieces(e, i, m)
      OBVIOUS
    <2>2. IsConcat(F, p, n) /\ j \in 0 .. n /\ k \in j .. n
      BY <1>1, <2>0, <2>1
    <2>3. Begins(F[j], F[k])
      BY <2>2, ConcatBegins
    <2> QED
      BY <2>3 DEF Begins
  <1> QED
    BY <1>2, <1>3

(* The sectors of a size, as a number, and the bytes in the last of them. *)
LEMMA SizesAre ==
  ASSUME NEW size \in Nat
  PROVE  /\ SectorsFor(size) \in Nat /\ size % Bps \in 0 .. (Bps - 1)
         /\ size <= SectorsFor(size) * Bps /\ SectorsFor(size) * Bps < size + Bps
  <1>1. Bps \in Nat /\ Bps > 0
    BY DirAssumption
  <1>2. PICK b \in Nat : b = Bps
    BY <1>1
  <1>3. size % b \in 0 .. (b - 1)
    BY <1>1, <1>2
  <1>4. PICK a \in Nat : a = size + b - 1
    BY <1>1, <1>2
  <1>5. PICK d \in Int : d = a \div b
    BY <1>1, <1>2
  <1>6. b * d <= a /\ a < b * d + b /\ d \in Nat
    BY <1>1, <1>2, <1>5
  <1> QED
    BY <1>1, <1>2, <1>3, <1>4, <1>5, <1>6 DEF SectorsFor

(* The entry in which a file is cut stays an entry. *)
LEMMA TruncatedType ==
  ASSUME NEW e \in Table, NEW i \in Entry, Ended(e, i), NEW size \in Nat,
         NEW c \in Chain(e, i),
         ~ IsCutOff(e, i, c, SectorsFor(size)),
         SectorsBefore(e, i, c) + Len(SectorsOf(e[c].ext)) >= SectorsFor(size),
         NEW y \in Seq(AnyExtent),
         y = CutExtents(e[c].ext, SectorsFor(size) - SectorsBefore(e, i, c))
  PROVE  /\ Truncated(e, i, size)[c] \in Slot
         /\ Truncated(e, i, size)[c].kind = e[c].kind /\ Truncated(e, i, size)[c].name = e[c].name
         /\ Truncated(e, i, size)[c].ext = y /\ Truncated(e, i, size)[c].next = NoNext
         /\ Truncated(e, i, size)[c].last = size % Bps
  <1>1. c \in Entry /\ e[c] \in Slot
    BY ChainType, TableIs
  <1>2. Truncated(e, i, size)[c]
          = [e[c] EXCEPT !.ext = CutExtents(@, SectorsFor(size) - SectorsBefore(e, i, c)),
                         !.next = NoNext, !.last = size % Bps]
    BY <1>1 DEF Truncated
  <1>3. PICK z \in Slot : z = e[c]
    BY <1>1
  <1>4. CutExtents(z.ext, SectorsFor(size) - SectorsBefore(e, i, c)) = y
    BY <1>3
  <1>5. Truncated(e, i, size)[c]
          = [z EXCEPT !.ext = CutExtents(@, SectorsFor(size) - SectorsBefore(e, i, c)),
                         !.next = NoNext, !.last = size % Bps]
    BY <1>2, <1>3
  <1>6. PICK d : d = SectorsFor(size) - SectorsBefore(e, i, c)
    OBVIOUS
  <1>7. Truncated(e, i, size)[c]
          = [z EXCEPT !.ext = CutExtents(z.ext, d), !.next = NoNext, !.last = size % Bps]
    BY <1>5, <1>6
  <1>8. size % Bps \in 0 .. (Bps - 1) /\ NoNext \in Entry
    BY SizesAre, EntryIs
  <1>9. Truncated(e, i, size)[c] = [z EXCEPT !.ext = y, !.next = NoNext, !.last = size % Bps]
    BY <1>4, <1>6, <1>7
  <1>10. /\ [z EXCEPT !.ext = y, !.next = NoNext, !.last = size % Bps] \in Slot
         /\ [z EXCEPT !.ext = y, !.next = NoNext, !.last = size % Bps].kind = z.kind
         /\ [z EXCEPT !.ext = y, !.next = NoNext, !.last = size % Bps].name = z.name
         /\ [z EXCEPT !.ext = y, !.next = NoNext, !.last = size % Bps].ext = y
         /\ [z EXCEPT !.ext = y, !.next = NoNext, !.last = size % Bps].next = NoNext
         /\ [z EXCEPT !.ext = y, !.next = NoNext, !.last = size % Bps].last = size % Bps
    BY <1>8 DEF Slot
  <1> QED
    BY <1>3, <1>9, <1>10

(* Each entry of a file that is cut. *)
LEMMA CutPieces ==
  ASSUME NEW e \in Table, NEW i \in Entry, NEW m \in Nat, Shape(e, i, m),
         NEW F, FileIs(F, e, i, m), NEW size \in Nat,
         NEW r \in 0 .. m, CutAt(e, i, m, F, r, SectorsFor(size)),
         NEW h, h = Truncated(e, i, size)
  PROVE  /\ \A c \in Entry \ Chain(e, i) : h[c] = e[c]
         /\ \A k \in 0 .. (r - 1) : h[Walk(e, i)[k]] = e[Walk(e, i)[k]]
         /\ \A k \in (r + 1) .. m : h[Walk(e, i)[k]] = Deleted
         /\ LET z == e[Walk(e, i)[r]]
                v == h[Walk(e, i)[r]]
            IN  /\ v.kind = z.kind /\ v.name = z.name /\ v.next = NoNext /\ v.last = size % Bps
                /\ v \in Slot /\ SectorsFor(size) - Len(F[r]) \in 0 .. Len(SectorsOf(z.ext))
                /\ v.ext = CutExtents(z.ext, SectorsFor(size) - Len(F[r]))
         /\ h \in Table
  <1> DEFINE w == Walk(e, i)
             q == SectorsFor(size)
             b(k) == SectorsBefore(e, i, w[k])
  <1>1. \A k \in 0 .. m : SectorsBefore(e, i, w[k]) = Len(F[k])
    BY SectorsBeforeIs
  <1>2. /\ Chain(e, i) = { w[k] : k \in 0 .. m } /\ \A a, d \in 0 .. m : w[a] = w[d] => a = d
    BY DEF Shape
  <1>3. w[0] = i /\ w \in [Nat -> Entry]
    BY WalkType
  <1>4. /\ \A k \in 0 .. (m + 1) : Len(F[k]) \in Nat
        /\ \A j \in 0 .. (m + 1) : \A k \in j .. (m + 1) : Len(F[j]) <= Len(F[k])
        /\ F[0] = << >>
        /\ \A k \in 0 .. m : Len(F[k + 1]) = Len(F[k]) + Len(SectorsOf(e[w[k]].ext))
                             /\ Len(SectorsOf(e[w[k]].ext)) \in Nat
    <2>1. Parts(F, e, i, m)
      BY FileIsFacts
    <2>2. ASSUME NEW k \in 0 .. m
          PROVE  Len(F[k + 1]) = Len(F[k]) + Len(SectorsOf(e[w[k]].ext))
                 /\ Len(SectorsOf(e[w[k]].ext)) \in Nat
      <3>0. F[k + 1] = F[k] \o SectorsOf(e[w[k]].ext) /\ SectorsOf(e[w[k]].ext) \in Seq(Nat)
        BY <2>1 DEF Parts
      <3>1. k \in 0 .. (m + 1) /\ F[k] \in Seq(Nat)
        BY LengthsGrow
      <3>2. PICK x \in Seq(Nat), y \in Seq(Nat) : x = F[k] /\ y = SectorsOf(e[w[k]].ext)
        BY <3>0, <3>1
      <3>3. Len(x \o y) = Len(x) + Len(y) /\ Len(y) \in Nat
        BY ConcatProperties
      <3> QED
        BY <3>0, <3>2, <3>3
    <2>3. F[0] = << >>
      BY <2>1 DEF Parts
    <2> QED
      BY <2>2, <2>3, LengthsGrow
  <1>5. /\ Len(F[r + 1]) >= q /\ \A k \in 0 .. (r - 1) : Len(F[k + 1]) < q
        /\ r # 0 => Len(F[r]) < q
    BY DEF CutAt
  <1>6. q \in Nat /\ r \in Nat /\ r <= m /\ r \in 0 .. (m + 1)
    BY SizesAre
  <1>7. h = [j \in Entry |->
     IF j \notin Chain(e, i) THEN e[j]
     ELSE IF IsCutOff(e, i, j, q) THEN Deleted
     ELSE IF SectorsBefore(e, i, j) + Len(SectorsOf(e[j].ext)) >= q
       THEN [e[j] EXCEPT !.ext = CutExtents(@, q - SectorsBefore(e, i, j)),
                         !.next = NoNext, !.last = size % Bps]
     ELSE e[j]]
    BY DEF Truncated
  <1> HIDE DEF w, q
  <1>8. \A c \in Entry \ Chain(e, i) : h[c] = e[c]
    BY <1>7
  <1>9. ASSUME NEW k \in 0 .. (r - 1) PROVE h[w[k]] = e[w[k]]
    <2>1. k \in 0 .. m /\ k \in Nat /\ k \in 0 .. (m + 1) /\ k + 1 \in 0 .. (m + 1)
      BY <1>6
    <2>2. w[k] \in Chain(e, i) /\ w[k] \in Entry
      BY <1>2, <1>3, <2>1
    <2>3. Len(F[k]) < q /\ Len(F[k + 1]) < q
      BY <1>4, <1>5, <1>6, <2>1
    <2>4. ~ IsCutOff(e, i, w[k], q)
      BY <1>1, <1>4, <1>6, <2>1, <2>3 DEF IsCutOff
    <2>5. ~ (SectorsBefore(e, i, w[k]) + Len(SectorsOf(e[w[k]].ext)) >= q)
      <3>1. SectorsBefore(e, i, w[k]) + Len(SectorsOf(e[w[k]].ext)) = Len(F[k + 1])
        BY <1>1, <1>4, <2>1
      <3>2. Len(F[k + 1]) \in Nat
        BY <1>4, <2>1
      <3> QED
        BY <1>6, <2>3, <3>1, <3>2
    <2> QED
      BY <1>7, <2>2, <2>4, <2>5
  <1>10. ASSUME NEW k \in (r + 1) .. m PROVE h[w[k]] = Deleted
    <2>1. k \in 0 .. m /\ k \in Nat /\ k \in (r + 1) .. (m + 1) /\ r + 1 \in 0 .. (m + 1) /\ k # 0
          /\ 0 \in 0 .. m /\ k \in 0 .. (m + 1)
      BY <1>6
    <2>2. w[k] \in Chain(e, i) /\ w[k] \in Entry /\ w[k] # i
      <3>1. w[k] # w[0]
        BY <1>2, <2>1
      <3> QED
        BY <1>2, <1>3, <2>1, <3>1
    <2>3. Len(F[r + 1]) <= Len(F[k])
      BY <1>4, <2>1
    <2>4. Len(F[k]) >= q
      BY <1>4, <1>5, <1>6, <2>1, <2>3
    <2>5. IsCutOff(e, i, w[k], q)
      BY <1>1, <2>1, <2>2, <2>4 DEF IsCutOff
    <2> QED
      BY <1>7, <2>2, <2>5
  <1> DEFINE z == e[w[r]]
             v == h[w[r]]
  <1>11. w[r] \in Chain(e, i) /\ w[r] \in Entry /\ z \in Slot /\ z.ext \in Seq(AnyExtent)
    BY <1>2, <1>3, <1>6, TableIs
  <1>12. /\ ~ IsCutOff(e, i, w[r], q)
         /\ SectorsBefore(e, i, w[r]) + Len(SectorsOf(z.ext)) >= q
         /\ SectorsBefore(e, i, w[r]) = Len(F[r])
         /\ q - Len(F[r]) \in 0 .. Len(SectorsOf(z.ext))
    <2>1. PICK x \in Nat, y \in Nat : x = Len(F[r]) /\ y = Len(SectorsOf(z.ext))
      BY <1>4, <1>6
    <2>2. Len(F[r + 1]) = x + y
      BY <1>4, <1>6, <2>1
    <2>3. x + y >= q
      BY <1>5, <2>2
    <2>4. r = 0 => x = 0
      BY <1>4, <2>1
    <2>5. r # 0 => x < q
      BY <1>5, <2>1
    <2>6. q - x \in 0 .. y
      BY <1>6, <2>3, <2>4, <2>5
    <2>7. SectorsBefore(e, i, w[r]) = x
      BY <1>1, <2>1
    <2>8. ~ IsCutOff(e, i, w[r], q)
      BY <1>3, <1>6, <2>4, <2>5, <2>7 DEF IsCutOff
    <2> QED
      BY <2>1, <2>3, <2>6, <2>7, <2>8
  <1>13. PICK y \in Seq(AnyExtent) : y = CutExtents(z.ext, q - SectorsBefore(e, i, w[r]))
    <2>0. PICK d \in 0 .. Len(SectorsOf(z.ext)) : d = q - SectorsBefore(e, i, w[r])
      BY <1>12
    <2>1. PICK x : x = CutExtents(z.ext, d)
      OBVIOUS
    <2>2. x \in Seq(AnyExtent)
      BY <1>11, <2>1, CutExtentsIs DEF HasFirst
    <2> QED
      BY <2>0, <2>1, <2>2
  <1>14. Ended(e, i)
    BY ShapeEnds
  <1>15. /\ v \in Slot /\ v.kind = z.kind /\ v.name = z.name /\ v.next = NoNext
         /\ v.last = size % Bps /\ v.ext = y
    <2>1. PICK c \in Chain(e, i) : c = w[r]
      BY <1>11
    <2>2. /\ ~ IsCutOff(e, i, c, SectorsFor(size))
          /\ SectorsBefore(e, i, c) + Len(SectorsOf(e[c].ext)) >= SectorsFor(size)
          /\ y = CutExtents(e[c].ext, SectorsFor(size) - SectorsBefore(e, i, c))
      BY <1>12, <1>13, <2>1 DEF q
    <2>3. h[c] \in Slot /\ h[c].kind = e[c].kind /\ h[c].name = e[c].name
          /\ h[c].ext = y /\ h[c].next = NoNext /\ h[c].last = size % Bps
      BY <1>14, <2>2, TruncatedType
    <2> QED
      BY <2>1, <2>3
  <1>16. v.ext = CutExtents(z.ext, q - Len(F[r]))
    BY <1>12, <1>13, <1>15
  <1>17. h \in Table
    <2>1. Deleted \in Slot
      <3>1. 0 \in 0 .. (Bps - 1) /\ NoNext \in Entry /\ << >> \in Seq(AnyExtent)
        BY DirAssumption, EntryIs
      <3> QED
        BY <3>1 DEF Deleted, Slot, Kind
    <2>2. ASSUME NEW c \in Entry PROVE h[c] \in Slot
      <3>1. CASE c \notin Chain(e, i)
        BY <1>8, <3>1, TableIs
      <3>2. CASE c \in Chain(e, i)
        <4>1. PICK k \in 0 .. m : c = w[k]
          BY <1>2, <3>2
        <4>2. k \in 0 .. (r - 1) \/ k = r \/ k \in (r + 1) .. m
          BY <1>6
        <4>3. CASE k \in 0 .. (r - 1)
          BY <1>9, <4>1, <4>3, TableIs
        <4>4. CASE k = r
          BY <1>15, <4>1, <4>4
        <4>5. CASE k \in (r + 1) .. m
          BY <1>10, <2>1, <4>1, <4>5
        <4> QED
          BY <4>2, <4>3, <4>4, <4>5
      <3> QED
        BY <3>1, <3>2
    <2>3. h = [j \in Entry |-> h[j]]
      BY <1>7
    <2> QED
      BY <2>2, <2>3 DEF Table
  <1> QED
    BY <1>8, <1>9, <1>10, <1>12, <1>15, <1>16, <1>17 DEF w, q
(* A file cut to a size has its first sectors, in the first entries of its  *)
(* chain; the others are deleted, and those of other files as they were.    *)
IsCut(e, h, i, size) ==
  /\ h \in Table /\ Ended(h, i)
  /\ Begins(FileSectors(h, i), FileSectors(e, i))
  /\ Len(FileSectors(h, i)) = SectorsFor(size)
  /\ i \in Chain(h, i) /\ Chain(h, i) \subseteq Chain(e, i)
  /\ h[LastEntry(h, i)].last = size % Bps
  /\ \A c \in Entry \ Chain(e, i) : h[c] = e[c]
  /\ \A c \in Chain(e, i) \ Chain(h, i) : h[c] = Deleted
  /\ \A c \in Chain(h, i) :
       /\ h[c].kind = e[c].kind /\ h[c].name = e[c].name
       /\ Shortened(e[c].ext, h[c].ext)
       /\ c # i => h[c].ext = e[c].ext \/ h[c].ext # << >>

(* A file cut to a size keeps its first sectors for that size, and no       *)
(* others.                                                                  *)
LEMMA CutFile ==
  ASSUME NEW e \in Table, NEW i \in Entry, Ended(e, i), NEW size \in Nat,
         SectorsFor(size) <= Len(FileSectors(e, i))
  PROVE  IsCut(e, Truncated(e, i, size), i, size)
  <1>1. PICK h : h = Truncated(e, i, size)
    OBVIOUS
  <1>2. PICK m \in Nat : Shape(e, i, m)
    BY ChainShape
  <1>3. PICK F : FileIs(F, e, i, m)
    BY <1>2, FileSectorsAre
  <1>4. PICK q \in Nat : q = SectorsFor(size)
    BY SizesAre
  <1>5. PICK r \in 0 .. m : CutAt(e, i, m, F, r, q)
    BY <1>3, <1>4, CutPlace
  <1> DEFINE w == Walk(e, i)
             z == e[w[r]]
             v == h[w[r]]
  <1>6. CutAt(e, i, m, F, r, SectorsFor(size))
    BY <1>4, <1>5
  <1>7. /\ \A c \in Entry \ Chain(e, i) : h[c] = e[c]
        /\ \A k \in 0 .. (r - 1) : h[w[k]] = e[w[k]]
        /\ \A k \in (r + 1) .. m : h[w[k]] = Deleted
        /\ v.kind = z.kind /\ v.name = z.name /\ v.next = NoNext /\ v.last = size % Bps
        /\ v \in Slot /\ SectorsFor(size) - Len(F[r]) \in 0 .. Len(SectorsOf(z.ext))
        /\ v.ext = CutExtents(z.ext, SectorsFor(size) - Len(F[r]))
        /\ h \in Table
    <2> HIDE DEF w
    <2>1. LET y == e[Walk(e, i)[r]]
              u == h[Walk(e, i)[r]]
          IN  /\ u.kind = y.kind /\ u.name = y.name /\ u.next = NoNext /\ u.last = size % Bps
              /\ u \in Slot /\ SectorsFor(size) - Len(F[r]) \in 0 .. Len(SectorsOf(y.ext))
              /\ u.ext = CutExtents(y.ext, SectorsFor(size) - Len(F[r]))
      BY <1>1, <1>2, <1>3, <1>6, CutPieces
    <2>2. /\ \A c \in Entry \ Chain(e, i) : h[c] = e[c]
          /\ h \in Table
      BY <1>1, <1>2, <1>3, <1>6, CutPieces
    <2>3. \A k \in 0 .. (r - 1) : h[Walk(e, i)[k]] = e[Walk(e, i)[k]]
      BY <1>1, <1>2, <1>3, <1>6, CutPieces
    <2>4. \A k \in (r + 1) .. m : h[Walk(e, i)[k]] = Deleted
      BY <1>1, <1>2, <1>3, <1>6, CutPieces
    <2> QED
      BY <2>1, <2>2, <2>3, <2>4 DEF w
  <1>8. /\ Chain(e, i) = { w[k] : k \in 0 .. m } /\ \A a, d \in 0 .. m : w[a] = w[d] => a = d
    BY <1>2 DEF Shape
  <1>9. w[0] = i /\ w \in [Nat -> Entry]
    BY WalkType
  <1> HIDE DEF w
  <1>10. r \in Nat /\ r <= m /\ r \in 0 .. m /\ r \in 0 .. (m + 1) /\ r + 1 \in 0 .. (m + 1)
         /\ r + 1 \in r .. (m + 1) /\ m + 1 \in (r + 1) .. (m + 1) /\ m + 1 \in 0 .. (m + 1)
    BY <1>5
  <1>11. /\ Shape(h, i, r) /\ \A a \in 0 .. r : Walk(h, i)[a] = w[a]
         /\ Chain(h, i) = { w[a] : a \in 0 .. r } /\ LastEntry(h, i) = w[r]
    <2>1. h[Walk(e, i)[r]].next = NoNext
          /\ \A a \in 0 .. (r - 1) : h[Walk(e, i)[a]].next = e[Walk(e, i)[a]].next
      BY <1>7 DEF w
    <2>2. h \in Table
      BY <1>7
    <2> QED
      BY <1>2, <1>5, <2>1, <2>2, CutChain DEF w
  <1>12. w[r] \in Entry /\ z.ext \in Seq(AnyExtent) /\ z.ext = e[w[r]].ext
    BY <1>9, <1>10, TableIs
  <1>13. PICK d \in 0 .. Len(SectorsOf(z.ext)) : d = q - Len(F[r])
    BY <1>4, <1>7
  <1>14. /\ v.ext \in Seq(AnyExtent) /\ Shortened(z.ext, v.ext)
         /\ Begins(SectorsOf(v.ext), SectorsOf(z.ext)) /\ Len(SectorsOf(v.ext)) = d
    <2>1. PICK y : y = v.ext
      OBVIOUS
    <2>2. PICK x \in Seq(AnyExtent) : x = z.ext
      BY <1>12
    <2>3. y = CutExtents(x, d) /\ d \in 0 .. Len(SectorsOf(x))
      BY <1>4, <1>7, <1>13, <2>1, <2>2
    <2>4. HasFirst(x, y, d)
      BY <2>3, CutExtentsIs
    <2> QED
      BY <2>1, <2>2, <2>4 DEF HasFirst
  <1>15. \A k \in 0 .. (m + 1) : F[k] \in Seq(Nat) /\ Len(F[k]) \in Nat
    BY <1>3, LengthsGrow
  <1>16. PICK G : FileIs(G, h, i, r)
    BY <1>7, <1>10, <1>11, FileSectorsAre
  <1>17. F[r] = G[r]
    <2>1. PICK l \in Nat : l = r
      BY <1>10
    <2>2. Alike(e, i, h, i, l)
      <3> SUFFICES ASSUME NEW a \in 0 .. (l - 1)
                   PROVE  SectorsOf(h[Walk(h, i)[a]].ext) = SectorsOf(e[Walk(e, i)[a]].ext)
        BY DEF Alike
      <3>1. a \in 0 .. (r - 1) /\ a \in 0 .. r
        BY <1>10, <2>1
      <3>2. h[w[a]] = e[w[a]] /\ Walk(h, i)[a] = w[a]
        BY <1>7, <1>11, <3>1
      <3> QED
        BY <3>2 DEF w
    <2>3. l <= m + 1 /\ l <= r + 1 /\ l \in 0 .. l /\ r \in Nat
      BY <1>10, <2>1
    <2>4. AgreeUpTo(F, G, l)
      BY <1>3, <1>7, <1>16, <2>2, <2>3, FilesAgree
    <2> QED
      BY <2>1, <2>3, <2>4 DEF AgreeUpTo
  <1>18. FileSectors(h, i) = F[r] \o SectorsOf(v.ext)
    <2>1. EndsWith(G, h, i, r)
      BY <1>7, <1>10, <1>16, LastPiece
    <2>2. FileSectors(h, i) = G[r] \o SectorsOf(h[Walk(h, i)[r]].ext)
      BY <2>1 DEF EndsWith
    <2>3. Walk(h, i)[r] = w[r]
      BY <1>10, <1>11
    <2> QED
      BY <1>17, <2>2, <2>3
  <1>19. F[r + 1] = F[r] \o SectorsOf(z.ext) /\ FileSectors(e, i) = F[m + 1]
    <2>1. Parts(F, e, i, m)
      BY <1>3, FileIsFacts
    <2> QED
      BY <1>10, <2>1 DEF Parts, w
  <1>20. F[r] \in Seq(Nat) /\ SectorsOf(v.ext) \in Seq(Nat) /\ SectorsOf(z.ext) \in Seq(Nat)
         /\ F[m + 1] \in Seq(Nat) /\ F[r + 1] \in Seq(Nat)
    BY <1>10, <1>12, <1>14, <1>15, SectorsOfIs
  <1>21. Begins(FileSectors(h, i), FileSectors(e, i))
    <2>1. Begins(F[r] \o SectorsOf(v.ext), F[r] \o SectorsOf(z.ext))
      BY <1>14, <1>20, BeginsConcat
    <2>2. Begins(F[r + 1], F[m + 1])
      BY <1>3, <1>10, LengthsGrow
    <2>3. FileSectors(h, i) \in Seq(Nat)
      BY <1>18, <1>20, ConcatProperties
    <2> QED
      BY <1>18, <1>19, <1>20, <2>1, <2>2, <2>3, BeginsTransitive
  <1>22. Len(FileSectors(h, i)) = q
    <2>1. PICK x \in Seq(Nat), y \in Seq(Nat) : x = F[r] /\ y = SectorsOf(v.ext)
      BY <1>20
    <2>2. Len(x \o y) = Len(x) + Len(y)
      BY ConcatProperties
    <2>3. Len(x) \in Nat /\ Len(y) = d /\ d = q - Len(x) /\ q \in Nat
      BY <1>4, <1>13, <1>14, <2>1
    <2>4. Len(x \o y) = q
      BY <2>2, <2>3
    <2> QED
      BY <1>18, <2>1, <2>4
  <1>23. i \in Chain(h, i) /\ Chain(h, i) \subseteq Chain(e, i)
    <2>1. 0 .. r \subseteq 0 .. m /\ 0 \in 0 .. r
      BY <1>10
    <2> QED
      BY <1>8, <1>9, <1>11, <2>1
  <1>24. \A c \in Chain(e, i) \ Chain(h, i) : h[c] = Deleted
    <2> SUFFICES ASSUME NEW c \in Chain(e, i) \ Chain(h, i) PROVE h[c] = Deleted
      OBVIOUS
    <2>1. PICK k \in 0 .. m : c = w[k]
      BY <1>8
    <2>2. k \notin 0 .. r
      BY <1>11, <2>1
    <2>3. k \in (r + 1) .. m
      BY <1>10, <2>2
    <2> QED
      BY <1>7, <2>1, <2>3
  <1>25. ASSUME NEW c \in Chain(h, i)
         PROVE  /\ h[c].kind = e[c].kind /\ h[c].name = e[c].name
                /\ Shortened(e[c].ext, h[c].ext)
                /\ c # i => h[c].ext = e[c].ext \/ h[c].ext # << >>
    <2>1. PICK k \in 0 .. r : c = w[k]
      BY <1>11
    <2>2. CASE k # r
      <3>1. k \in 0 .. (r - 1)
        BY <1>10, <2>2
      <3>2. h[c] = e[c]
        BY <1>7, <2>1, <3>1
      <3>3. c \in Entry
        BY <1>23, ChainType
      <3>4. Len(e[c].ext) \in Nat
        BY <3>3, TableIs
      <3>5. Shortened(e[c].ext, e[c].ext)
        BY <3>4 DEF Shortened
      <3> QED
        BY <3>2, <3>5
    <2>3. CASE k = r
      <3>1. Shortened(z.ext, v.ext)
        BY <1>14
      <3>2. c # i => v.ext # << >>
        <4> SUFFICES ASSUME c # i, v.ext = << >> PROVE FALSE
          OBVIOUS
        <4>1. r # 0
          BY <1>9, <2>1, <2>3
        <4>2. Len(F[r]) < q
          BY <1>5, <4>1 DEF CutAt
        <4>3. SectorsOf(v.ext) = << >>
          BY SectorsOfNone
        <4>4. d = 0
          BY <1>14, <4>3
        <4>5. Len(F[r]) \in Nat
          BY <1>20
        <4> QED
          BY <1>4, <1>13, <4>2, <4>4, <4>5
      <3> QED
        BY <1>7, <2>1, <2>3, <3>1, <3>2
    <2> QED
      BY <2>2, <2>3
  <1>26. Ended(h, i)
    BY <1>11, ShapeEnds
  <1>27. h[LastEntry(h, i)].last = size % Bps
    BY <1>7, <1>11
  <1>28. IsCut(e, h, i, size)
    BY <1>4, <1>7, <1>21, <1>22, <1>23, <1>24, <1>25, <1>26, <1>27 DEF IsCut
  <1> QED
    BY <1>1, <1>28
-----------------------------------------------------------------------------
(* Directories as wholes *)

(* An extent that has sectors, all of them the disk's. *)
IsExtent(x) == x \in AnyExtent /\ x.count \in 1 .. MaxExtent /\ x.lsn + x.count <= Total

(* An entry of the directory on the disk. *)
Sound(e) ==
  /\ e \in Slot /\ Len(e.ext) <= Capacity(e)
  /\ \A k \in DOMAIN e.ext : IsExtent(e.ext[k])
  /\ e.kind = "more" => e.ext # << >>

(* The entry that a file grows by, while it gets an extent. *)
Growable(e, fresh) ==
  /\ e \in Slot /\ Len(e.ext) <= Capacity(e)
  /\ \A k \in DOMAIN e.ext :
       \/ IsExtent(e.ext[k])
       \/ ~ fresh /\ k = Len(e.ext) /\ e.ext[k].count = 0 /\ e.ext[k].lsn < Total
  /\ ~ fresh => e.ext # << >>

(* Each file is a chain of entries, and no entry is in two. *)
Chained(e) ==
  \A i \in Files(e) :
    /\ IsChain(e, i)
    /\ \A j \in Files(e) \ {i} : Chain(e, i) \cap Chain(e, j) = {}

(* Sectors f are free, x in reserve, and the files of e have others, each   *)
(* once.                                                                    *)
Apart(f, e, x) ==
  /\ f \subseteq Lsn \ System /\ x \subseteq Lsn \ (f \cup System)
  /\ \A i \in Files(e) :
       /\ IsInjective(FileSectors(e, i))
       /\ Held(e, i) \subseteq Lsn \ (f \cup x \cup System)
       /\ \A j \in Files(e) \ {i} : Held(e, i) \cap Held(e, j) = {}

(* None is lost, of sectors or entries. *)
Exact(f, e, x) ==
  /\ Lsn \ f = System \cup x \cup UNION { Held(e, i) : i \in Files(e) }
  /\ { j \in Entry : e[j].kind # "deleted" } = UNION { Chain(e, i) : i \in Files(e) }

(* A file that is in h as in e. *)
Undisturbed(e, h, j) ==
  /\ IsChain(h, j) /\ Chain(h, j) = Chain(e, j)
  /\ FileSectors(h, j) = FileSectors(e, j) /\ Held(h, j) = Held(e, j)

(* In a well formed directory each file has a header and a chain that ends  *)
(* in it.                                                                   *)
LEMMA FilesAre ==
  ASSUME NEW e \in Table, NEW j \in Files(e), Chained(e)
  PROVE  /\ j \in Entry /\ e[j].kind = "header" /\ IsChain(e, j) /\ Ended(e, j)
         /\ j \in Chain(e, j) /\ Chain(e, j) \subseteq Entry
         /\ \A c \in Chain(e, j) : e[c].kind # "deleted"
         /\ FileSectors(e, j) \in Seq(Nat)
  <1>1. j \in Entry /\ e[j].kind = "header"
    BY DEF Files
  <1>2. IsChain(e, j)
    BY DEF Chained
  <1>3. Ended(e, j)
    BY <1>2 DEF IsChain, Ended
  <1>4. j \in Chain(e, j) /\ Chain(e, j) \subseteq Entry
    BY <1>1, ChainType
  <1>5. \A c \in Chain(e, j) : e[c].kind # "deleted"
    BY <1>1, <1>2 DEF IsChain
  <1>6. FileSectors(e, j) \in Seq(Nat)
    BY <1>1, <1>3, FileType
  <1> QED
    BY <1>1, <1>2, <1>3, <1>4, <1>5, <1>6

(* A file none of whose entries changed its links or sectors is undisturbed. *)
LEMMA SameIsUndisturbed ==
  ASSUME NEW e \in Table, NEW h \in Table, NEW j \in Files(e), Chained(e),
         \A c \in Chain(e, j) : /\ h[c].next = e[c].next /\ h[c].kind = e[c].kind
                                /\ SectorsOf(h[c].ext) = SectorsOf(e[c].ext)
  PROVE  Undisturbed(e, h, j)
  <1>1. j \in Entry /\ IsChain(e, j) /\ Ended(e, j)
    BY FilesAre
  <1>2. /\ FileSectors(h, j) = FileSectors(e, j) /\ Chain(h, j) = Chain(e, j)
        /\ LastEntry(h, j) = LastEntry(e, j) /\ Ended(h, j) /\ Held(h, j) = Held(e, j)
    BY <1>1, SameFile
  <1>3. IsChain(h, j)
    BY <1>1, <1>2 DEF IsChain, Ended
  <1> QED
    BY <1>2, <1>3 DEF Undisturbed

Exists(e) == { j \in Entry : e[j].kind # "deleted" }

(* A directory that differs in nothing that decides which sectors its files *)
(* have.                                                                    *)
LEMMA SameDirectory ==
  ASSUME NEW e \in Table, NEW h \in Table, Chained(e),
         \A c \in Entry : /\ h[c].next = e[c].next /\ h[c].kind = e[c].kind
                          /\ SectorsOf(h[c].ext) = SectorsOf(e[c].ext)
  PROVE  /\ Files(h) = Files(e) /\ Chained(h)
         /\ \A j \in Files(e) : Undisturbed(e, h, j)
         /\ \A f, x : Apart(f, e, x) => Apart(f, h, x)
         /\ \A f, x : Exact(f, e, x) => Exact(f, h, x)
  <1>1. Files(h) = Files(e)
    BY DEF Files
  <1>2. ASSUME NEW j \in Files(e) PROVE Undisturbed(e, h, j)
    <2>1. Chain(e, j) \subseteq Entry
      BY FilesAre
    <2> QED
      BY <2>1, SameIsUndisturbed
  <1>3. Chained(h)
    BY <1>1, <1>2 DEF Chained, Undisturbed
  <1>4. \A f, x : Apart(f, e, x) => Apart(f, h, x)
    BY <1>1, <1>2 DEF Apart, Undisturbed
  <1>5. \A f, x : Exact(f, e, x) => Exact(f, h, x)
    <2>1. UNION { Held(h, i) : i \in Files(h) } = UNION { Held(e, i) : i \in Files(e) }
      BY <1>1, <1>2 DEF Undisturbed
    <2>2. UNION { Chain(h, i) : i \in Files(h) } = UNION { Chain(e, i) : i \in Files(e) }
      BY <1>1, <1>2 DEF Undisturbed
    <2> QED
      BY <2>1, <2>2 DEF Exact
  <1> QED
    BY <1>1, <1>2, <1>3, <1>4, <1>5

(* A directory in which one file, i, is another: it exchanges sectors with  *)
(* those that are free and in reserve, and entries with those not used.     *)
Exchanged(f, e, x, g, h, y, i) ==
  /\ Files(h) = Files(e) /\ \A j \in Files(e) \ {i} : Undisturbed(e, h, j)
  /\ IsChain(h, i) /\ \A j \in Files(e) \ {i} : Chain(h, i) \cap Chain(e, j) = {}
  /\ IsInjective(FileSectors(h, i))
  /\ g \cup y \cup Held(h, i) = f \cup x \cup Held(e, i)
  /\ g \cap y = {} /\ g \cap Held(h, i) = {} /\ y \cap Held(h, i) = {}
  /\ Exists(h) = (Exists(e) \ Chain(e, i)) \cup Chain(h, i)

(* Sectors that change hands for one file leave every chain well formed. *)
LEMMA ExchangedIsChained ==
  ASSUME NEW e, NEW h, NEW f, NEW x, NEW g, NEW y, NEW i \in Files(e),
         Chained(e), Exchanged(f, e, x, g, h, y, i)
  PROVE  Chained(h)
  BY DEF Chained, Exchanged, Undisturbed

(* Sectors that change hands for one file leave no sector with two owners. *)
LEMMA ExchangedIsApart ==
  ASSUME NEW e, NEW h, NEW f, NEW x, NEW g, NEW y, NEW i \in Files(e),
         Apart(f, e, x), Exchanged(f, e, x, g, h, y, i)
  PROVE  Apart(g, h, y)
  <1>1. /\ f \subseteq Lsn \ System /\ x \subseteq Lsn \ (f \cup System)
        /\ Held(e, i) \subseteq Lsn \ (f \cup x \cup System)
    BY DEF Apart
  <1>2. /\ g \cup y \cup Held(h, i) = f \cup x \cup Held(e, i)
        /\ g \cap y = {} /\ g \cap Held(h, i) = {} /\ y \cap Held(h, i) = {}
    BY DEF Exchanged
  <1>3. g \subseteq Lsn \ System /\ y \subseteq Lsn \ (g \cup System)
        /\ Held(h, i) \subseteq Lsn \ (g \cup y \cup System)
    BY <1>1, <1>2
  <1>4. ASSUME NEW j \in Files(e) \ {i}
        PROVE  /\ IsInjective(FileSectors(h, j)) /\ Held(h, j) = Held(e, j)
               /\ Held(h, j) \subseteq Lsn \ (g \cup y \cup System)
               /\ Held(h, j) \cap Held(h, i) = {}
    <2>1. FileSectors(h, j) = FileSectors(e, j) /\ Held(h, j) = Held(e, j)
      BY DEF Exchanged, Undisturbed
    <2>2. /\ IsInjective(FileSectors(e, j)) /\ Held(e, j) \subseteq Lsn \ (f \cup x \cup System)
          /\ Held(e, i) \cap Held(e, j) = {}
      BY DEF Apart
    <2>3. Held(e, j) \cap (g \cup y \cup Held(h, i)) = {}
      BY <1>2, <2>2
    <2> QED
      BY <2>1, <2>2, <2>3
  <1>5. \A j \in Files(e) \ {i} : \A k \in Files(e) \ {i} : j # k => Held(e, j) \cap Held(e, k) = {}
    BY DEF Apart
  <1>6. IsInjective(FileSectors(h, i)) /\ Files(h) = Files(e)
    BY DEF Exchanged
  <1>7. ASSUME NEW j \in Files(h), NEW k \in Files(h) \ {j} PROVE Held(h, j) \cap Held(h, k) = {}
    <2>1. CASE j = i
      <3>1. k \in Files(e) \ {i}
        BY <1>6, <2>1
      <3> QED
        BY <1>4, <2>1, <3>1
    <2>2. CASE k = i
      <3>1. j \in Files(e) \ {i}
        BY <1>6, <2>2
      <3> QED
        BY <1>4, <2>2, <3>1
    <2>3. CASE j # i /\ k # i
      <3>1. j \in Files(e) \ {i} /\ k \in Files(e) \ {i} /\ j # k
        BY <1>6, <2>3
      <3>2. Held(h, j) = Held(e, j) /\ Held(h, k) = Held(e, k)
        BY <1>4, <3>1
      <3> QED
        BY <1>5, <3>1, <3>2
    <2> QED
      BY <2>1, <2>2, <2>3
  <1>8. ASSUME NEW j \in Files(h)
        PROVE  IsInjective(FileSectors(h, j)) /\ Held(h, j) \subseteq Lsn \ (g \cup y \cup System)
    BY <1>3, <1>4, <1>6
  <1> QED
    BY <1>3, <1>7, <1>8 DEF Apart

(* Sectors that change hands for one file leave no sector without an owner. *)
LEMMA ExchangedIsExact ==
  ASSUME NEW e, NEW h, NEW f, NEW x, NEW g, NEW y, NEW i \in Files(e),
         Chained(e), Apart(f, e, x), Exact(f, e, x), Exchanged(f, e, x, g, h, y, i)
  PROVE  Exact(g, h, y)
  <1> DEFINE others == UNION { Held(e, j) : j \in Files(e) \ {i} }
             chains == UNION { Chain(e, j) : j \in Files(e) \ {i} }
  <1>1. /\ g \cup y \cup Held(h, i) = f \cup x \cup Held(e, i)
        /\ g \cap y = {} /\ g \cap Held(h, i) = {} /\ Files(h) = Files(e)
        /\ Exists(h) = (Exists(e) \ Chain(e, i)) \cup Chain(h, i)
    BY DEF Exchanged
  <1>2. \A j \in Files(e) \ {i} : Held(h, j) = Held(e, j) /\ Chain(h, j) = Chain(e, j)
    BY DEF Exchanged, Undisturbed
  <1>3. UNION { Held(h, j) : j \in Files(h) } = others \cup Held(h, i)
    BY <1>1, <1>2
  <1>4. UNION { Held(e, j) : j \in Files(e) } = others \cup Held(e, i)
    OBVIOUS
  <1>5. UNION { Chain(h, j) : j \in Files(h) } = chains \cup Chain(h, i)
    BY <1>1, <1>2
  <1>6. UNION { Chain(e, j) : j \in Files(e) } = chains \cup Chain(e, i)
    OBVIOUS
  <1>7. chains \cap Chain(e, i) = {}
    BY DEF Chained
  <1>8. others \cap (f \cup x \cup Held(e, i)) = {}
    <2>1. ASSUME NEW j \in Files(e) \ {i} PROVE Held(e, j) \cap (f \cup x \cup Held(e, i)) = {}
      BY DEF Apart
    <2> QED
      BY <2>1
  <1>9. f \subseteq Lsn \ System /\ x \subseteq Lsn \ System /\ Held(e, i) \subseteq Lsn \ (f \cup x \cup System)
    BY DEF Apart
  <1>10. Lsn \ f = System \cup x \cup UNION { Held(e, j) : j \in Files(e) }
         /\ Exists(e) = UNION { Chain(e, j) : j \in Files(e) }
    BY DEF Exact, Exists
  <1> HIDE DEF others, chains
  <1>11. Lsn \ f = System \cup x \cup others \cup Held(e, i)
    BY <1>4, <1>10
  <1>12. x \cap f = {}
    BY DEF Apart
  <1>13. Lsn \ g = System \cup y \cup others \cup Held(h, i)
    BY <1>1, <1>8, <1>9, <1>11, <1>12
  <1>14. Exists(h) = chains \cup Chain(h, i)
    BY <1>1, <1>6, <1>7, <1>10
  <1> QED
    BY <1>3, <1>5, <1>13, <1>14 DEF Exact, Exists
(* Sectors that come into reserve, or out of it. *)
LEMMA Reserved ==
  ASSUME NEW e, NEW f, NEW x, NEW g, NEW y, Apart(f, e, x), g \cup y = f \cup x, g \cap y = {}
  PROVE  Apart(g, e, y) /\ (Exact(f, e, x) => Exact(g, e, y))
  <1>1. f \subseteq Lsn \ System /\ x \subseteq Lsn \ (f \cup System)
    BY DEF Apart
  <1>2. g \subseteq Lsn \ System /\ y \subseteq Lsn \ (g \cup System) /\ f \cup x \cup System = g \cup y \cup System
    BY <1>1
  <1>3. Apart(g, e, y)
    <2>1. \A i \in Files(e) : Held(e, i) \subseteq Lsn \ (g \cup y \cup System)
      BY <1>2 DEF Apart
    <2> QED
      BY <1>2, <2>1 DEF Apart
  <1>4. Exact(f, e, x) => Exact(g, e, y)
    <2> SUFFICES ASSUME Exact(f, e, x) PROVE Exact(g, e, y)
      OBVIOUS
    <2> DEFINE held == UNION { Held(e, i) : i \in Files(e) }
    <2>1. held \cap (f \cup x) = {}
      BY DEF Apart
    <2>2. Lsn \ f = System \cup x \cup held
      BY DEF Exact
    <2> HIDE DEF held
    <2>3. Lsn \ g = System \cup y \cup held
      BY <1>1, <1>2, <2>1, <2>2
    <2> QED
      BY <2>3 DEF Exact, held
  <1> QED
    BY <1>3, <1>4

(* An extent names no sector twice. *)
LEMMA RunIsInjective ==
  ASSUME NEW x \in AnyExtent
  PROVE  IsInjective(Run(x))
  <1>1. x.lsn \in Nat /\ x.count \in Nat
    BY ExtentIs
  <1>2. DOMAIN Run(x) = 1 .. x.count /\ \A k \in 1 .. x.count : Run(x)[k] = x.lsn + k - 1
    BY DEF Run
  <1>3. \A j, k \in 1 .. x.count : x.lsn + j - 1 = x.lsn + k - 1 => j = k
    BY <1>1
  <1> QED
    BY <1>2, <1>3 DEF IsInjective

(* Two lists without repetition and with nothing in common have none        *)
(* together.                                                                *)
LEMMA InjectiveConcat ==
  ASSUME NEW a \in Seq(Nat), NEW b \in Seq(Nat), IsInjective(a), IsInjective(b),
         Range(a) \cap Range(b) = {}
  PROVE  IsInjective(a \o b)
  <1>1. Len(a) \in Nat /\ Len(b) \in Nat /\ DOMAIN a = 1 .. Len(a) /\ DOMAIN b = 1 .. Len(b)
    OBVIOUS
  <1>2. PICK c : c = a \o b
    OBVIOUS
  <1>3. /\ DOMAIN c = 1 .. (Len(a) + Len(b))
        /\ \A k \in 1 .. (Len(a) + Len(b)) : c[k] = IF k <= Len(a) THEN a[k] ELSE b[k - Len(a)]
    BY <1>2, ConcatProperties
  <1>4. \A k \in 1 .. (Len(a) + Len(b)) : k <= Len(a) => k \in 1 .. Len(a)
    BY <1>1
  <1>5. \A k \in 1 .. (Len(a) + Len(b)) : ~ (k <= Len(a)) => k - Len(a) \in 1 .. Len(b)
    BY <1>1
  <1>6. \A k \in 1 .. Len(a) : a[k] \in Range(a)
    BY <1>1 DEF Range
  <1>7. \A k \in 1 .. Len(b) : b[k] \in Range(b)
    BY <1>1 DEF Range
  <1>8. ASSUME NEW j \in 1 .. (Len(a) + Len(b)), NEW k \in 1 .. (Len(a) + Len(b)), c[j] = c[k]
        PROVE  j = k
    <2>1. CASE j <= Len(a) /\ k <= Len(a)
      <3>1. a[j] = a[k] /\ j \in 1 .. Len(a) /\ k \in 1 .. Len(a)
        BY <1>3, <1>4, <1>8, <2>1
      <3> QED
        BY <1>1, <3>1 DEF IsInjective
    <2>2. CASE j <= Len(a) /\ ~ (k <= Len(a))
      <3>1. c[j] \in Range(a)
        BY <1>3, <1>4, <1>6, <2>2
      <3>2. c[k] = b[k - Len(a)] /\ k - Len(a) \in 1 .. Len(b)
        BY <1>3, <1>5, <2>2
      <3>3. c[k] \in Range(b)
        BY <1>7, <3>2
      <3> QED
        BY <1>8, <3>1, <3>3
    <2>3. CASE ~ (j <= Len(a)) /\ k <= Len(a)
      <3>1. c[k] \in Range(a)
        BY <1>3, <1>4, <1>6, <2>3
      <3>2. c[j] = b[j - Len(a)] /\ j - Len(a) \in 1 .. Len(b)
        BY <1>3, <1>5, <2>3
      <3>3. c[j] \in Range(b)
        BY <1>7, <3>2
      <3> QED
        BY <1>8, <3>1, <3>3
    <2>4. CASE ~ (j <= Len(a)) /\ ~ (k <= Len(a))
      <3>1. PICK u \in 1 .. Len(b) : u = j - Len(a)
        BY <1>5, <2>4
      <3>2. PICK v \in 1 .. Len(b) : v = k - Len(a)
        BY <1>5, <2>4
      <3>3. c[j] = b[u] /\ c[k] = b[v]
        BY <1>3, <2>4, <3>1, <3>2
      <3>4. u = v
        BY <1>1, <1>8, <3>3 DEF IsInjective
      <3> QED
        BY <1>1, <3>1, <3>2, <3>4
    <2> QED
      BY <2>1, <2>2, <2>3, <2>4
  <1> QED
    BY <1>2, <1>3, <1>8 DEF IsInjective

(* The sectors g behind the n that stay of b. *)
Rest(b, n) == { b[k] : k \in (n + 1) .. Len(b) }

IsSplit(a, b, g) == Range(b) = Range(a) \cup g /\ Range(a) \cap g = {}

(* The beginning of a list without repetition has nothing in common with the*)
(* rest.                                                                    *)
LEMMA InjectiveBegins ==
  ASSUME NEW a \in Seq(Nat), NEW b \in Seq(Nat), Begins(a, b), IsInjective(b),
         NEW g, g = Rest(b, Len(a))
  PROVE  IsInjective(a) /\ IsSplit(a, b, g)
  <1>0. g = { b[k] : k \in (Len(a) + 1) .. Len(b) }
    BY DEF Rest
  <1>1. /\ Len(a) \in Nat /\ Len(b) \in Nat /\ DOMAIN a = 1 .. Len(a) /\ DOMAIN b = 1 .. Len(b)
        /\ Len(a) <= Len(b) /\ \A k \in 1 .. Len(a) : a[k] = b[k]
    BY DEF Begins
  <1>2. \A j, k \in 1 .. Len(b) : b[j] = b[k] => j = k
    BY <1>1 DEF IsInjective
  <1>3. \A k \in 1 .. Len(a) : k \in 1 .. Len(b)
    BY <1>1
  <1>4. IsInjective(a)
    BY <1>1, <1>2, <1>3 DEF IsInjective
  <1>5. Range(a) = { b[k] : k \in 1 .. Len(a) } /\ Range(b) = { b[k] : k \in 1 .. Len(b) }
    BY <1>1 DEF Range
  <1>6. \A k \in 1 .. Len(b) : k \in 1 .. Len(a) \/ k \in (Len(a) + 1) .. Len(b)
    BY <1>1
  <1>7. \A k \in (Len(a) + 1) .. Len(b) : k \in 1 .. Len(b) /\ k \notin 1 .. Len(a)
    BY <1>1
  <1>8. Range(b) = Range(a) \cup g
    BY <1>0, <1>3, <1>5, <1>6, <1>7
  <1>9. Range(a) \cap g = {}
    BY <1>0, <1>2, <1>3, <1>5, <1>7
  <1> QED
    BY <1>4, <1>8, <1>9 DEF IsSplit

(* The entries of other files are not this one's. *)
LEMMA OtherChains ==
  ASSUME NEW e \in Table, Chained(e), NEW i \in Files(e), NEW j \in Files(e) \ {i}
  PROVE  /\ Chain(e, j) \subseteq Entry \ Chain(e, i)
         /\ \A c \in Chain(e, j) : e[c].kind # "deleted"
  <1>1. Chain(e, j) \subseteq Entry /\ \A c \in Chain(e, j) : e[c].kind # "deleted"
    BY FilesAre
  <1>2. Chain(e, i) \cap Chain(e, j) = {}
    BY DEF Chained
  <1> QED
    BY <1>1, <1>2

(* The last entry of a file gets sectors r of those in reserve. *)
LEMMA GrownIsExchanged ==
  ASSUME NEW e \in Table, NEW h \in Table, Chained(e), NEW f, NEW x, Apart(f, e, x),
         NEW i \in Files(e), NEW r \in Seq(Nat), IsInjective(r), Range(r) \subseteq x,
         \A c \in Entry \ {LastEntry(e, i)} : h[c] = e[c],
         h[LastEntry(e, i)].next = e[LastEntry(e, i)].next,
         h[LastEntry(e, i)].kind = e[LastEntry(e, i)].kind,
         SectorsOf(h[LastEntry(e, i)].ext) = SectorsOf(e[LastEntry(e, i)].ext) \o r
  PROVE  /\ Exchanged(f, e, x, f, h, x \ Range(r), i)
         /\ FileSectors(h, i) = FileSectors(e, i) \o r
         /\ LastEntry(h, i) = LastEntry(e, i)
  <1> DEFINE l == LastEntry(e, i)
  <1>1. /\ i \in Entry /\ e[i].kind = "header" /\ IsChain(e, i) /\ Ended(e, i)
        /\ i \in Chain(e, i) /\ Chain(e, i) \subseteq Entry
        /\ FileSectors(e, i) \in Seq(Nat)
    BY FilesAre
  <1>2. l \in Chain(e, i) /\ l \in Entry
    BY <1>1, ChainType
  <1>3. \A c \in Entry : h[c].next = e[c].next /\ h[c].kind = e[c].kind
    BY <1>2
  <1>4. \A c \in Chain(e, i) : h[c].next = e[c].next
    BY <1>1, <1>3
  <1>5. \A c \in Chain(e, i) \ {l} : SectorsOf(h[c].ext) = SectorsOf(e[c].ext)
    BY <1>1
  <1>6. /\ FileSectors(h, i) = FileSectors(e, i) \o r /\ Chain(h, i) = Chain(e, i)
        /\ LastEntry(h, i) = l /\ Ended(h, i)
    BY <1>1, <1>4, <1>5, GrownFile
  <1> HIDE DEF l
  <1>7. Files(h) = Files(e) /\ Exists(h) = Exists(e)
    BY <1>3 DEF Files, Exists
  <1>8. ASSUME NEW j \in Files(e) \ {i} PROVE Undisturbed(e, h, j)
    <2>1. \A c \in Chain(e, j) : h[c] = e[c]
      BY <1>2, OtherChains DEF l
    <2> QED
      BY <2>1, SameIsUndisturbed
  <1>9. IsChain(h, i)
    BY <1>1, <1>3, <1>6 DEF IsChain, Ended
  <1>10. Held(h, i) = Held(e, i) \cup Range(r)
    BY <1>1, <1>6, RangeConcatenation DEF Held
  <1>11. /\ x \cap f = {} /\ Held(e, i) \cap (f \cup x) = {} /\ IsInjective(FileSectors(e, i))
    BY DEF Apart
  <1>12. IsInjective(FileSectors(h, i))
    <2>1. Range(FileSectors(e, i)) \cap Range(r) = {}
      BY <1>11 DEF Held
    <2> QED
      BY <1>1, <1>6, <1>11, <2>1, InjectiveConcat
  <1>13. \A j \in Files(e) \ {i} : Chain(h, i) \cap Chain(e, j) = {}
    BY <1>6 DEF Chained
  <1>14. Exists(h) = (Exists(e) \ Chain(e, i)) \cup Chain(h, i)
    <2>1. Chain(e, i) \subseteq Exists(e)
      BY FilesAre DEF Exists
    <2> QED
      BY <1>6, <1>7, <2>1
  <1>15. /\ f \cup (x \ Range(r)) \cup Held(h, i) = f \cup x \cup Held(e, i)
         /\ f \cap (x \ Range(r)) = {} /\ f \cap Held(h, i) = {}
         /\ (x \ Range(r)) \cap Held(h, i) = {}
    BY <1>10, <1>11
  <1>16. Exchanged(f, e, x, f, h, x \ Range(r), i)
    BY <1>7, <1>8, <1>9, <1>12, <1>13, <1>14, <1>15 DEF Exchanged
  <1> QED
    BY <1>6, <1>16 DEF l

(* An entry that was not used is chained to the last. *)
LEMMA LongerIsExchanged ==
  ASSUME NEW e \in Table, NEW h \in Table, Chained(e), NEW f, NEW x, Apart(f, e, x),
         NEW i \in Files(e), NEW n \in Entry \ {NoNext}, e[n].kind = "deleted",
         h[LastEntry(e, i)].next = n, h[LastEntry(e, i)].kind = e[LastEntry(e, i)].kind,
         h[LastEntry(e, i)].ext = e[LastEntry(e, i)].ext,
         h[n] = Continuation,
         \A c \in Entry \ {LastEntry(e, i), n} : h[c] = e[c]
  PROVE  /\ Exchanged(f, e, x, f, h, x, i)
         /\ FileSectors(h, i) = FileSectors(e, i)
         /\ LastEntry(h, i) = n
  <1> DEFINE l == LastEntry(e, i)
  <1>1. /\ i \in Entry /\ e[i].kind = "header" /\ IsChain(e, i) /\ Ended(e, i)
        /\ i \in Chain(e, i) /\ Chain(e, i) \subseteq Entry
        /\ \A c \in Chain(e, i) : e[c].kind # "deleted"
        /\ FileSectors(e, i) \in Seq(Nat)
    BY FilesAre
  <1>2. l \in Chain(e, i) /\ l \in Entry
    BY <1>1, ChainType
  <1>3. n \notin Chain(e, i) /\ n # l
    BY <1>1, <1>2
  <1>4. h[n].next = NoNext /\ h[n].ext = << >> /\ h[n].kind = "more"
    BY DEF Continuation, Deleted
  <1>5. /\ \A c \in Chain(e, i) \ {l} : h[c].next = e[c].next
        /\ \A c \in Chain(e, i) : h[c].ext = e[c].ext
        /\ \A c \in Chain(e, i) : h[c].kind = e[c].kind
    BY <1>1, <1>3
  <1>6. /\ FileSectors(h, i) = FileSectors(e, i) /\ Chain(h, i) = Chain(e, i) \cup {n}
        /\ LastEntry(h, i) = n /\ Ended(h, i)
    BY <1>1, <1>3, <1>4, <1>5, LongerFile
  <1>7. \A c \in Entry \ {n} : h[c].kind = e[c].kind
    BY <1>2
  <1> HIDE DEF l
  <1>8. Files(h) = Files(e) /\ Exists(h) = Exists(e) \cup {n}
    BY <1>4, <1>7 DEF Files, Exists
  <1>9. ASSUME NEW j \in Files(e) \ {i} PROVE Undisturbed(e, h, j)
    <2>1. \A c \in Chain(e, j) : c \in Entry /\ c # l /\ c # n
      BY <1>2, OtherChains
    <2>2. \A c \in Chain(e, j) : h[c] = e[c]
      BY <2>1 DEF l
    <2> QED
      BY <2>2, SameIsUndisturbed
  <1>10. IsChain(h, i)
    BY <1>1, <1>4, <1>5, <1>6 DEF IsChain, Ended
  <1>11. \A j \in Files(e) \ {i} : Chain(h, i) \cap Chain(e, j) = {}
    <2>1. \A j \in Files(e) \ {i} : n \notin Chain(e, j)
      BY OtherChains
    <2> QED
      BY <1>6, <2>1 DEF Chained
  <1>12. /\ x \cap f = {} /\ Held(e, i) \cap (f \cup x) = {} /\ IsInjective(FileSectors(e, i))
    BY DEF Apart
  <1>13. Held(h, i) = Held(e, i)
    BY <1>6 DEF Held
  <1>14. Exists(h) = (Exists(e) \ Chain(e, i)) \cup Chain(h, i)
    <2>1. Chain(e, i) \subseteq Exists(e)
      BY <1>1 DEF Exists
    <2> QED
      BY <1>6, <1>8, <2>1
  <1>15. Exchanged(f, e, x, f, h, x, i)
    BY <1>6, <1>8, <1>9, <1>10, <1>11, <1>12, <1>13, <1>14 DEF Exchanged
  <1> QED
    BY <1>6, <1>15

(* A quotient and a remainder are what they add up to. *)
LEMMA DivOf ==
  ASSUME NEW n \in Nat, NEW q \in Nat, NEW b \in Nat \ {0}, NEW r \in Nat, r < b, n = q * b + r
  PROVE  n \div b = q /\ n % b = r
  <1>1. PICK d \in Int : d = n \div b
    OBVIOUS
  <1>2. b * d <= n /\ n < b * d + b
    BY <1>1
  <1>3. PICK p \in Int : p = d - q
    OBVIOUS
  <1>4. b * p <= r /\ r < b * p + b
    BY <1>2, <1>3
  <1>5. p = 0
    <2>1. CASE p >= 1
      <3>1. b * p >= b
        BY <2>1
      <3> QED
        BY <1>4, <3>1
    <2>2. CASE p <= -1
      <3>1. b * p <= - b
        BY <2>2
      <3> QED
        BY <1>4, <3>1
    <2> QED
      BY <2>1, <2>2
  <1>6. n \div b = q
    BY <1>1, <1>3, <1>5
  <1>7. n % b = n - b * (n \div b)
    OBVIOUS
  <1> QED
    BY <1>6, <1>7

(* The size of a file with the sectors for one, and its bytes in the last.  *)
LEMMA FileSizeIs ==
  ASSUME NEW h, NEW i, NEW size \in Nat,
         Len(FileSectors(h, i)) = SectorsFor(size), h[LastEntry(h, i)].last = size % Bps
  PROVE  FileSize(h, i) = size
  <1>1. PICK b \in Nat \ {0} : b = Bps
    BY DirAssumption
  <1>2. PICK n \in Nat : n = SectorsFor(size)
    BY SizesAre
  <1>3. FileSize(h, i) = n * b - (IF n # 0 /\ size % b # 0 THEN b - (size % b) ELSE 0)
    BY <1>1, <1>2 DEF FileSize
  <1>4. n = (size + b - 1) \div b
    BY <1>1, <1>2 DEF SectorsFor
  <1>5. n * b - (IF n # 0 /\ size % b # 0 THEN b - (size % b) ELSE 0) = size
    <2>1. PICK q \in Nat : q = size \div b
      BY <1>1
    <2>2. PICK m \in Nat : m = size % b
      BY <1>1
    <2>3. size = q * b + m /\ m < b
      BY <1>1, <2>1, <2>2
    <2>4. m = 0 => n = q
      <3> SUFFICES ASSUME m = 0 PROVE n = q
        OBVIOUS
      <3>1. PICK r \in Nat : r = b - 1
        BY <1>1
      <3>2. PICK l \in Nat : l = size + b - 1
        BY <1>1
      <3>3. l = q * b + r /\ r < b
        BY <1>1, <2>3, <3>1, <3>2
      <3>4. l \div b = q
        BY <3>3, DivOf
      <3> QED
        BY <1>4, <3>2, <3>4
    <2>5. m # 0 => n = q + 1
      <3> SUFFICES ASSUME m # 0 PROVE n = q + 1
        OBVIOUS
      <3>1. PICK r \in Nat : r = m - 1
        BY <2>2
      <3>2. PICK l \in Nat : l = size + b - 1
        BY <1>1
      <3>3. PICK p \in Nat : p = q + 1
        BY <2>1
      <3>4. l = p * b + r /\ r < b
        BY <1>1, <2>3, <3>1, <3>2, <3>3
      <3>5. l \div b = p
        BY <3>4, DivOf
      <3> QED
        BY <1>4, <3>2, <3>3, <3>5
    <2>6. CASE m = 0
      BY <2>2, <2>3, <2>4, <2>6
    <2>7. CASE m # 0
      <3>1. n # 0 /\ n * b = q * b + b
        BY <2>5, <2>7
      <3> QED
        BY <2>2, <2>3, <2>7, <3>1
    <2> QED
      BY <2>6, <2>7
  <1> QED
    BY <1>3, <1>5

(* A file is cut: the sectors behind those that stay are free. *)
LEMMA CutIsExchanged ==
  ASSUME NEW e \in Table, Chained(e), NEW f, NEW x, Apart(f, e, x),
         NEW i \in Files(e), NEW size \in Nat, NEW h, IsCut(e, h, i, size)
  PROVE  /\ Exchanged(f, e, x, f \cup Released(e, i, size), h, x, i)
         /\ FileSize(h, i) = size /\ i \in Files(h)
  <1>1. /\ i \in Entry /\ e[i].kind = "header" /\ IsChain(e, i) /\ Ended(e, i)
        /\ i \in Chain(e, i) /\ Chain(e, i) \subseteq Entry
        /\ \A c \in Chain(e, i) : e[c].kind # "deleted"
        /\ FileSectors(e, i) \in Seq(Nat)
    BY FilesAre
  <1>2. /\ h \in Table /\ Ended(h, i)
        /\ Begins(FileSectors(h, i), FileSectors(e, i))
        /\ Len(FileSectors(h, i)) = SectorsFor(size)
        /\ i \in Chain(h, i) /\ Chain(h, i) \subseteq Chain(e, i)
        /\ h[LastEntry(h, i)].last = size % Bps
        /\ \A c \in Entry \ Chain(e, i) : h[c] = e[c]
        /\ \A c \in Chain(e, i) \ Chain(h, i) : h[c] = Deleted
    BY DEF IsCut
  <1>3. \A c \in Chain(h, i) : h[c].kind = e[c].kind
    BY DEF IsCut
  <1>4. Deleted.kind = "deleted"
    BY DEF Deleted
  <1>5. \A c \in Chain(e, i) \ {i} : e[c].kind = "more"
    BY <1>1 DEF IsChain
  <1>6. \A c \in Entry : (h[c].kind = "header") <=> (e[c].kind = "header")
    BY <1>1, <1>2, <1>3, <1>4, <1>5
  <1>7. Files(h) = Files(e)
    BY <1>6 DEF Files
  <1>8. Exists(h) = (Exists(e) \ Chain(e, i)) \cup Chain(h, i)
    <2>1. ASSUME NEW c \in Entry
          PROVE  h[c].kind # "deleted" <=> (e[c].kind # "deleted" /\ c \notin Chain(e, i)) \/ c \in Chain(h, i)
      <3>1. CASE c \notin Chain(e, i)
        BY <1>2, <3>1
      <3>2. CASE c \in Chain(e, i) /\ c \notin Chain(h, i)
        BY <1>2, <1>4, <3>2
      <3>3. CASE c \in Chain(h, i)
        BY <1>1, <1>2, <1>3, <3>3
      <3> QED
        BY <3>1, <3>2, <3>3
    <2> QED
      BY <1>1, <1>2, <2>1 DEF Exists
  <1>9. ASSUME NEW j \in Files(e) \ {i} PROVE Undisturbed(e, h, j)
    <2>1. \A c \in Chain(e, j) : h[c] = e[c]
      BY <1>2, OtherChains
    <2> QED
      BY <1>2, <2>1, SameIsUndisturbed
  <1>10. IsChain(h, i)
    <2>1. \A c \in Chain(h, i) \ {i} : h[c].kind = "more"
      BY <1>2, <1>3, <1>5
    <2> QED
      BY <1>2, <2>1 DEF IsChain, Ended
  <1>11. \A j \in Files(e) \ {i} : Chain(h, i) \cap Chain(e, j) = {}
    BY <1>2, OtherChains
  <1>12. /\ x \cap f = {} /\ Held(e, i) \cap (f \cup x) = {} /\ IsInjective(FileSectors(e, i))
    BY DEF Apart
  <1>13. FileSectors(h, i) \in Seq(Nat)
    BY <1>1, <1>2, FileType
  <1> DEFINE gone == Released(e, i, size)
  <1>14. gone = { FileSectors(e, i)[k] : k \in (Len(FileSectors(h, i)) + 1) .. Len(FileSectors(e, i)) }
    BY <1>2 DEF Released
  <1> HIDE DEF gone
  <1>15. IsInjective(FileSectors(h, i)) /\ Held(e, i) = Held(h, i) \cup gone /\ Held(h, i) \cap gone = {}
    <2>1. PICK a \in Seq(Nat) : a = FileSectors(h, i)
      BY <1>13
    <2>2. PICK b \in Seq(Nat) : b = FileSectors(e, i)
      BY <1>1
    <2>0. PICK r : r = gone
      OBVIOUS
    <2>3. Begins(a, b) /\ IsInjective(b)
      BY <1>2, <1>12, <2>1, <2>2
    <2>4. r = Rest(b, Len(a))
      BY <1>14, <2>0, <2>1, <2>2 DEF Rest
    <2>5. IsInjective(a) /\ IsSplit(a, b, r)
      BY <2>3, <2>4, InjectiveBegins
    <2> QED
      BY <2>0, <2>1, <2>2, <2>5 DEF Held, IsSplit
  <1>16. /\ (f \cup gone) \cup x \cup Held(h, i) = f \cup x \cup Held(e, i)
         /\ (f \cup gone) \cap x = {} /\ (f \cup gone) \cap Held(h, i) = {}
         /\ x \cap Held(h, i) = {}
    BY <1>12, <1>15
  <1>17. Exchanged(f, e, x, f \cup gone, h, x, i)
    BY <1>7, <1>8, <1>9, <1>10, <1>11, <1>15, <1>16 DEF Exchanged
  <1>18. FileSize(h, i) = size
    BY <1>2, FileSizeIs
  <1> QED
    BY <1>7, <1>17, <1>18 DEF gone
-----------------------------------------------------------------------------
(* What _dd_allocate finds *)

(* The numbers of sectors, and of what has a place of its own on the disk. *)
LEMMA SectorsAre ==
  /\ Lsn \subseteq Nat /\ Total \in Nat /\ NoHint \notin Lsn /\ MaxExtent \in Nat \ {0}
  /\ T \in Nat \ {0} /\ MapSector \in Nat \ {0} /\ Dir \in Nat
  <1>1. /\ T \in Nat \ {0} /\ MaxExtent \in Nat \ {0} /\ Back \in Nat \ {0}
        /\ {Dir, MapSector, Back} \subseteq { T * n : n \in 1 .. 2 * MapSector }
    BY MapAssumption
  <1>2. PICK n : n \in 1 .. 2 * MapSector /\ MapSector = T * n
    BY <1>1
  <1>3. PICK d : d \in 1 .. 2 * MapSector /\ Dir = T * d
    BY <1>1
  <1>4. n \in Int /\ n >= 1 /\ d \in Int /\ d >= 1
    BY <1>2, <1>3
  <1>5. T * n \in Nat \ {0}
    BY <1>1, <1>4
  <1>6. T * d \in Nat
    BY <1>1, <1>4
  <1>7. MapSector \in Nat \ {0} /\ Dir \in Nat
    BY <1>2, <1>3, <1>5, <1>6
  <1>8. Total \in Nat /\ Total <= NoHint
    BY <1>1, <1>7, MapAssumption
  <1>9. NoHint \notin Lsn /\ Lsn \subseteq Nat
    BY <1>8 DEF Lsn, NoHint
  <1> QED
    BY <1>1, <1>7, <1>8, <1>9

(* A bounded set of numbers has a largest one. *)
LEMMA MaxIs ==
  ASSUME NEW S \in SUBSET Nat, S # {}, NEW n \in Nat, \A k \in S : k <= n
  PROVE  Max(S) \in S /\ \A k \in S : k <= Max(S)
  <1> DEFINE B == { b \in Nat : \A k \in S : k <= b }
  <1>1. B \in SUBSET Nat /\ B # {}
    OBVIOUS
  <1>2. PICK b \in B : \A c \in B : b <= c
    BY <1>1, LeastNumber
  <1>3. b \in Nat /\ \A k \in S : k <= b
    OBVIOUS
  <1>4. b \in S
    <2> SUFFICES ASSUME b \notin S PROVE FALSE
      OBVIOUS
    <2>1. PICK k \in S : TRUE
      OBVIOUS
    <2>2. \A a \in S : a \in Nat /\ a <= b - 1
      BY <1>3
    <2>3. b - 1 \in Nat
      BY <2>1, <2>2, <1>3
    <2>4. b - 1 \in B
      BY <2>2, <2>3
    <2> QED
      BY <2>4, <1>2, <1>3
  <1>5. \E m \in S : \A k \in S : m >= k
    BY <1>3, <1>4
  <1>6. Max(S) \in S /\ \A k \in S : Max(S) >= k
    BY <1>5 DEF Max
  <1> QED
    BY <1>6

(* A set of numbers has a smallest one. *)
LEMMA MinIs ==
  ASSUME NEW S \in SUBSET Nat, S # {}
  PROVE  Min(S) \in S /\ \A k \in S : Min(S) <= k
  <1>1. \E m \in S : \A k \in S : m =< k
    BY LeastNumber
  <1> QED
    BY <1>1 DEF Min

(* What it allocates was free, and where the file ends if that can be. *)
LEMMA PlaceIs ==
  ASSUME NEW f \in SUBSET Lsn, NEW hint
  PROVE  Place(f, hint) \subseteq f /\ (hint \in f => Place(f, hint) = {hint})
  <1>1. FirstOfTrack(f) \subseteq f /\ \A from : { l \in FirstOfTrack(f) : l >= from } \subseteq f
    BY DEF FirstOfTrack
  <1>2. LookDown(f) \subseteq f
    <2> DEFINE pairs == { l \in Below(f) : l + T \in Below(f) }
    <2>1. Below(f) \subseteq f
      BY <1>1 DEF Below
    <2>2. CASE pairs = {}
      BY <2>1, <2>2 DEF LookDown
    <2>3. CASE pairs # {}
      <3>0. pairs \subseteq f
        BY <2>1
      <3> HIDE DEF pairs
      <3>1. pairs \in SUBSET Nat /\ \A k \in pairs : k <= Total
        <4>1. \A k \in Lsn : k \in Nat /\ k <= Total
          BY SectorsAre DEF Lsn
        <4> QED
          BY <3>0, <4>1
      <3>2. Max(pairs) \in pairs
        BY <2>3, <3>1, SectorsAre, MaxIs
      <3> QED
        BY <2>3, <3>0, <3>2 DEF LookDown, pairs
    <2> QED
      BY <2>2, <2>3
  <1>3. ASSUME NEW from PROVE LookUp(f, from) \subseteq f
    <2> DEFINE above == { l \in FirstOfTrack(f) : l >= from }
    <2>1. above \subseteq f
      BY <1>1
    <2>2. above \in SUBSET Nat
      BY <2>1, SectorsAre
    <2>3. CASE above = {}
      BY <2>3 DEF LookUp
    <2>4. CASE above # {}
      <3> HIDE DEF above
      <3>1. Min(above) \in above
        BY <2>2, <2>4, MinIs
      <3> QED
        BY <2>1, <2>4, <3>1 DEF LookUp, above
    <2> QED
      BY <2>3, <2>4
  <1>4. LookByTrack(f, hint) \subseteq f
    BY <1>2, <1>3 DEF LookByTrack
  <1>5. LookByRun(f) \subseteq f
    BY DEF LookByRun
  <1> QED
    BY <1>4, <1>5 DEF Place

(* The bytes of a sector of the bitmap. *)
LEMMA MapIs ==
  /\ MapByte \in Nat \ {0} /\ MapSector \div MapByte \in Nat \ {0}
  /\ MapSector = MapByte * (MapSector \div MapByte) /\ Total <= 2 * MapSector
  <1>1. MapByte \in Nat \ {0} /\ MapSector % MapByte = 0 /\ MapSector \in Nat \ {0}
    BY MapAssumption, SectorsAre
  <1>2. Total <= 2 * MapSector
    BY MapAssumption, SectorsAre
  <1>3. PICK d \in Int : d = MapSector \div MapByte
    BY <1>1
  <1>4. MapSector = MapByte * d
    BY <1>1, <1>3
  <1>5. d \in Nat \ {0}
    BY <1>1, <1>4
  <1> QED
    BY <1>1, <1>2, <1>3, <1>4, <1>5

(* Where a byte's sectors are. *)
LEMMA ByteIs ==
  ASSUME NEW b \in Bytes
  PROVE  /\ b \in Nat /\ b * MapByte \in Nat /\ (b + 1) * MapByte = b * MapByte + MapByte
         /\ (b + 1) * MapByte <= MapSector
  <1> DEFINE q == MapSector \div MapByte
  <1>1. q \in Nat \ {0} /\ MapByte \in Nat \ {0} /\ MapSector = MapByte * q
    BY MapIs
  <1>2. b \in Nat /\ b + 1 <= q
    BY <1>1 DEF Bytes
  <1> HIDE DEF q
  <1>3. b * MapByte \in Nat /\ (b + 1) * MapByte = b * MapByte + MapByte
    BY <1>1, <1>2
  <1>4. (b + 1) * MapByte <= q * MapByte
    BY <1>1, <1>2
  <1>5. q * MapByte = MapSector
    BY <1>1
  <1> QED
    BY <1>2, <1>3, <1>4, <1>5

(* Each sector of the disk has its bit in one of them. *)
LEMMA ByteOf ==
  ASSUME NEW base \in Nat, NEW l \in base .. (base + MapSector - 1)
  PROVE  \E b \in Bytes : l \in Bit(base, b)
  <1> DEFINE q == MapSector \div MapByte
  <1>1. q \in Nat \ {0} /\ MapByte \in Nat \ {0} /\ MapSector = MapByte * q
    BY MapIs
  <1>2. PICK n \in Nat : l = base + n /\ n < MapSector
    BY <1>1
  <1>3. PICK b \in Int : b = n \div MapByte
    BY <1>1, <1>2
  <1>4. b * MapByte \in Int /\ b * MapByte <= n /\ n < b * MapByte + MapByte
    BY <1>1, <1>2, <1>3
  <1> HIDE DEF q
  <1>5. b >= 0
    BY <1>1, <1>2, <1>4
  <1>6. b < q
    BY <1>1, <1>2, <1>4
  <1>7. b \in Bytes
    BY <1>5, <1>6, <1>1 DEF Bytes, q
  <1>8. l \in Bit(base, b)
    BY <1>1, <1>2, <1>4 DEF Bit
  <1> QED
    BY <1>7, <1>8

(* A run of bytes has an end. *)
LEMMA RunLengthIs ==
  ASSUME NEW f, NEW base, NEW b \in Bytes
  PROVE  RunLength(f, base, b) \in 1 .. (MapSector \div MapByte)
  <1> DEFINE q == MapSector \div MapByte
             S == { n \in Nat : n >= 1 /\ ~ IsFF(f, base, b + n) }
  <1>1. q \in Nat \ {0}
    BY MapIs
  <1>2. b \in Nat /\ b + q \notin Bytes
    BY <1>1, ByteIs DEF Bytes
  <1>3. q \in S
    BY <1>1, <1>2 DEF IsFF
  <1>4. S \in SUBSET Nat /\ S # {}
    BY <1>3
  <1> HIDE DEF q
  <1>5. PICK n \in S : \A m \in S : n <= m
    <2> HIDE DEF S
    <2> QED
      BY <1>4, LeastNumber
  <1>6. n \in 1 .. q /\ ~ IsFF(f, base, b + n)
    BY <1>1, <1>3, <1>5
  <1>7. \A k \in 1 .. (n - 1) : IsFF(f, base, b + k)
    <2> TAKE k \in 1 .. (n - 1)
    <2>1. k \in Nat /\ k >= 1 /\ k < n
      BY <1>6
    <2>2. k \notin S
      BY <2>1, <1>5
    <2> QED
      BY <2>1, <2>2
  <1> HIDE DEF S
  <1> QED
    BY <1>6, <1>7 DEF RunLength, q

(* If there are runs, one is the first of the longest. *)
LEMMA BestIs ==
  ASSUME NEW f, NEW base, Starts(f, base) # {}
  PROVE  \E b \in Starts(f, base) : IsBest(f, base, b)
  <1> DEFINE S == Starts(f, base)
             L == { RunLength(f, base, b) : b \in S }
             n == Max(L)
             C == { b \in S : RunLength(f, base, b) = n }
             q == MapSector \div MapByte
  <1>1. S \subseteq Bytes /\ q \in Nat /\ Bytes \subseteq Nat
    BY MapIs, ByteIs DEF Starts
  <1>2. \A b \in S : RunLength(f, base, b) \in 1 .. q
    BY <1>1, RunLengthIs
  <1> HIDE DEF S, q
  <1>3. L \in SUBSET Nat /\ L # {} /\ \A k \in L : k <= q
    BY <1>1, <1>2 DEF S
  <1>4. n \in L /\ \A k \in L : k <= n
    <2> HIDE DEF L
    <2> QED
      BY <1>1, <1>3, MaxIs
  <1> HIDE DEF n
  <1>5. C \in SUBSET Nat /\ C # {}
    BY <1>1, <1>4
  <1>6. PICK b \in C : \A c \in C : b <= c
    <2> HIDE DEF C
    <2> QED
      BY <1>5, LeastNumber
  <1>7. ASSUME NEW c \in S
        PROVE  \/ RunLength(f, base, b) > RunLength(f, base, c)
               \/ RunLength(f, base, b) = RunLength(f, base, c) /\ b <= c
    <2>1. RunLength(f, base, c) <= n /\ RunLength(f, base, c) \in Nat /\ n \in Nat
      BY <1>2, <1>3, <1>4
    <2>2. CASE RunLength(f, base, c) = n
      BY <2>2, <1>6
    <2>3. CASE RunLength(f, base, c) # n
      BY <2>1, <2>3, <1>6
    <2> QED
      BY <2>2, <2>3
  <1> QED
    BY <1>6, <1>7 DEF IsBest, S

(* What is free of a sector of the bitmap begins a run. *)
LEMMA StartsIs ==
  ASSUME NEW f, NEW base \in Nat, NEW l \in f, l \in base .. (base + MapSector - 1)
  PROVE  Starts(f, base) # {}
  <1> DEFINE S == { b \in Bytes : Nonzero(f, base, b) }
  <1>1. S \in SUBSET Nat /\ S # {}
    <2>1. PICK b \in Bytes : l \in Bit(base, b)
      BY ByteOf
    <2> QED
      BY <2>1, ByteIs DEF Nonzero
  <1>2. PICK b \in S : \A c \in S : b <= c
    <2> HIDE DEF S
    <2> QED
      BY <1>1, LeastNumber
  <1>3. b - 1 \notin S
    BY <1>1, <1>2
  <1>4. ~ Nonzero(f, base, b - 1)
    BY <1>3 DEF Nonzero
  <1> QED
    BY <1>2, <1>4 DEF Starts

(* The first sector of a run is free. *)
LEMMA RunLsnIsFree ==
  ASSUME NEW f, NEW base \in Nat, NEW b \in Bytes, NEW l, IsRunLsn(f, base, b, l)
  PROVE  l \in f
  <1>1. /\ b * MapByte \in Nat /\ (b + 1) * MapByte = b * MapByte + MapByte
        /\ MapByte \in Nat \ {0}
    BY ByteIs, MapIs
  <1>2. PICK end \in Bit(base, b + 1) \cup Bit(base, b) :
          /\ IsEnd(f, base, b, end)
          /\ l \in (base + b * MapByte) .. end /\ (l .. (end - 1)) \subseteq f
          /\ l = base + b * MapByte \/ l - 1 \notin f
    BY DEF IsRunLsn
  <1>3. end \in Nat /\ l \in Nat
    BY <1>1, <1>2 DEF Bit
  <1>4. CASE l < end
    BY <1>2, <1>3, <1>4
  <1>5. CASE l = end /\ IsFF(f, base, b + 1)
    <2>1. end = base + (b + 1) * MapByte
      BY <1>2, <1>5 DEF IsEnd
    <2>2. end \in Bit(base, b + 1)
      BY <2>1, <1>1, <1>3 DEF Bit
    <2> QED
      BY <1>5, <2>2 DEF IsFF
  <1>6. CASE l = end /\ ~ IsFF(f, base, b + 1)
    <2>1. end - 1 \in Bit(base, b) \cap f
      BY <1>2, <1>6 DEF IsEnd
    <2>2. end # base + b * MapByte
      BY <2>1, <1>1, <1>3 DEF Bit
    <2> QED
      BY <1>2, <1>6, <2>1, <2>2
  <1> QED
    BY <1>2, <1>3, <1>4, <1>5, <1>6

(* A run has a first sector. *)
LEMMA RunLsnIs ==
  ASSUME NEW f, NEW base \in Nat, NEW b \in Bytes, Nonzero(f, base, b)
  PROVE  \E l \in base .. (base + MapSector - 1) : IsRunLsn(f, base, b, l)
  <1> DEFINE a == base + b * MapByte
  <1>1. /\ b \in Nat /\ b * MapByte \in Nat /\ (b + 1) * MapByte = b * MapByte + MapByte
        /\ MapByte \in Nat \ {0} /\ (b + 1) * MapByte <= MapSector /\ MapSector \in Nat
    BY ByteIs, MapIs, SectorsAre
  <1>2. a \in Nat /\ a = base + b * MapByte
    BY <1>1
  <1>3. \E end \in Bit(base, b + 1) \cup Bit(base, b) :
          /\ IsEnd(f, base, b, end) /\ a <= end /\ end <= a + MapByte
    <2>1. CASE IsFF(f, base, b + 1)
      <3>1. a + MapByte \in Bit(base, b + 1)
        BY <1>1, <1>2 DEF Bit
      <3>2. IsEnd(f, base, b, a + MapByte)
        BY <1>1, <1>2, <2>1 DEF IsEnd
      <3> QED
        BY <3>1, <3>2, <1>1, <1>2
    <2>2. CASE ~ IsFF(f, base, b + 1)
      <3> DEFINE S == Bit(base, b) \cap f
                 m == Max(S)
      <3>1. \A k \in Bit(base, b) : k \in Nat /\ a <= k /\ k < a + MapByte
        BY <1>1, <1>2 DEF Bit
      <3>2. S \in SUBSET Nat /\ S # {} /\ \A k \in S : k <= a + MapByte
        BY <3>1, <1>1, <1>2 DEF Nonzero
      <3>3. m \in S /\ \A k \in S : k <= m
        <4> HIDE DEF S, a
        <4>1. a + MapByte \in Nat
          BY <1>1, <1>2
        <4> QED
          BY <3>2, <4>1, MaxIs
      <3> HIDE DEF m, S
      <3>4. m \in Nat /\ a <= m /\ m < a + MapByte
        BY <3>1, <3>3 DEF S
      <3>5. ASSUME NEW k \in (m + 1) .. (a + MapByte - 1) PROVE k \notin f
        <4>1. k \in Bit(base, b)
          BY <1>1, <1>2, <3>4 DEF Bit
        <4> QED
          BY <4>1, <3>3, <3>4 DEF S
      <3>6. IsEnd(f, base, b, m + 1)
        <4>1. (m + 1) - 1 \in Bit(base, b) \cap f
          BY <3>3, <3>4 DEF S
        <4>2. base + (b + 1) * MapByte - 1 = a + MapByte - 1
          BY <1>1, <1>2
        <4> QED
          BY <4>1, <4>2, <3>5, <2>2 DEF IsEnd
      <3>7. m + 1 \in Bit(base, b + 1) \cup Bit(base, b)
        BY <3>4, <1>1, <1>2 DEF Bit
      <3> QED
        BY <3>4, <3>6, <3>7, <1>1, <1>2
    <2> QED
      BY <2>1, <2>2
  <1>4. PICK end \in Bit(base, b + 1) \cup Bit(base, b) :
          IsEnd(f, base, b, end) /\ a <= end /\ end <= a + MapByte
    BY <1>3
  <1>5. end \in Nat
    BY <1>1, <1>2, <1>4 DEF Bit
  <1> DEFINE L == { l \in Nat : a <= l /\ l <= end /\ (l .. (end - 1)) \subseteq f }
  <1>6. L \in SUBSET Nat /\ end \in L
    BY <1>2, <1>4, <1>5
  <1>7. PICK l \in L : \A k \in L : l <= k
    <2> HIDE DEF L
    <2> QED
      BY <1>6, LeastNumber
  <1>8. l = a \/ l - 1 \notin f
    <2> SUFFICES ASSUME l # a, l - 1 \in f PROVE FALSE
      OBVIOUS
    <2>1. l - 1 \in Nat /\ a <= l - 1
      BY <1>2, <1>7
    <2>2. ((l - 1) .. (end - 1)) \subseteq f
      BY <1>5, <1>7
    <2>3. l - 1 \in L
      BY <1>7, <2>1, <2>2, <1>5
    <2> QED
      BY <2>3, <1>7
  <1> HIDE DEF a
  <1>9. l \in Nat /\ a <= l /\ l <= end /\ (l .. (end - 1)) \subseteq f
    BY <1>7
  <1> HIDE DEF L
  <1>10. IsRunLsn(f, base, b, l)
    BY <1>2, <1>4, <1>5, <1>8, <1>9 DEF IsRunLsn
  <1>11. l <= base + MapSector - 1
    <2>1. CASE end < a + MapByte
      BY <2>1, <1>1, <1>2, <1>5, <1>9
    <2>2. CASE end = a + MapByte
      <3>1. l \in f
        BY <1>10, RunLsnIsFree
      <3>2. CASE l < end
        BY <3>2, <2>2, <1>1, <1>2, <1>5, <1>9
      <3>3. CASE l = end /\ IsFF(f, base, b + 1)
        <4>1. b + 1 \in Bytes
          BY <3>3 DEF IsFF
        <4>2. (b + 2) * MapByte <= MapSector /\ (b + 2) * MapByte = b * MapByte + 2 * MapByte
          BY <4>1, <1>1, ByteIs
        <4> QED
          BY <4>2, <3>3, <2>2, <1>1, <1>2
      <3>4. CASE l = end /\ ~ IsFF(f, base, b + 1)
        <4>1. end - 1 \in f
          BY <3>4, <1>4 DEF IsEnd
        <4>2. l - 1 \in f /\ l # a
          BY <4>1, <3>4, <2>2, <1>1, <1>2
        <4> QED
          BY <4>2, <1>8
      <3> QED
        BY <3>2, <3>3, <3>4, <1>5, <1>9
    <2> QED
      BY <2>1, <2>2, <1>1, <1>2, <1>4, <1>5
  <1> QED
    BY <1>2, <1>9, <1>10, <1>11, <1>1

(* A scan that finds a run finds a free sector. *)
LEMMA ScanIs ==
  ASSUME NEW f, NEW base \in Nat
  PROVE  /\ Starts(f, base) = {} => Scan(f, base).run = 0
         /\ Starts(f, base) # {} => Scan(f, base).run \in Nat \ {0} /\ Scan(f, base).lsn \in f
  <1>1. CASE Starts(f, base) = {}
    BY <1>1 DEF Scan
  <1>2. CASE Starts(f, base) # {}
    <2> DEFINE P(r) == \E b \in Starts(f, base) :
                 /\ IsBest(f, base, b) /\ r.run = RunLength(f, base, b)
                 /\ IsRunLsn(f, base, b, r.lsn)
               R == [run : 1 .. (MapSector \div MapByte), lsn : base .. (base + MapSector - 1)]
    <2>1. PICK b \in Starts(f, base) : IsBest(f, base, b)
      BY <1>2, BestIs
    <2>2. b \in Bytes /\ Nonzero(f, base, b)
      BY <2>1 DEF Starts
    <2>3. PICK l \in base .. (base + MapSector - 1) : IsRunLsn(f, base, b, l)
      BY <2>2, RunLsnIs
    <2>4. RunLength(f, base, b) \in 1 .. (MapSector \div MapByte)
      BY <2>2, RunLengthIs
    <2>5. PICK r \in R : r = [run |-> RunLength(f, base, b), lsn |-> l]
      BY <2>3, <2>4
    <2>6. r.run = RunLength(f, base, b) /\ r.lsn = l
      BY <2>5
    <2>7. P(r)
      BY <2>1, <2>3, <2>6
    <2>8. Scan(f, base) = CHOOSE x \in R : P(x)
      BY <1>2 DEF Scan
    <2>9. Scan(f, base) \in R /\ P(Scan(f, base))
      <3> HIDE DEF P, R
      <3> QED
        BY <2>7, <2>8
    <2>10. \A c \in Starts(f, base) : c \in Bytes
      BY DEF Starts
    <2>11. Scan(f, base).lsn \in f
      BY <2>9, <2>10, RunLsnIsFree
    <2>12. Scan(f, base).run \in Nat \ {0}
      BY <2>9, MapIs
    <2> QED
      BY <1>2, <2>11, <2>12
  <1> QED
    BY <1>1, <1>2

(* While a sector is free, one is found to allocate. *)
LEMMA PlaceFinds ==
  ASSUME NEW f \in SUBSET Lsn, f # {}, NEW hint
  PROVE  Place(f, hint) # {}
  <1>1. MapSector \in Nat \ {0} /\ Total \in Nat /\ Total <= 2 * MapSector
    BY SectorsAre, MapIs
  <1>2. PICK l \in f : l \in Nat /\ l < 2 * MapSector
    <2>1. PICK l \in f : TRUE
      OBVIOUS
    <2>2. l \in Lsn
      OBVIOUS
    <2>3. l \in Nat /\ l < 2 * MapSector
      BY ONLY <2>2, <1>1 DEF Lsn
    <2> QED
      BY <2>3
  <1>3. Starts(f, 0) # {} \/ Starts(f, MapSector) # {}
    <2>1. CASE l < MapSector
      <3>1. l \in 0 .. (0 + MapSector - 1)
        BY <2>1, <1>1, <1>2
      <3> QED
        BY <3>1, StartsIs
    <2>2. CASE l >= MapSector
      <3>1. l \in MapSector .. (MapSector + MapSector - 1)
        BY <2>2, <1>1, <1>2
      <3> QED
        BY <3>1, <1>1, StartsIs
    <2> QED
      BY <2>1, <2>2, <1>1, <1>2
  <1>4. PICK a, b : a = Scan(f, 0) /\ b = Scan(f, MapSector)
    OBVIOUS
  <1>5. /\ a.run = 0 \/ (a.run \in Nat \ {0} /\ a.lsn \in f)
        /\ b.run = 0 \/ (b.run \in Nat \ {0} /\ b.lsn \in f)
        /\ a.run # 0 \/ b.run # 0
    <2>1. /\ Starts(f, 0) = {} => a.run = 0
          /\ Starts(f, 0) # {} => a.run \in Nat \ {0} /\ a.lsn \in f
      BY <1>4, ScanIs
    <2>2. /\ Starts(f, MapSector) = {} => b.run = 0
          /\ Starts(f, MapSector) # {} => b.run \in Nat \ {0} /\ b.lsn \in f
      BY <1>1, <1>4, ScanIs
    <2> QED
      BY <1>3, <2>1, <2>2
  <1>6. (IF b.run < 2 /\ ~ (a.run < 2 /\ a.run <= b.run) THEN a.lsn ELSE b.lsn) \in f
    BY <1>5
  <1>7. LookByRun(f) # {}
    BY <1>4, <1>6 DEF LookByRun
  <1> QED
    BY <1>7 DEF Place

(* A run that is taken was free. *)
LEMMA RunFromIs ==
  ASSUME NEW f \in SUBSET Lsn, NEW l \in f
  PROVE  /\ RunFrom(f, l) \in 1 .. MaxExtent /\ Sectors(l, RunFrom(f, l)) \subseteq f
         /\ l \in Sectors(l, RunFrom(f, l)) /\ l + RunFrom(f, l) <= Total
  <1> DEFINE S == { n \in 1 .. MaxExtent : \A k \in 1 .. (n - 1) :
                      l + k \in f /\ (l + k) % MapSector # 0 }
  <1>1. l \in Nat /\ MaxExtent \in Nat \ {0} /\ Total \in Nat
    BY SectorsAre
  <1>2. 1 \in S /\ S \in SUBSET Nat /\ \A n \in S : n <= MaxExtent
    BY <1>1
  <1>3. Max(S) \in S
    <2> HIDE DEF S
    <2> QED
      BY <1>1, <1>2, MaxIs
  <1>0. RunFrom(f, l) = Max(S)
    BY DEF RunFrom
  <1>4. PICK n \in Nat : n = RunFrom(f, l)
    <2> HIDE DEF S
    <2> QED
      BY <1>0, <1>2, <1>3
  <1>5. n \in 1 .. MaxExtent /\ \A k \in 1 .. (n - 1) : l + k \in f
    <2>1. n \in S
      BY <1>0, <1>3, <1>4
    <2> QED
      BY <2>1
  <1>6. ASSUME NEW k \in l .. (l + n - 1) PROVE k \in f
    <2>1. CASE k = l
      BY <2>1
    <2>2. CASE k # l
      <3>1. PICK a \in Nat : a = k - l
        BY <1>1
      <3>2. a \in 1 .. (n - 1) /\ l + a = k
        BY <1>1, <2>2, <3>1
      <3> QED
        BY <1>5, <3>2
    <2> QED
      BY <2>1, <2>2
  <1>7. l + n - 1 \in l .. (l + n - 1) /\ l \in l .. (l + n - 1)
    BY <1>1, <1>5
  <1>8. l + n - 1 \in Lsn
    BY <1>6, <1>7
  <1>9. l + n <= Total
    BY <1>1, <1>8 DEF Lsn
  <1> QED
    BY <1>4, <1>5, <1>6, <1>7, <1>9 DEF Sectors
(* The sectors of a file are those for its size. *)
LEMMA SizeHasSectors ==
  ASSUME NEW e \in Table, NEW i \in Entry, Ended(e, i)
  PROVE  FileSize(e, i) \in Nat /\ SectorsFor(FileSize(e, i)) = Len(FileSectors(e, i))
  <1>1. PICK b \in Nat \ {0} : b = Bps
    BY DirAssumption
  <1>2. FileSectors(e, i) \in Seq(Nat)
    BY FileType
  <1>3. PICK n \in Nat : n = Len(FileSectors(e, i))
    BY <1>2
  <1>4. PICK m \in Nat : m = e[LastEntry(e, i)].last /\ m < b
    BY <1>1, ChainType, TableIs
  <1>5. PICK size \in Int : size = FileSize(e, i)
    BY <1>1, <1>3, <1>4 DEF FileSize
  <1>6. size = n * b - (IF n # 0 /\ m # 0 THEN b - m ELSE 0)
    BY <1>1, <1>3, <1>4, <1>5 DEF FileSize
  <1>7. n * b \in Nat
    BY <1>1
  <1>8. PICK l \in Int : l = size + b - 1
    BY <1>1
  <1>9. SectorsFor(size) = l \div b
    BY <1>1, <1>8 DEF SectorsFor
  <1>10. CASE m = 0 \/ n = 0
    <2>1. size = n * b
      BY <1>6, <1>7, <1>10, <1>1
    <2>2. PICK r \in Nat : r = b - 1
      BY <1>1
    <2>3. l = n * b + r /\ r < b /\ l \in Nat
      BY <1>1, <1>7, <1>8, <2>1, <2>2
    <2>4. l \div b = n
      BY <2>3, DivOf
    <2> QED
      BY <1>3, <1>5, <1>7, <1>9, <2>1, <2>4
  <1>11. CASE m # 0 /\ n # 0
    <2>1. n * b >= b
      BY <1>11, <1>1
    <2>2. size = n * b - (b - m) /\ size \in Nat
      BY <1>1, <1>4, <1>6, <1>7, <1>11, <2>1
    <2>3. PICK r \in Nat : r = m - 1
      BY <1>11
    <2>4. l = n * b + r /\ r < b /\ l \in Nat
      BY <1>1, <1>4, <1>7, <1>8, <1>11, <2>2, <2>3
    <2>5. l \div b = n
      BY <2>4, DivOf
    <2> QED
      BY <1>3, <1>5, <1>9, <2>2, <2>5
  <1> QED
    BY <1>10, <1>11

(* A larger size takes no fewer sectors. *)
LEMMA MoreSectors ==
  ASSUME NEW a \in Nat, NEW c \in Nat, a <= c
  PROVE  SectorsFor(a) <= SectorsFor(c)
  <1>1. PICK b \in Nat \ {0} : b = Bps
    BY DirAssumption
  <1>2. PICK n \in Nat : n = SectorsFor(a) /\ n * b < a + b
    BY <1>1, SizesAre
  <1>3. PICK m \in Nat : m = SectorsFor(c) /\ c <= m * b
    BY <1>1, SizesAre
  <1> SUFFICES ASSUME n > m PROVE FALSE
    BY <1>2, <1>3
  <1>4. n * b >= (m + 1) * b
    <2>1. PICK k \in Nat : n = (m + 1) + k
      <3>1. n - (m + 1) \in Nat /\ n = (m + 1) + (n - (m + 1))
        OBVIOUS
      <3> QED
        BY <3>1
    <2>2. k * b \in Nat
      BY <1>1
    <2> QED
      BY <1>1, <2>1, <2>2
  <1>5. (m + 1) * b = m * b + b /\ m * b \in Nat /\ n * b \in Nat
    BY <1>1
  <1> QED
    BY <1>1, <1>2, <1>3, <1>4, <1>5

(* What grow needs beyond the sectors of a size. *)
NeededFor(size, goal) ==
  LET over == IF size % Bps = 0 THEN Bps ELSE size % Bps IN (over + goal - size - 1) \div Bps

(* The sectors a growth needs are those the goal has more than the size. *)
LEMMA NeededIs ==
  ASSUME NEW size \in Nat, NEW goal \in Nat, size < goal
  PROVE  NeededFor(size, goal) \in Nat /\ SectorsFor(size) + NeededFor(size, goal) = SectorsFor(goal)
  <1>1. PICK b \in Nat \ {0} : b = Bps
    BY DirAssumption
  <1>2. PICK q \in Nat : q = size \div b
    BY <1>1
  <1>3. PICK m \in Nat : m = size % b
    BY <1>1
  <1>4. size = q * b + m /\ m < b /\ q * b \in Nat
    BY <1>1, <1>2, <1>3
  <1>5. PICK g \in Nat : g = goal + b - 1
    BY <1>1
  <1>6. PICK t \in Nat : t = g \div b
    BY <1>1
  <1>7. PICK u \in Nat : u = g % b
    BY <1>1
  <1>8. g = t * b + u /\ u < b /\ t * b \in Nat
    BY <1>1, <1>6, <1>7
  <1>9. SectorsFor(goal) = t
    BY <1>1, <1>5, <1>6 DEF SectorsFor
  <1>10. PICK z \in Int : z = (IF m = 0 THEN b ELSE m) + goal - size - 1
    BY <1>1
  <1>11. NeededFor(size, goal) = z \div b
    BY <1>1, <1>3, <1>10 DEF NeededFor
  <1>12. PICK p \in Int : p = t - q
    OBVIOUS
  <1>13. t * b = q * b + p * b /\ p * b \in Int
    BY <1>1, <1>12
  <1>14. CASE m = 0
    <2>1. z = p * b + u /\ z \in Nat
      BY <1>1, <1>4, <1>5, <1>8, <1>10, <1>13, <1>14
    <2>2. p >= 0
      <3> SUFFICES ASSUME p <= -1 PROVE FALSE
        BY <1>12
      <3>1. p * b <= - b
        BY <1>1
      <3> QED
        BY <1>8, <1>13, <2>1, <3>1
    <2>3. z \div b = p
      BY <1>8, <2>1, <2>2, DivOf
    <2>4. SectorsFor(size) = q
      <3>1. PICK r \in Nat : r = b - 1
        BY <1>1
      <3>2. PICK l \in Nat : l = size + b - 1
        BY <1>1
      <3>3. l = q * b + r /\ r < b
        BY <1>1, <1>4, <1>14, <3>1, <3>2
      <3>4. l \div b = q
        BY <3>3, DivOf
      <3> QED
        BY <1>1, <3>2, <3>4 DEF SectorsFor
    <2> QED
      BY <1>9, <1>11, <1>12, <2>2, <2>3, <2>4
  <1>15. CASE m # 0
    <2>1. PICK k \in Int : k = p - 1
      OBVIOUS
    <2>2. k * b = p * b - b
      BY <1>1, <1>13, <2>1
    <2>3. z = k * b + u /\ z \in Nat /\ k * b \in Int
      BY <1>1, <1>4, <1>5, <1>8, <1>10, <1>13, <1>15, <2>2
    <2>4. k >= 0
      <3> SUFFICES ASSUME k <= -1 PROVE FALSE
        BY <2>1
      <3>1. k * b <= - b
        BY <1>1
      <3> QED
        BY <1>8, <2>3, <3>1
    <2>5. z \div b = k
      BY <1>8, <2>3, <2>4, DivOf
    <2>6. SectorsFor(size) = q + 1
      <3>1. PICK r \in Nat : r = m - 1
        BY <1>15
      <3>2. PICK l \in Nat : l = size + b - 1
        BY <1>1
      <3>3. PICK v \in Nat : v = q + 1
        OBVIOUS
      <3>4. v * b = q * b + b
        BY <1>1, <3>3
      <3>5. l = v * b + r /\ r < b
        BY <1>1, <1>4, <3>1, <3>2, <3>4
      <3>6. l \div b = v
        BY <3>5, DivOf
      <3> QED
        BY <1>1, <3>2, <3>3, <3>6 DEF SectorsFor
    <2> QED
      BY <1>9, <1>11, <1>12, <2>1, <2>4, <2>5, <2>6
  <1> QED
    BY <1>14, <1>15

(* An entry of a file that was cut. *)
LEMMA SoundCut ==
  ASSUME NEW e \in Table, NEW i \in Entry, NEW h, NEW size, IsCut(e, h, i, size),
         e[i].kind = "header", Chain(e, i) \subseteq Entry, \A j \in Entry : Sound(e[j])
  PROVE  \A j \in Entry : Sound(h[j])
  <1>1. ASSUME NEW c \in Entry \ Chain(e, i) PROVE Sound(h[c])
    BY DEF IsCut
  <1>2. Sound(Deleted)
    <2>1. Deleted \in Slot
      BY EntryIs, DirAssumption DEF Deleted, Slot, Kind
    <2>2. << >> \in Seq(AnyExtent) /\ Len(<< >>) = 0 /\ DOMAIN << >> = {}
      OBVIOUS
    <2>3. Capacity(Deleted) >= 0
      BY DirAssumption DEF Capacity, Deleted
    <2> QED
      BY <2>1, <2>2, <2>3 DEF Sound, Deleted
  <1>3. ASSUME NEW c \in Chain(e, i) \ Chain(h, i) PROVE Sound(h[c])
    BY <1>2 DEF IsCut
  <1>4. ASSUME NEW c \in Chain(h, i) PROVE Sound(h[c])
    <2>1. /\ h \in Table /\ c \in Chain(e, i) /\ h[c].kind = e[c].kind
          /\ Shortened(e[c].ext, h[c].ext)
          /\ c # i => h[c].ext = e[c].ext \/ h[c].ext # << >>
      BY DEF IsCut
    <2>2. c \in Entry /\ Sound(e[c])
      BY <2>1
    <2>3. PICK x \in Seq(AnyExtent) : x = e[c].ext
      BY <2>2, TableIs
    <2>4. PICK y \in Seq(AnyExtent) : y = h[c].ext
      BY <2>1, <2>2, TableIs
    <2>5. h[c] \in Slot /\ Capacity(h[c]) = Capacity(e[c]) /\ Capacity(e[c]) \in Nat
      BY <2>1, <2>2, DirAssumption DEF Table, Capacity
    <2>6. Len(x) <= Capacity(e[c]) /\ \A k \in 1 .. Len(x) : IsExtent(x[k])
      BY <2>2, <2>3 DEF Sound
    <2>7. Shortened(x, y)
      BY <2>1, <2>3, <2>4
    <2>8. Len(x) \in Nat /\ Len(y) \in Nat /\ Len(y) <= Len(x)
      BY <2>7 DEF Shortened
    <2>9. ASSUME NEW k \in 1 .. Len(y) PROVE IsExtent(y[k])
      <3>1. k \in 1 .. Len(x)
        BY <2>8
      <3>2. PICK a \in AnyExtent : a = x[k]
        BY <3>1
      <3>3. PICK z \in AnyExtent : z = y[k]
        BY <2>8
      <3>4. /\ a.lsn \in Nat /\ a.count \in 1 .. MaxExtent /\ a.lsn + a.count <= Total
            /\ z.lsn \in Nat /\ z.count \in Nat /\ MaxExtent \in Nat /\ Total \in Nat
        BY <2>6, <3>1, <3>2, ExtentIs, SectorsAre DEF IsExtent
      <3>5. z.lsn = a.lsn /\ (z.count \in 1 .. a.count \/ z.count = a.count)
        BY <2>7, <3>2, <3>3 DEF Shortened
      <3> QED
        BY <3>3, <3>4, <3>5 DEF IsExtent
    <2>10. h[c].kind = "more" => h[c].ext # << >>
      BY <2>1, <2>2 DEF Sound
    <2> QED
      BY <2>4, <2>5, <2>6, <2>8, <2>9, <2>10 DEF Sound
  <1> QED
    BY <1>1, <1>3, <1>4

(* The entries the code writes: a deleted one, a new header and a           *)
(* continuation.                                                            *)
LEMMA DeletedIs ==
  /\ Deleted \in Slot /\ Deleted.kind = "deleted" /\ Sound(Deleted)
  /\ \A n \in Names : /\ Header(n) \in Slot /\ Header(n).kind = "header" /\ Header(n).name = n
                      /\ Header(n).next = NoNext /\ Header(n).ext = << >> /\ Header(n).last = 0
                      /\ Sound(Header(n))
  /\ Continuation \in Slot /\ Continuation.kind = "more" /\ Continuation.next = NoNext
  /\ Continuation.ext = << >> /\ Capacity(Continuation) = MoreExtents
  <1>1. << >> \in Seq(AnyExtent) /\ Len(<< >>) = 0 /\ DOMAIN << >> = {}
    OBVIOUS
  <1>2. 0 \in 0 .. (Bps - 1) /\ NoNext \in Entry /\ HeaderExtents \in Nat /\ MoreExtents \in Nat
    BY DirAssumption, EntryIs
  <1>3. /\ Deleted \in Slot /\ Deleted.kind = "deleted" /\ Deleted.ext = << >>
        /\ Capacity(Deleted) = HeaderExtents
    BY <1>1, <1>2 DEF Deleted, Slot, Kind, Capacity
  <1>4. Sound(Deleted)
    BY <1>1, <1>2, <1>3 DEF Sound
  <1>5. ASSUME NEW n \in Names
        PROVE  /\ Header(n) \in Slot /\ Header(n).kind = "header" /\ Header(n).name = n
               /\ Header(n).next = NoNext /\ Header(n).ext = << >> /\ Header(n).last = 0
               /\ Sound(Header(n))
    <2>1. /\ Header(n) \in Slot /\ Header(n).kind = "header" /\ Header(n).name = n
          /\ Header(n).next = NoNext /\ Header(n).ext = << >> /\ Header(n).last = 0
      BY <1>1, <1>2 DEF Header, Deleted, Slot, Kind
    <2>2. Capacity(Header(n)) = HeaderExtents
      BY <2>1 DEF Capacity
    <2>3. Sound(Header(n))
      BY <1>1, <1>2, <2>1, <2>2 DEF Sound
    <2> QED
      BY <2>1, <2>3
  <1>6. /\ Continuation \in Slot /\ Continuation.kind = "more" /\ Continuation.next = NoNext
        /\ Continuation.ext = << >>
    BY <1>1, <1>2 DEF Continuation, Deleted, Slot, Kind
  <1>7. Capacity(Continuation) = MoreExtents
    BY <1>6 DEF Capacity
  <1> QED
    BY <1>3, <1>4, <1>5, <1>6, <1>7

(* What a directory has that is not file i. *)
Without(e, h, f, g, i) ==
  /\ h \in Table /\ Files(h) = Files(e) \ {i} /\ Chained(h) /\ Apart(g, h, {})
  /\ Exact(f, e, {}) => Exact(g, h, {})
  /\ \A j \in Files(h) : Undisturbed(e, h, j)

(* A file that is killed gives back its entries and its sectors. *)
LEMMA KilledIsWithout ==
  ASSUME NEW e \in Table, Chained(e), NEW f, Apart(f, e, {}), NEW i \in Files(e),
         NEW h, h = [j \in Entry |-> IF j \in Chain(e, i) THEN Deleted ELSE e[j]]
  PROVE  Without(e, h, f, f \cup Held(e, i), i)
  <1>1. \A j \in Entry : h[j] = IF j \in Chain(e, i) THEN Deleted ELSE e[j]
    OBVIOUS
  <1>2. h \in Table
    BY DeletedIs DEF Table
  <1>3. /\ i \in Chain(e, i) /\ Chain(e, i) \subseteq Entry /\ IsChain(e, i)
        /\ \A c \in Chain(e, i) : e[c].kind # "deleted"
    BY FilesAre
  <1>4. ASSUME NEW j \in Files(e) \ {i}
        PROVE  /\ Chain(e, j) \subseteq Entry \ Chain(e, i) /\ j \in Entry /\ j \notin Chain(e, i)
               /\ e[j].kind = "header" /\ Undisturbed(e, h, j)
    <2>1. Chain(e, j) \subseteq Entry \ Chain(e, i)
      BY OtherChains
    <2>2. j \in Chain(e, j) /\ j \in Entry /\ e[j].kind = "header"
      BY FilesAre
    <2>3. \A c \in Chain(e, j) : h[c] = e[c]
      BY <1>1, <2>1
    <2>4. Undisturbed(e, h, j)
      BY <1>2, <2>3, SameIsUndisturbed
    <2> QED
      BY <2>1, <2>2, <2>4
  <1>5. Files(h) = Files(e) \ {i}
    <2>1. ASSUME NEW j \in Entry PROVE j \in Files(h) <=> j \in Files(e) \ {i}
      <3>1. CASE j \in Files(e) \ {i}
        BY <1>1, <1>4, <3>1 DEF Files
      <3>2. CASE j \notin Files(e) \/ j = i
        <4>1. h[j].kind # "header"
          BY <1>1, <1>3, <3>2, DeletedIs DEF Files
        <4> QED
          BY <3>2, <4>1 DEF Files
      <3> QED
        BY <3>1, <3>2
    <2>2. Files(h) \subseteq Entry /\ Files(e) \subseteq Entry
      BY DEF Files
    <2> QED
      BY <2>1, <2>2
  <1>6. \A j \in Files(h) : Undisturbed(e, h, j)
    BY <1>4, <1>5
  <1>7. Chained(h)
    BY <1>4, <1>5 DEF Chained, Undisturbed
  <1>8. f \subseteq Lsn \ System /\ Held(e, i) \subseteq Lsn \ (f \cup {} \cup System)
    BY DEF Apart
  <1>9. ASSUME NEW j \in Files(h)
        PROVE  /\ IsInjective(FileSectors(h, j))
               /\ Held(h, j) \subseteq Lsn \ ((f \cup Held(e, i)) \cup {} \cup System)
               /\ \A k \in Files(h) \ {j} : Held(h, j) \cap Held(h, k) = {}
    <2>1. FileSectors(h, j) = FileSectors(e, j) /\ \A k \in Files(h) : Held(h, k) = Held(e, k)
      BY <1>6 DEF Undisturbed
    <2>2. /\ IsInjective(FileSectors(e, j)) /\ Held(e, j) \subseteq Lsn \ (f \cup {} \cup System)
          /\ \A k \in Files(e) \ {j} : Held(e, j) \cap Held(e, k) = {}
      BY <1>5 DEF Apart
    <2>3. Held(e, j) \cap Held(e, i) = {}
      BY <1>5, <2>2
    <2> QED
      BY <1>5, <2>1, <2>2, <2>3
  <1>10. Apart(f \cup Held(e, i), h, {})
    BY <1>8, <1>9 DEF Apart
  <1>11. ASSUME Exact(f, e, {}) PROVE Exact(f \cup Held(e, i), h, {})
    <2> DEFINE others == UNION { Held(e, j) : j \in Files(e) \ {i} }
               chains == UNION { Chain(e, j) : j \in Files(e) \ {i} }
    <2>1. others = UNION { Held(h, j) : j \in Files(h) }
      BY <1>5, <1>6 DEF Undisturbed
    <2>2. chains = UNION { Chain(h, j) : j \in Files(h) }
      BY <1>5, <1>6 DEF Undisturbed
    <2>3. UNION { Held(e, j) : j \in Files(e) } = others \cup Held(e, i)
      OBVIOUS
    <2>4. UNION { Chain(e, j) : j \in Files(e) } = chains \cup Chain(e, i)
      OBVIOUS
    <2>5. others \cap Held(e, i) = {} /\ chains \cap Chain(e, i) = {}
      <3>1. \A j \in Files(e) \ {i} : Held(e, j) \cap Held(e, i) = {}
        BY DEF Apart
      <3> QED
        BY <1>4, <3>1
    <2>6. Exists(h) = Exists(e) \ Chain(e, i)
      <3>1. \A j \in Entry : h[j].kind # "deleted" <=> e[j].kind # "deleted" /\ j \notin Chain(e, i)
        BY <1>1, DeletedIs
      <3> QED
        BY <3>1 DEF Exists
    <2>7. Lsn \ f = System \cup {} \cup (others \cup Held(e, i)) /\ Exists(e) = chains \cup Chain(e, i)
      BY <1>11, <2>3, <2>4 DEF Exact, Exists
    <2> HIDE DEF others, chains
    <2>8. Lsn \ (f \cup Held(e, i)) = System \cup {} \cup others
      BY <1>8, <2>5, <2>7
    <2>9. Exists(h) = chains
      BY <2>5, <2>6, <2>7
    <2> QED
      BY <2>1, <2>2, <2>8, <2>9 DEF Exact, Exists
  <1> QED
    BY <1>2, <1>5, <1>6, <1>7, <1>10, <1>11 DEF Without

(* A new file, which has no sectors yet. *)
LEMMA NewIsWith ==
  ASSUME NEW e \in Table, Chained(e), NEW f, Apart(f, e, {}), NEW i \in Entry,
         e[i].kind = "deleted", NEW n \in Names,
         NEW h, h = [e EXCEPT ![i] = Header(n)]
  PROVE  /\ h \in Table /\ Files(h) = Files(e) \cup {i} /\ Chained(h) /\ Apart(f, h, {})
         /\ Exact(f, e, {}) => Exact(f, h, {})
         /\ FileSectors(h, i) = << >> /\ FileSize(h, i) = 0
         /\ \A j \in Files(e) : \A c \in Chain(e, j) : h[c] = e[c]
  <1>1. h[i] = Header(n) /\ \A j \in Entry \ {i} : h[j] = e[j]
    BY DEF Table
  <1>2. h \in Table
    BY DeletedIs DEF Table
  <1>3. ASSUME NEW j \in Files(e)
        PROVE  /\ i \notin Chain(e, j) /\ Undisturbed(e, h, j) /\ Chain(e, j) \subseteq Entry
               /\ \A c \in Chain(e, j) : h[c] = e[c]
    <2>1. Chain(e, j) \subseteq Entry /\ \A c \in Chain(e, j) : e[c].kind # "deleted"
      BY FilesAre
    <2>2. i \notin Chain(e, j) /\ \A c \in Chain(e, j) : h[c] = e[c]
      BY <1>1, <2>1
    <2>3. Undisturbed(e, h, j)
      BY <1>2, <2>2, SameIsUndisturbed
    <2> QED
      BY <2>1, <2>2, <2>3
  <1>4. /\ h[i].kind = "header" /\ h[i].next = NoNext /\ h[i].ext = << >> /\ h[i].last = 0
    BY <1>1, DeletedIs
  <1>5. Files(h) = Files(e) \cup {i}
    <2>1. \A j \in Entry : j \in Files(h) <=> j \in Files(e) \/ j = i
      BY <1>1, <1>4 DEF Files
    <2>2. Files(h) \subseteq Entry /\ Files(e) \subseteq Entry
      BY DEF Files
    <2> QED
      BY <2>1, <2>2
  <1>6. Shape(h, i, 0) /\ Chain(h, i) = {i} /\ LastEntry(h, i) = i
    BY <1>2, <1>4, AloneChain
  <1>7. FileSectors(h, i) = << >> /\ Held(h, i) = {}
    <2>1. PICK F : FileIs(F, h, i, 0)
      BY <1>2, <1>6, FileSectorsAre
    <2>2. Parts(F, h, i, 0)
      BY <1>2, <2>1, FileIsFacts
    <2>3. Walk(h, i)[0] = i
      BY <1>2, WalkType
    <2>4. F[0] = << >> /\ FileSectors(h, i) = F[0] \o SectorsOf(h[Walk(h, i)[0]].ext)
      <3>1. EndsWith(F, h, i, 0)
        BY <1>2, <2>1, LastPiece
      <3> QED
        BY <2>2, <3>1 DEF Parts, EndsWith
    <2>5. SectorsOf(h[i].ext) = << >>
      BY <1>4, SectorsOfNone
    <2>6. FileSectors(h, i) = << >> \o << >>
      BY <2>3, <2>4, <2>5
    <2>7. << >> \o << >> = << >>
      OBVIOUS
    <2>8. Range(<< >>) = {}
      BY DEF Range
    <2> QED
      BY <2>6, <2>7, <2>8 DEF Held
  <1>8. FileSize(h, i) = 0
    <2>1. Len(FileSectors(h, i)) = 0
      BY <1>7
    <2>2. PICK b \in Nat : b = Bps
      BY DirAssumption
    <2> QED
      BY <2>1, <2>2 DEF FileSize
  <1>9. IsChain(h, i) /\ IsInjective(FileSectors(h, i))
    <2>1. IsChain(h, i)
      BY <1>4, <1>6 DEF IsChain
    <2>2. IsInjective(<< >>)
      BY DEF IsInjective
    <2> QED
      BY <1>7, <2>1, <2>2
  <1>10. Chained(h)
    <2>1. ASSUME NEW j \in Files(h), NEW k \in Files(h) \ {j} PROVE Chain(h, j) \cap Chain(h, k) = {}
      <3> DEFINE Alone(l) == l \in Files(e) => Chain(h, l) = Chain(e, l) /\ i \notin Chain(e, l)
      <3>4. Chain(h, i) = {i} /\ Alone(j) /\ Alone(k) /\ (j = i \/ j \in Files(e))
            /\ (k = i \/ k \in Files(e))
        BY <1>3, <1>5, <1>6 DEF Undisturbed
      <3>1. CASE j = i
        BY <3>1, <3>4
      <3>2. CASE k = i
        BY <3>2, <3>4
      <3>3. CASE j # i /\ k # i
        BY <3>3, <3>4 DEF Chained
      <3> QED
        BY <3>1, <3>2, <3>3
    <2>2. \A j \in Files(h) : IsChain(h, j)
      BY <1>3, <1>5, <1>9 DEF Undisturbed
    <2> QED
      BY <2>1, <2>2 DEF Chained
  <1>11. \A j \in Files(e) : FileSectors(h, j) = FileSectors(e, j) /\ Held(h, j) = Held(e, j)
    BY <1>3 DEF Undisturbed
  <1>12. Apart(f, h, {})
    <2>1. f \subseteq Lsn \ System /\ {} \subseteq Lsn \ (f \cup System)
      BY DEF Apart
    <2>2. ASSUME NEW j \in Files(h)
          PROVE  /\ IsInjective(FileSectors(h, j)) /\ Held(h, j) \subseteq Lsn \ (f \cup {} \cup System)
                 /\ \A k \in Files(h) \ {j} : Held(h, j) \cap Held(h, k) = {}
      <3>1. CASE j = i
        BY <1>7, <1>9, <3>1
      <3>2. CASE j # i
        <4>1. j \in Files(e)
          BY <1>5, <3>2
        <4>2. /\ IsInjective(FileSectors(e, j)) /\ Held(e, j) \subseteq Lsn \ (f \cup {} \cup System)
              /\ \A k \in Files(e) \ {j} : Held(e, j) \cap Held(e, k) = {}
          BY <4>1 DEF Apart
        <4> QED
          BY <1>5, <1>7, <1>11, <4>1, <4>2
      <3> QED
        BY <3>1, <3>2
    <2> QED
      BY <2>1, <2>2 DEF Apart
  <1>13. ASSUME Exact(f, e, {}) PROVE Exact(f, h, {})
    <2> DEFINE held == UNION { Held(e, j) : j \in Files(e) }
               chains == UNION { Chain(e, j) : j \in Files(e) }
    <2>1. UNION { Held(h, j) : j \in Files(h) } = held
      <3>1. Held(h, i) = {} /\ \A j \in Files(e) : Held(h, j) = Held(e, j)
        BY <1>7, <1>11
      <3>2. \A j \in Files(h) : Held(h, j) \subseteq held
        BY <1>5, <3>1
      <3>3. \A j \in Files(e) : j \in Files(h) /\ Held(h, j) = Held(e, j)
        BY <1>5, <3>1
      <3>4. UNION { Held(h, j) : j \in Files(h) } \subseteq held
        <4> HIDE DEF held
        <4> QED
          BY <3>2
      <3>5. held \subseteq UNION { Held(h, j) : j \in Files(h) }
        BY <3>3
      <3> QED
        BY <3>4, <3>5
    <2>2. UNION { Chain(h, j) : j \in Files(h) } = chains \cup {i}
      BY <1>3, <1>5, <1>6 DEF Undisturbed
    <2>3. Exists(h) = Exists(e) \cup {i}
      <3>1. \A j \in Entry : h[j].kind # "deleted" <=> e[j].kind # "deleted" \/ j = i
        BY <1>1, <1>4
      <3> QED
        BY <3>1 DEF Exists
    <2>4. Lsn \ f = System \cup {} \cup held /\ Exists(e) = chains
      BY <1>13 DEF Exact, Exists
    <2> HIDE DEF held, chains
    <2>5. Exists(h) = chains \cup {i}
      BY <2>3, <2>4
    <2> QED
      BY <2>1, <2>2, <2>4, <2>5 DEF Exact, Exists
  <1> QED
    BY <1>2, <1>3, <1>5, <1>7, <1>8, <1>10, <1>12, <1>13
=============================================================================

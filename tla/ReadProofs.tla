------------------------------- MODULE ReadProofs ------------------------------
(***************************************************************************)
(* Proofs about what is read: the sector of a track image that its table   *)
(* has (di_table_add_track and di_table_find), for all recorded IDs and    *)
(* every ID sought; and the bytes of a file (read and readln of librbf,    *)
(* libdecb and libdragondos), for every file and every call.               *)
(***************************************************************************)
EXTENDS GroundProofs

-----------------------------------------------------------------------------
(* The sector table *)

LEMMA NumbersAre == Numbers \subseteq Nat /\ MaxIds \in Nat
  BY GroundAssumption

LEMMA JoinedIs ==
  ASSUME NEW S, NEW a \in Seq(S), NEW b \in Seq(S)
  PROVE  /\ a \o b \in Seq(S) /\ Len(a \o b) = Len(a) + Len(b)
         /\ \A i \in 1 .. Len(a) : (a \o b)[i] = a[i]
         /\ \A i \in (Len(a) + 1) .. (Len(a) + Len(b)) : (a \o b)[i] = b[i - Len(a)]
  OBVIOUS

LEMMA AppendedIs ==
  ASSUME NEW S, NEW a \in Seq(S), NEW b \in Seq(S)
  PROVE  /\ a \o b \in Seq(S) /\ Len(a \o b) = Len(a) + Len(b)
         /\ \A i \in 1 .. Len(a) : (a \o b)[i] = a[i]
         /\ \A i \in 1 .. Len(b) : (a \o b)[Len(a) + i] = b[i]
  OBVIOUS

(* x is q with e after its first j elements. *)
WithAfter(x, q, j, e) ==
  /\ Len(x) = Len(q) + 1
  /\ \A i \in 1 .. j : x[i] = q[i]
  /\ x[j + 1] = e
  /\ \A i \in (j + 2) .. (Len(q) + 1) : x[i] = q[i - 1]

LEMMA InsertedIs ==
  ASSUME NEW S, NEW q \in Seq(S), NEW j \in 0 .. Len(q), NEW e \in S
  PROVE  /\ Table!InsertAt(q, j + 1, e) \in Seq(S)
         /\ WithAfter(Table!InsertAt(q, j + 1, e), q, j, e)
  <1> DEFINE a == SubSeq(q, 1, (j + 1) - 1)
             b == SubSeq(q, j + 1, Len(q))
  <1>1. a \in Seq(S) /\ Len(a) = j /\ \A i \in 1 .. j : a[i] = q[i]
    OBVIOUS
  <1>2. b \in Seq(S) /\ Len(b) = Len(q) - j /\ \A i \in 1 .. (Len(q) - j) : b[i] = q[j + i]
    OBVIOUS
  <1>3. Table!InsertAt(q, j + 1, e) = a \o <<e>> \o b
    BY DEF Table!InsertAt
  <1> HIDE DEF a, b
  <1>4. PICK z : z = a \o <<e>>
    OBVIOUS
  <1>5. z \in Seq(S) /\ Len(z) = j + 1 /\ z[j + 1] = e /\ \A i \in 1 .. j : z[i] = a[i]
    <2>1. PICK o \in Seq(S) : o = <<e>> /\ Len(o) = 1 /\ o[1] = e
      <3>1. <<e>> \in Seq(S) /\ Len(<<e>>) = 1 /\ <<e>>[1] = e
        OBVIOUS
      <3> QED
        BY <3>1, Zenon
    <2>2. /\ z \in Seq(S) /\ Len(z) = Len(a) + Len(o) /\ \A i \in 1 .. Len(a) : z[i] = a[i]
          /\ \A i \in (Len(a) + 1) .. (Len(a) + Len(o)) : z[i] = o[i - Len(a)]
      <3>1. z = a \o o
        BY <1>4, <2>1
      <3> QED
        BY <1>1, <3>1, JoinedIs
    <2>3. j \in Int /\ j + 1 \in (j + 1) .. (j + 1) /\ (j + 1) - j = 1
      OBVIOUS
    <2> QED
      BY <1>1, <2>1, <2>2, <2>3
  <1>6. PICK y : y = z \o b
    OBVIOUS
  <1>7. /\ y \in Seq(S) /\ Len(y) = Len(z) + Len(b)
        /\ \A i \in 1 .. Len(z) : y[i] = z[i]
        /\ \A i \in (Len(z) + 1) .. (Len(z) + Len(b)) : y[i] = b[i - Len(z)]
    <2>1. z \in Seq(S) /\ b \in Seq(S)
      BY <1>2, <1>5
    <2>2. /\ z \o b \in Seq(S) /\ Len(z \o b) = Len(z) + Len(b)
          /\ \A i \in 1 .. Len(z) : (z \o b)[i] = z[i]
          /\ \A i \in (Len(z) + 1) .. (Len(z) + Len(b)) : (z \o b)[i] = b[i - Len(z)]
      BY ONLY <2>1, JoinedIs
    <2> QED
      BY ONLY <2>2, <1>6
  <1>8. j \in Nat /\ Len(q) \in Nat /\ j <= Len(q)
    OBVIOUS
  <1>9. ASSUME NEW i \in (j + 2) .. (Len(q) + 1) PROVE y[i] = q[i - 1]
    <2>1. Len(z) = j + 1 /\ Len(b) = Len(q) - j /\ j \in Nat /\ Len(q) \in Nat /\ i \in Int
      BY <1>2, <1>5, <1>8
    <2>2. i \in (Len(z) + 1) .. (Len(z) + Len(b)) /\ i - Len(z) \in 1 .. (Len(q) - j)
      BY <2>1
    <2>3. j + (i - Len(z)) = i - 1
      BY <2>1
    <2> QED
      BY <1>2, <1>7, <2>2, <2>3
  <1>10. \A i \in 1 .. j : y[i] = q[i]
    <2> TAKE i \in 1 .. j
    <2>1. i \in 1 .. Len(z)
      BY <1>5, <1>8
    <2> QED
      BY <1>1, <1>5, <1>7, <2>1
  <1>11. y[j + 1] = e /\ Len(y) = Len(q) + 1
    <2>1. j + 1 \in 1 .. Len(z)
      BY <1>5, <1>8
    <2> QED
      BY <1>2, <1>5, <1>7, <1>8, <2>1
  <1>12. Table!InsertAt(q, j + 1, e) = y
    BY <1>3, <1>4, <1>6
  <1> QED
    BY <1>7, <1>9, <1>10, <1>11, <1>12 DEF WithAfter

(* The key of number k on track t, and the order of keys. *)
KeyOf(t, k) == Append(Table!Track[t], k)

LEMMA ThirdAppended ==
  ASSUME NEW c, NEW h, NEW k
  PROVE  Append(<< c, h >>, k) = << c, h, k >>
  <1> DEFINE S == {c, h, k}
  <1>1. PICK q \in Seq(S) : q = << c, h >> /\ Len(q) = 2 /\ q[1] = c /\ q[2] = h
    <2>1. /\ << c, h >> \in Seq(S) /\ Len(<< c, h >>) = 2
          /\ << c, h >>[1] = c /\ << c, h >>[2] = h
      OBVIOUS
    <2> QED
      BY <2>1, Zenon
  <1>2. PICK x \in Seq(S) : x = Append(q, k) /\ Len(x) = 3 /\ x[1] = c /\ x[2] = h /\ x[3] = k
    <2>1. /\ Append(q, k) \in Seq(S) /\ Len(Append(q, k)) = 3
          /\ Append(q, k)[1] = c /\ Append(q, k)[2] = h /\ Append(q, k)[3] = k
      BY <1>1
    <2> QED
      BY <2>1, Zenon
  <1>3. PICK y \in Seq(S) : y = << c, h, k >> /\ Len(y) = 3 /\ y[1] = c /\ y[2] = h /\ y[3] = k
    <2>1. /\ << c, h, k >> \in Seq(S) /\ Len(<< c, h, k >>) = 3
          /\ << c, h, k >>[1] = c /\ << c, h, k >>[2] = h /\ << c, h, k >>[3] = k
      OBVIOUS
    <2> QED
      BY <2>1, Zenon
  <1>4. \A i \in 1 .. Len(x) : x[i] = y[i]
    <2>1. \A i \in 1 .. 3 : i = 1 \/ i = 2 \/ i = 3
      OBVIOUS
    <2> QED
      BY <1>2, <1>3, <2>1
  <1> HIDE DEF S
  <1>5. x = y
    BY <1>2, <1>3, <1>4, SeqEqual
  <1> QED
    BY <1>1, <1>2, <1>3, <1>5

LEMMA KeyIs ==
  ASSUME NEW t \in 1 .. 3, NEW k \in Nat
  PROVE  KeyOf(t, k) = << IF t = 3 THEN 1 ELSE 0, IF t = 2 THEN 1 ELSE 0, k >>
  <1>1. CASE t = 1
    <2>1. Table!Track[t] = << 0, 0 >>
      BY <1>1 DEF Table!Track
    <2> QED
      BY <1>1, <2>1, ThirdAppended DEF KeyOf
  <1>2. CASE t = 2
    <2>1. Table!Track[t] = << 0, 1 >>
      BY <1>2 DEF Table!Track
    <2> QED
      BY <1>2, <2>1, ThirdAppended DEF KeyOf
  <1>3. CASE t = 3
    <2>1. Table!Track[t] = << 1, 0 >>
      BY <1>3 DEF Table!Track
    <2> QED
      BY <1>3, <2>1, ThirdAppended DEF KeyOf
  <1> QED
    BY <1>1, <1>2, <1>3

LEMMA KeysAre ==
  ASSUME NEW t \in 1 .. 3, NEW k \in Nat, NEW u \in 1 .. 3, NEW m \in Nat
  PROVE  /\ KeyOf(t, k)[3] = k
         /\ KeyOf(t, k) = KeyOf(u, m) => t = u /\ k = m
         /\ Table!Lower(KeyOf(t, k), KeyOf(u, m)) <=> t < u \/ (t = u /\ k < m)
  <1> DEFINE c(x) == IF x = 3 THEN 1 ELSE 0
             h(x) == IF x = 2 THEN 1 ELSE 0
  <1>1. KeyOf(t, k) = << c(t), h(t), k >> /\ KeyOf(u, m) = << c(u), h(u), m >>
    BY KeyIs
  <1>2. Table!Lower(<< c(t), h(t), k >>, << c(u), h(u), m >>) <=>
          \/ c(t) < c(u)
          \/ c(t) = c(u) /\ h(t) < h(u)
          \/ c(t) = c(u) /\ h(t) = h(u) /\ k < m
    <2>1. PICK a, b, x, y : a = c(t) /\ b = h(t) /\ x = c(u) /\ y = h(u)
      OBVIOUS
    <2>2. Table!Lower(<< a, b, k >>, << x, y, m >>) <=>
            \/ a < x
            \/ a = x /\ b < y
            \/ a = x /\ b = y /\ k < m
      BY DEF Table!Lower
    <2> QED
      BY <2>1, <2>2
  <1>3. t \in {1, 2, 3} /\ u \in {1, 2, 3}
    OBVIOUS
  <1>4. KeyOf(t, k)[3] = k
    BY <1>1
  <1>5. << c(t), h(t), k >> = << c(u), h(u), m >> => c(t) = c(u) /\ h(t) = h(u) /\ k = m
    OBVIOUS
  <1>6. c(t) = c(u) /\ h(t) = h(u) => t = u
    BY <1>3
  <1>7. (c(t) < c(u) \/ (c(t) = c(u) /\ h(t) < h(u))) <=> t < u
    BY <1>3
  <1> QED
    BY <1>1, <1>2, <1>4, <1>5, <1>6, <1>7

LEMMA LargestNumber ==
  ASSUME NEW S \in SUBSET Nat, S # {}, NEW c \in Nat, \A i \in S : i <= c
  PROVE  \E m \in S : \A i \in S : m >= i
  <1> DEFINE D == { d \in Nat : c - d \in S }
  <1>1. D \in SUBSET Nat /\ D # {}
    <2>1. PICK i \in S : TRUE
      OBVIOUS
    <2>2. c - i \in Nat /\ c - (c - i) = i
      BY <2>1
    <2> QED
      BY <2>1, <2>2
  <1>2. PICK d \in D : \A x \in D : d <= x
    <2> HIDE DEF D
    <2> QED
      BY <1>1, LeastNumber
  <1>3. c - d \in S /\ d \in Nat
    OBVIOUS
  <1>4. ASSUME NEW i \in S PROVE c - d >= i
    <2>1. c - i \in Nat /\ c - (c - i) = i
      OBVIOUS
    <2>2. c - i \in D
      BY <2>1
    <2> QED
      BY <1>2, <1>3, <2>1, <2>2
  <1> QED
    BY <1>3, <1>4

TableEntry == [key : Seq(Nat), at : Nat]

(* The valid IDs with a number, among those recorded on a track. *)
Carrying(ids, k) == { a \in 1 .. Len(ids) : ids[a].valid /\ ids[a].id = k }

IsFirst(ids, k, a) == a \in Carrying(ids, k) /\ \A b \in Carrying(ids, k) : a <= b

(* An entry of track t is the first ID with its number, one before upto.    *)
Lists(e, ids, t, upto) ==
  \E k \in Numbers : e.key = KeyOf(t, k) /\ IsFirst(ids, k, e.at) /\ e.at < upto

(* The IDs before upto are listed, by rising number. *)
Ordered(q, ids, t, upto) ==
  /\ q \in Seq(TableEntry)
  /\ \A i \in 1 .. Len(q) : Lists(q[i], ids, t, upto)
  /\ \A i, j \in 1 .. Len(q) : i < j => q[i].key[3] < q[j].key[3]
  /\ \A a \in 1 .. Len(ids) : a < upto /\ ids[a].valid =>
       \E i \in 1 .. Len(q) : q[i].key = KeyOf(t, ids[a].id)

LEMMA CarryingIs ==
  ASSUME NEW ids \in Seq(Table!SectorId), NEW k
  PROVE  /\ Carrying(ids, k) \in SUBSET Nat
         /\ \A a \in 1 .. Len(ids) :
              ids[a] \in Table!SectorId /\ ids[a].id \in Numbers /\ ids[a].id \in Nat
         /\ Len(ids) \in Nat
  <1>1. \A a \in 1 .. Len(ids) : ids[a] \in Table!SectorId
    OBVIOUS
  <1>2. \A e \in Table!SectorId : e.id \in Numbers /\ e.id \in Nat
    BY NumbersAre DEF Table!SectorId
  <1> QED
    BY <1>1, <1>2 DEF Carrying

LEMMA ListsIs ==
  ASSUME NEW e, NEW ids \in Seq(Table!SectorId), NEW t \in 1 .. 3, NEW upto,
         Lists(e, ids, t, upto)
  PROVE  /\ e.key[3] \in Numbers /\ e.key[3] \in Nat /\ e.key = KeyOf(t, e.key[3])
         /\ IsFirst(ids, e.key[3], e.at) /\ e.at < upto /\ e.at \in Nat
  <1>1. PICK k \in Numbers : e.key = KeyOf(t, k) /\ IsFirst(ids, k, e.at) /\ e.at < upto
    BY DEF Lists
  <1>2. k \in Nat
    BY NumbersAre
  <1>3. e.key[3] = k
    BY <1>1, <1>2, KeysAre
  <1>4. e.at \in Nat
    BY <1>1, CarryingIs DEF IsFirst
  <1> QED
    BY <1>1, <1>2, <1>3, <1>4

LEMMA NoneOrdered ==
  ASSUME NEW ids \in Seq(Table!SectorId), NEW t
  PROVE  Ordered(<< >>, ids, t, 1)
  <1>1. Len(<< >>) = 0 /\ << >> \in Seq(TableEntry)
    OBVIOUS
  <1>2. \A i \in 1 .. 0 : FALSE
    OBVIOUS
  <1>3. \A a \in 1 .. Len(ids) : ~ a < 1
    OBVIOUS
  <1> QED
    BY <1>1, <1>2, <1>3 DEF Ordered

(* Where the search for a number's place ends. *)
IsPlace(q, k, j) ==
  /\ j \in 0 .. Len(q)
  /\ \A i \in 1 .. j : q[i].key[3] <= k
  /\ \A i \in (j + 1) .. Len(q) : k < q[i].key[3]

LEMMA BeforeIsPlace ==
  ASSUME NEW ids \in Seq(Table!SectorId), NEW t \in 1 .. 3, NEW upto,
         Ordered(l.ordered, ids, t, upto), NEW k \in Nat
  PROVE  IsPlace(l.ordered, k, Table!Before(k))
  <1> DEFINE q == l.ordered
             I == { i \in 1 .. Len(q) : q[i].key[3] <= k }
  <1>1. Table!Before(k) = IF I # {} THEN Table!Max(I) ELSE 0
    BY DEF Table!Before, Table!SelectLastInSeq
  <1>2. /\ q \in Seq(TableEntry) /\ Len(q) \in Nat
        /\ \A i \in 1 .. Len(q) : q[i].key[3] \in Nat
        /\ \A i, j \in 1 .. Len(q) : i < j => q[i].key[3] < q[j].key[3]
    <2>1. q \in Seq(TableEntry) /\ \A i \in 1 .. Len(q) : Lists(q[i], ids, t, upto)
      BY DEF Ordered
    <2>2. \A i \in 1 .. Len(q) : q[i].key[3] \in Nat
      BY <2>1, ListsIs
    <2>3. \A i, j \in 1 .. Len(q) : i < j => q[i].key[3] < q[j].key[3]
      BY DEF Ordered
    <2>4. Len(q) \in Nat
      BY <2>1
    <2> QED
      BY <2>1, <2>2, <2>3, <2>4
  <1> HIDE DEF q
  <1>3. CASE I = {}
    <2>1. \A i \in 1 .. Len(q) : k < q[i].key[3]
      BY <1>2, <1>3
    <2> QED
      BY <1>1, <1>2, <1>3, <2>1 DEF IsPlace, q
  <1>4. CASE I # {}
    <2>1. \E m \in I : \A i \in I : m >= i
      <3>1. I \in SUBSET Nat /\ \A i \in I : i <= Len(q)
        OBVIOUS
      <3> HIDE DEF I
      <3> QED
        BY <3>1, <1>2, <1>4, LargestNumber
    <2>2. PICK m \in I : m = Table!Max(I) /\ \A i \in I : m >= i
      BY <2>1 DEF Table!Max
    <2>3. m \in 1 .. Len(q) /\ m \in Nat /\ q[m].key[3] <= k
      OBVIOUS
    <2>4. ASSUME NEW i \in 1 .. m PROVE q[i].key[3] <= k
      <3>1. i \in 1 .. Len(q) /\ (i = m \/ i < m)
        BY <2>3
      <3> QED
        BY <1>2, <2>3, <3>1
    <2>5. ASSUME NEW i \in (m + 1) .. Len(q) PROVE k < q[i].key[3]
      <3>1. i \in 1 .. Len(q) /\ ~ m >= i
        BY <2>3
      <3>2. i \notin I
        BY <2>2, <3>1
      <3> QED
        BY <1>2, <3>1, <3>2
    <2>6. Table!Before(k) = m
      BY <1>1, <1>4, <2>2
    <2> QED
      BY <2>3, <2>4, <2>5, <2>6 DEF IsPlace, q
  <1> QED
    BY <1>3, <1>4

LEMMA KeyIsNumbers ==
  ASSUME NEW t \in 1 .. 3, NEW k \in Nat
  PROVE  KeyOf(t, k) \in Seq(Nat)
  <1>1. Table!Track \in Seq(Seq(Nat)) /\ Len(Table!Track) = 3
    BY DEF Table!Track
  <1>2. t \in 1 .. Len(Table!Track)
    BY <1>1
  <1>3. Table!Track[t] \in Seq(Nat)
    BY <1>1, <1>2, ElementOfSeq
  <1> QED
    BY <1>3 DEF KeyOf

LEMMA ListedOn ==
  ASSUME NEW e, NEW ids, NEW t, NEW upto \in Int, NEW k \in Numbers,
         e.at \in Int, Lists(e, ids, t, upto)
  PROVE  Lists(e, ids, t, upto + 1)
  <1>1. e.at < upto => e.at < upto + 1
    OBVIOUS
  <1> QED
    BY <1>1 DEF Lists

(* An ID that is not valid, or of which the number is there, changes nothing. *)
LEMMA SkippedOrders ==
  ASSUME NEW ids \in Seq(Table!SectorId), NEW t \in 1 .. 3, NEW q, NEW at \in 1 .. Len(ids),
         Ordered(q, ids, t, at),
         ids[at].valid => \E i \in 1 .. Len(q) : q[i].key = KeyOf(t, ids[at].id)
  PROVE  Ordered(q, ids, t, at + 1)
  <1>1. /\ q \in Seq(TableEntry) /\ \A i \in 1 .. Len(q) : Lists(q[i], ids, t, at)
        /\ \A i, j \in 1 .. Len(q) : i < j => q[i].key[3] < q[j].key[3]
        /\ \A a \in 1 .. Len(ids) : a < at /\ ids[a].valid =>
             \E i \in 1 .. Len(q) : q[i].key = KeyOf(t, ids[a].id)
    BY DEF Ordered
  <1>2. ASSUME NEW i \in 1 .. Len(q) PROVE Lists(q[i], ids, t, at + 1)
    <2>1. Lists(q[i], ids, t, at)
      BY <1>1
    <2>2. q[i].at \in Nat /\ q[i].key[3] \in Numbers
      BY <2>1, ListsIs
    <2>3. at \in Int /\ q[i].at \in Int
      BY <2>2
    <2> QED
      BY <2>1, <2>2, <2>3, ListedOn
  <1>3. ASSUME NEW a \in 1 .. Len(ids), a < at + 1, ids[a].valid
        PROVE  \E i \in 1 .. Len(q) : q[i].key = KeyOf(t, ids[a].id)
    <2>1. a < at \/ a = at
      BY <1>3
    <2> QED
      BY <1>1, <1>3, <2>1
  <1> QED
    BY <1>1, <1>2, <1>3 DEF Ordered

(* A number that is not there goes to its place, and its ID is the first. *)
LEMMA InsertedOrders ==
  ASSUME NEW ids \in Seq(Table!SectorId), NEW t \in 1 .. 3, NEW q, NEW at \in 1 .. Len(ids),
         Ordered(q, ids, t, at), ids[at].valid,
         NEW k, k = ids[at].id, NEW j, IsPlace(q, k, j),
         NEW e, e = [key |-> KeyOf(t, k), at |-> at],
         ~ (j > 0 /\ q[j].key = e.key),
         NEW r, r = Table!InsertAt(q, j + 1, e)
  PROVE  Ordered(r, ids, t, at + 1)
  <1>1. /\ q \in Seq(TableEntry) /\ \A i \in 1 .. Len(q) : Lists(q[i], ids, t, at)
        /\ \A i, h \in 1 .. Len(q) : i < h => q[i].key[3] < q[h].key[3]
        /\ \A a \in 1 .. Len(ids) : a < at /\ ids[a].valid =>
             \E i \in 1 .. Len(q) : q[i].key = KeyOf(t, ids[a].id)
    BY DEF Ordered
  <1>2. k \in Numbers /\ k \in Nat /\ at \in Nat /\ Len(q) \in Nat /\ j \in 0 .. Len(q)
    BY <1>1, CarryingIs DEF IsPlace
  <1>3. /\ e.key = KeyOf(t, k) /\ e.at = at /\ e.key[3] = k /\ e \in TableEntry
    <2>1. KeyOf(t, k)[3] = k /\ KeyOf(t, k) \in Seq(Nat)
      BY <1>2, KeysAre, KeyIsNumbers
    <2> QED
      BY <1>2, <2>1 DEF TableEntry
  <1>4. ASSUME NEW i \in 1 .. Len(q)
        PROVE  /\ q[i].key[3] \in Nat /\ q[i].key = KeyOf(t, q[i].key[3])
               /\ Lists(q[i], ids, t, at + 1)
               /\ i <= j => q[i].key[3] < k
               /\ i > j => k < q[i].key[3]
    <2>0. Lists(q[i], ids, t, at)
      BY <1>1
    <2>1. /\ q[i].at \in Nat /\ q[i].key[3] \in Numbers
          /\ q[i].key[3] \in Nat /\ q[i].key = KeyOf(t, q[i].key[3])
      BY <2>0, ListsIs
    <2>2. Lists(q[i], ids, t, at + 1)
      <3>1. at \in Int /\ q[i].at \in Int
        BY <1>2, <2>1
      <3> QED
        BY <2>0, <2>1, <3>1, ListedOn
    <2>3. ASSUME i <= j PROVE q[i].key[3] < k
      <3>1. j \in 1 .. Len(q) /\ j > 0 /\ q[j].key[3] <= k
        BY <1>2, <2>3 DEF IsPlace
      <3>2. q[j].key[3] \in Nat /\ q[j].key = KeyOf(t, q[j].key[3])
        BY <1>1, <3>1, ListsIs
      <3>3. q[j].key[3] # k
        BY <1>3, <3>1, <3>2
      <3>4. i = j \/ i < j
        BY <1>2, <2>3
      <3>5. i < j => q[i].key[3] < q[j].key[3]
        BY <1>1, <3>1
      <3>6. q[i].key[3] \in Nat
        BY <1>1, <2>1, ListsIs
      <3>7. PICK a \in Nat, b \in Nat : a = q[i].key[3] /\ b = q[j].key[3]
        BY <3>2, <3>6
      <3>8. b <= k /\ b # k /\ (i < j => a < b) /\ (i = j => a = b) /\ k \in Nat
        BY <1>2, <3>1, <3>3, <3>5, <3>7
      <3>9. a < k
        BY ONLY <3>4, <3>7, <3>8
      <3> QED
        BY <3>7, <3>9
    <2>4. ASSUME i > j PROVE k < q[i].key[3]
      <3>1. i \in (j + 1) .. Len(q)
        BY <1>2, <2>4
      <3> QED
        BY <3>1 DEF IsPlace
    <2> QED
      BY <2>1, <2>2, <2>3, <2>4
  <1>5. IsFirst(ids, k, at)
    <2>1. at \in Carrying(ids, k)
      BY DEF Carrying
    <2>2. ASSUME NEW b \in Carrying(ids, k), b < at PROVE FALSE
      <3>1. b \in 1 .. Len(ids) /\ ids[b].valid /\ ids[b].id = k
        BY DEF Carrying
      <3>2. PICK i \in 1 .. Len(q) : q[i].key = KeyOf(t, k)
        BY <1>1, <2>2, <3>1
      <3>3. q[i].key[3] = k
        BY <1>3, <3>2
      <3> QED
        BY <1>2, <1>4, <3>3
    <2>3. \A b \in Carrying(ids, k) : at <= b
      BY <1>2, <2>2, CarryingIs
    <2> QED
      BY <2>1, <2>3 DEF IsFirst
  <1>6. Lists(e, ids, t, at + 1)
    <2>1. at < at + 1
      BY <1>2
    <2> QED
      BY <1>2, <1>3, <1>5, <2>1 DEF Lists
  <1>7. /\ r \in Seq(TableEntry) /\ Len(r) = Len(q) + 1
        /\ \A i \in 1 .. j : r[i] = q[i]
        /\ r[j + 1] = e
        /\ \A i \in (j + 2) .. (Len(q) + 1) : r[i] = q[i - 1]
    <2>1. q \in Seq(TableEntry) /\ j \in 0 .. Len(q) /\ e \in TableEntry
      BY <1>1, <1>2, <1>3
    <2>2. r \in Seq(TableEntry) /\ WithAfter(r, q, j, e)
      BY <2>1, InsertedIs
    <2> QED
      BY <2>2 DEF WithAfter
  <1>8. ASSUME NEW i \in 1 .. Len(r)
        PROVE  \/ i <= j /\ i \in 1 .. Len(q) /\ r[i] = q[i]
               \/ i = j + 1 /\ r[i] = e
               \/ i > j + 1 /\ i - 1 \in 1 .. Len(q) /\ r[i] = q[i - 1]
    <2>1. i \in 1 .. j \/ i = j + 1 \/ i \in (j + 2) .. (Len(q) + 1)
      BY <1>2, <1>7
    <2>2. i \in 1 .. j => i <= j /\ i \in 1 .. Len(q)
      BY <1>2
    <2>3. i \in (j + 2) .. (Len(q) + 1) => i > j + 1 /\ i - 1 \in 1 .. Len(q)
      BY <1>2
    <2> QED
      BY <1>7, <2>1, <2>2, <2>3
  <1>9. ASSUME NEW i \in 1 .. Len(r) PROVE Lists(r[i], ids, t, at + 1)
    BY <1>4, <1>6, <1>8
  <1>10. ASSUME NEW i \in 1 .. Len(r), NEW h \in 1 .. Len(r), i < h
         PROVE  r[i].key[3] < r[h].key[3]
    <2>1. \/ i <= j /\ i \in 1 .. Len(q) /\ r[i] = q[i] /\ r[i].key[3] < k
          \/ i = j + 1 /\ r[i].key[3] = k
          \/ i > j + 1 /\ i - 1 \in 1 .. Len(q) /\ r[i] = q[i - 1]
      <3>1. i <= j /\ i \in 1 .. Len(q) => q[i].key[3] < k
        BY <1>4
      <3>2. \/ i <= j /\ i \in 1 .. Len(q) /\ r[i] = q[i]
            \/ i = j + 1 /\ r[i] = e
            \/ i > j + 1 /\ i - 1 \in 1 .. Len(q) /\ r[i] = q[i - 1]
        BY <1>8
      <3>3. CASE i <= j /\ i \in 1 .. Len(q) /\ r[i] = q[i]
        BY <3>1, <3>3
      <3>4. CASE i = j + 1 /\ r[i] = e
        BY <1>3, <3>4
      <3> QED
        BY <3>2, <3>3, <3>4
    <2>2. \/ h <= j /\ h \in 1 .. Len(q) /\ r[h] = q[h]
          \/ h = j + 1 /\ r[h].key[3] = k
          \/ /\ h > j + 1 /\ h - 1 \in 1 .. Len(q) /\ r[h] = q[h - 1] /\ k < r[h].key[3]
      <3>1. h > j + 1 /\ h - 1 \in 1 .. Len(q) => h - 1 > j
        BY <1>2
      <3>2. h - 1 \in 1 .. Len(q) /\ h - 1 > j => k < q[h - 1].key[3]
        BY <1>4
      <3> QED
        BY <1>3, <1>8, <3>1, <3>2
    <2>3. CASE i <= j /\ h <= j
      <3>1. i \in 1 .. Len(q) /\ h \in 1 .. Len(q) /\ r[i] = q[i] /\ r[h] = q[h]
        BY <1>2, <2>1, <2>2, <2>3
      <3> QED
        BY <1>1, <1>10, <3>1
    <2>4. CASE i > j + 1
      <3>1. h > j + 1 /\ i - 1 < h - 1
        BY <1>2, <1>10, <2>4
      <3>2. i - 1 \in 1 .. Len(q) /\ h - 1 \in 1 .. Len(q) /\ r[i] = q[i - 1] /\ r[h] = q[h - 1]
        BY <1>2, <2>1, <2>2, <2>4, <3>1
      <3> QED
        BY <1>1, <3>1, <3>2
    <2>5. CASE i <= j /\ h = j + 1
      BY <1>2, <2>1, <2>2, <2>5
    <2>6. CASE i <= j /\ h > j + 1
      <3>1. i \in 1 .. Len(q) /\ r[i] = q[i] /\ r[i].key[3] < k
        BY <1>2, <2>1, <2>6
      <3>2. h - 1 \in 1 .. Len(q) /\ r[h] = q[h - 1] /\ k < r[h].key[3]
        BY <1>2, <2>2, <2>6
      <3>3. r[i].key[3] \in Nat /\ r[h].key[3] \in Nat
        BY <1>4, <3>1, <3>2
      <3>4. PICK x \in Nat, y \in Nat : x = r[i].key[3] /\ y = r[h].key[3]
        BY <3>3
      <3>5. x < k /\ k < y /\ k \in Nat
        BY <1>2, <3>1, <3>2, <3>4
      <3>6. x < y
        BY ONLY <3>5, x \in Nat, y \in Nat
      <3> QED
        BY <3>4, <3>6
    <2>7. CASE i = j + 1
      <3>1. h > j + 1 /\ r[i].key[3] = k /\ k < r[h].key[3]
        BY <1>2, <1>10, <2>1, <2>2, <2>7
      <3> QED
        BY <3>1
    <2> QED
      BY <1>2, <1>8, <1>10, <2>3, <2>4, <2>5, <2>6, <2>7
  <1>11. ASSUME NEW a \in 1 .. Len(ids), a < at + 1, ids[a].valid
         PROVE  \E i \in 1 .. Len(r) : r[i].key = KeyOf(t, ids[a].id)
    <2>1. CASE a = at
      <3>1. j + 1 \in 1 .. Len(r)
        BY <1>2, <1>7
      <3> QED
        BY <1>3, <1>7, <2>1, <3>1
    <2>2. CASE a < at
      <3>1. PICK i \in 1 .. Len(q) : q[i].key = KeyOf(t, ids[a].id)
        BY <1>1, <1>11, <2>2
      <3>2. CASE i <= j
        <4>1. i \in 1 .. j /\ i \in 1 .. Len(r)
          BY <1>2, <1>7, <3>2
        <4> QED
          BY <1>7, <3>1, <4>1
      <3>3. CASE i > j
        <4>1. i + 1 \in (j + 2) .. (Len(q) + 1) /\ i + 1 \in 1 .. Len(r) /\ (i + 1) - 1 = i
          BY <1>2, <1>7, <3>3
        <4>2. r[i + 1] = q[i]
          BY <1>7, <4>1
        <4> QED
          BY <3>1, <4>1, <4>2
      <3> QED
        BY <1>2, <3>2, <3>3
    <2> QED
      BY <1>2, <1>11, <2>1, <2>2
  <1> QED
    BY <1>7, <1>9, <1>10, <1>11 DEF Ordered

(* An entry of a track before t is the first ID with its number. *)
ListsBefore(e, rec, t) ==
  \E u \in 1 .. 3 : u < t /\ Lists(e, rec[u], u, Len(rec[u]) + 1)

(* The IDs of the tracks before t are listed, by rising keys. *)
Tabled(tab, rec, t) ==
  /\ tab \in Seq(TableEntry)
  /\ \A i \in 1 .. Len(tab) : ListsBefore(tab[i], rec, t)
  /\ \A i, j \in 1 .. Len(tab) : i < j => Table!Lower(tab[i].key, tab[j].key)
  /\ \A u \in 1 .. 3 : \A a \in 1 .. Len(rec[u]) : u < t /\ rec[u][a].valid =>
       \E i \in 1 .. Len(tab) : tab[i].key = KeyOf(u, rec[u][a].id)

Recordings == [1 .. 3 -> Seq(Table!SectorId)]

LEMMA NoneTabled ==
  ASSUME NEW rec \in Recordings
  PROVE  Tabled(<< >>, rec, 1)
  <1>1. Len(<< >>) = 0 /\ << >> \in Seq(TableEntry)
    OBVIOUS
  <1>2. \A i \in 1 .. 0 : FALSE
    OBVIOUS
  <1>3. \A u \in 1 .. 3 : ~ u < 1
    OBVIOUS
  <1> QED
    BY <1>1, <1>2, <1>3 DEF Tabled

LEMMA ListsBeforeIs ==
  ASSUME NEW rec \in Recordings, NEW e, NEW t, ListsBefore(e, rec, t)
  PROVE  \E u \in 1 .. 3, k \in Numbers :
           u < t /\ e.key = KeyOf(u, k) /\ k \in Nat /\ IsFirst(rec[u], k, e.at) /\ e.at \in Nat
  <1>1. PICK u \in 1 .. 3 : u < t /\ Lists(e, rec[u], u, Len(rec[u]) + 1)
    BY DEF ListsBefore
  <1>2. rec[u] \in Seq(Table!SectorId)
    BY DEF Recordings
  <1>3. PICK k \in Numbers : k = e.key[3] /\ k \in Nat /\ e.key = KeyOf(u, k)
                             /\ IsFirst(rec[u], k, e.at) /\ e.at \in Nat
    BY <1>1, <1>2, ListsIs
  <1> QED
    BY <1>1, <1>3

(* A track is added after those before it. *)
LEMMA TrackTabled ==
  ASSUME NEW rec \in Recordings, NEW t \in 1 .. 3, NEW tab, Tabled(tab, rec, t),
         NEW q, NEW upto \in Nat, Ordered(q, rec[t], t, upto), upto > Len(rec[t]),
         NEW r, r = tab \o q
  PROVE  Tabled(r, rec, t + 1)
  <1>1. /\ tab \in Seq(TableEntry) /\ \A i \in 1 .. Len(tab) : ListsBefore(tab[i], rec, t)
        /\ \A i, j \in 1 .. Len(tab) : i < j => Table!Lower(tab[i].key, tab[j].key)
        /\ \A u \in 1 .. 3 : \A a \in 1 .. Len(rec[u]) : u < t /\ rec[u][a].valid =>
             \E i \in 1 .. Len(tab) : tab[i].key = KeyOf(u, rec[u][a].id)
    BY DEF Tabled
  <1>2. /\ q \in Seq(TableEntry) /\ \A i \in 1 .. Len(q) : Lists(q[i], rec[t], t, upto)
        /\ \A i, j \in 1 .. Len(q) : i < j => q[i].key[3] < q[j].key[3]
        /\ \A a \in 1 .. Len(rec[t]) : a < upto /\ rec[t][a].valid =>
             \E i \in 1 .. Len(q) : q[i].key = KeyOf(t, rec[t][a].id)
    BY DEF Ordered
  <1>3. rec[t] \in Seq(Table!SectorId) /\ Len(rec[t]) \in Nat /\ Len(tab) \in Nat /\ Len(q) \in Nat
    BY <1>1, <1>2 DEF Recordings
  <1>4. /\ r \in Seq(TableEntry) /\ Len(r) = Len(tab) + Len(q)
        /\ \A i \in 1 .. Len(tab) : r[i] = tab[i]
        /\ \A i \in (Len(tab) + 1) .. (Len(tab) + Len(q)) : r[i] = q[i - Len(tab)]
    BY <1>1, <1>2, JoinedIs
  <1>5. ASSUME NEW i \in 1 .. Len(r)
        PROVE  \/ i <= Len(tab) /\ i \in 1 .. Len(tab) /\ r[i] = tab[i]
               \/ i > Len(tab) /\ i - Len(tab) \in 1 .. Len(q) /\ r[i] = q[i - Len(tab)]
    <2>1. i \in 1 .. Len(tab) \/ i \in (Len(tab) + 1) .. (Len(tab) + Len(q))
      BY <1>3, <1>4
    <2>2. i \in (Len(tab) + 1) .. (Len(tab) + Len(q)) =>
            i > Len(tab) /\ i - Len(tab) \in 1 .. Len(q)
      BY <1>3
    <2> QED
      BY <1>3, <1>4, <2>1, <2>2
  <1>6. ASSUME NEW i \in 1 .. Len(q)
        PROVE  /\ q[i].key[3] \in Nat /\ q[i].key = KeyOf(t, q[i].key[3])
               /\ Lists(q[i], rec[t], t, Len(rec[t]) + 1)
    <2>1. Lists(q[i], rec[t], t, upto)
      BY <1>2
    <2>2. PICK k \in Numbers : q[i].key = KeyOf(t, k) /\ IsFirst(rec[t], k, q[i].at)
      BY <2>1 DEF Lists
    <2>3. q[i].at \in 1 .. Len(rec[t])
      BY <2>2 DEF IsFirst, Carrying
    <2>4. q[i].at < Len(rec[t]) + 1
      BY <1>3, <2>3
    <2>5. Lists(q[i], rec[t], t, Len(rec[t]) + 1)
      BY <2>2, <2>4 DEF Lists
    <2>6. q[i].key[3] \in Nat /\ q[i].key = KeyOf(t, q[i].key[3])
      BY <1>3, <2>1, ListsIs
    <2> QED
      BY <2>5, <2>6
  <1>7. ASSUME NEW i \in 1 .. Len(r) PROVE ListsBefore(r[i], rec, t + 1)
    <2>1. CASE i <= Len(tab) /\ i \in 1 .. Len(tab) /\ r[i] = tab[i]
      <3>1. PICK u \in 1 .. 3 : u < t /\ Lists(tab[i], rec[u], u, Len(rec[u]) + 1)
        BY <1>1, <2>1 DEF ListsBefore
      <3>2. u < t + 1
        BY <3>1
      <3> QED
        BY <2>1, <3>1, <3>2 DEF ListsBefore
    <2>2. CASE i > Len(tab) /\ i - Len(tab) \in 1 .. Len(q) /\ r[i] = q[i - Len(tab)]
      <3>1. t < t + 1
        OBVIOUS
      <3>2. Lists(r[i], rec[t], t, Len(rec[t]) + 1)
        BY <1>6, <2>2
      <3> QED
        BY <3>1, <3>2 DEF ListsBefore
    <2> QED
      BY <1>5, <2>1, <2>2
  <1>8. ASSUME NEW i \in 1 .. Len(r), NEW j \in 1 .. Len(r), i < j
        PROVE  Table!Lower(r[i].key, r[j].key)
    <2>1. CASE j <= Len(tab)
      <3>1. i \in 1 .. Len(tab) /\ j \in 1 .. Len(tab) /\ r[i] = tab[i] /\ r[j] = tab[j]
        BY <1>3, <1>4, <1>8, <2>1
      <3> QED
        BY <1>1, <1>8, <3>1
    <2>2. CASE i > Len(tab)
      <3>1. /\ i - Len(tab) \in 1 .. Len(q) /\ j - Len(tab) \in 1 .. Len(q)
            /\ i - Len(tab) < j - Len(tab)
        BY <1>3, <1>4, <1>8, <2>2
      <3>2. PICK x \in 1 .. Len(q), y \in 1 .. Len(q) : x = i - Len(tab) /\ y = j - Len(tab)
        BY <3>1
      <3>3. r[i] = q[x] /\ r[j] = q[y] /\ q[x].key[3] < q[y].key[3]
        <4>1. Len(tab) \in Nat /\ Len(q) \in Nat /\ Len(r) = Len(tab) + Len(q)
          BY <1>3
        <4>2. i \in (Len(tab) + 1) .. Len(r) /\ j \in (Len(tab) + 1) .. Len(r) /\ x < y
          BY <1>8, <2>2, <3>1, <3>2, <4>1
        <4>3. r[i] = q[x]
          BY <1>5, <3>2, <4>1, <4>2
        <4>4. r[j] = q[y]
          BY <1>5, <3>2, <4>1, <4>2
        <4>5. q[x].key[3] < q[y].key[3]
          BY <1>2, <3>2, <4>2
        <4> QED
          BY <4>3, <4>4, <4>5
      <3>4. /\ q[x].key[3] \in Nat /\ q[x].key = KeyOf(t, q[x].key[3])
            /\ q[y].key[3] \in Nat /\ q[y].key = KeyOf(t, q[y].key[3])
        BY <1>6
      <3>5. PICK k \in Nat, m \in Nat : k = q[x].key[3] /\ m = q[y].key[3]
        BY <3>4
      <3>6. q[x].key = KeyOf(t, k) /\ q[y].key = KeyOf(t, m) /\ k < m
        BY <3>3, <3>4, <3>5
      <3>7. Table!Lower(KeyOf(t, k), KeyOf(t, m))
        BY <3>6, KeysAre
      <3> QED
        BY <3>3, <3>6, <3>7
    <2>3. CASE i <= Len(tab) /\ j > Len(tab)
      <3>1. i \in 1 .. Len(tab) /\ r[i] = tab[i]
        BY <1>3, <1>4, <2>3
      <3>2. PICK y \in 1 .. Len(q) : r[j] = q[y]
        BY <1>3, <1>5, <2>3
      <3>3. PICK u \in 1 .. 3, k \in Numbers : u < t /\ tab[i].key = KeyOf(u, k) /\ k \in Nat
        BY <1>1, <3>1, ListsBeforeIs
      <3>4. q[y].key[3] \in Nat /\ q[y].key = KeyOf(t, q[y].key[3])
        BY <1>6
      <3>5. PICK m \in Nat : m = q[y].key[3]
        BY <3>4
      <3>6. Table!Lower(KeyOf(u, k), KeyOf(t, m))
        <4>1. u \in 1 .. 3 /\ t \in 1 .. 3 /\ k \in Nat /\ m \in Nat /\ u < t
          BY <3>3, <3>5
        <4>2. Table!Lower(KeyOf(u, k), KeyOf(t, m)) <=> u < t \/ (u = t /\ k < m)
          BY ONLY <4>1, KeysAre
        <4> QED
          BY ONLY <4>1, <4>2
      <3>7. tab[i].key = KeyOf(u, k) /\ q[y].key = KeyOf(t, m)
        BY <3>3, <3>4, <3>5
      <3> QED
        BY <3>1, <3>2, <3>6, <3>7
    <2> QED
      BY <1>3, <1>4, <2>1, <2>2, <2>3
  <1>9. ASSUME NEW u \in 1 .. 3, NEW a \in 1 .. Len(rec[u]), u < t + 1, rec[u][a].valid
        PROVE  \E i \in 1 .. Len(r) : r[i].key = KeyOf(u, rec[u][a].id)
    <2>1. CASE u < t
      <3>1. PICK i \in 1 .. Len(tab) : tab[i].key = KeyOf(u, rec[u][a].id)
        BY <1>1, <1>9, <2>1
      <3>2. i \in 1 .. Len(r) /\ r[i] = tab[i]
        BY <1>3, <1>4
      <3> QED
        BY <3>1, <3>2
    <2>2. CASE u = t
      <3>1. a < upto
        BY <1>3, <2>2
      <3>2. PICK i \in 1 .. Len(q) : q[i].key = KeyOf(t, rec[t][a].id)
        BY <1>2, <1>9, <2>2, <3>1
      <3>3. /\ Len(tab) + i \in 1 .. Len(r)
            /\ Len(tab) + i \in (Len(tab) + 1) .. (Len(tab) + Len(q)) /\ (Len(tab) + i) - Len(tab) = i
        BY <1>3, <1>4
      <3>4. r[Len(tab) + i] = q[i]
        BY <1>4, <3>3
      <3> QED
        BY <2>2, <3>2, <3>3, <3>4
    <2> QED
      BY <1>9, <2>1, <2>2
  <1> QED
    BY <1>4, <1>7, <1>8, <1>9 DEF Tabled

(* The search has left out what is lower than low or higher than high.      *)
Narrowed(tab, want, low, high) ==
  /\ low \in Nat \ {0} /\ high \in 0 .. Len(tab)
  /\ \A i \in 1 .. Len(tab) :
       /\ i < low => Table!Lower(tab[i].key, want)
       /\ i > high => Table!Lower(want, tab[i].key)

LEMMA FindBegins ==
  ASSUME NEW tab \in Seq(TableEntry), NEW want
  PROVE  Narrowed(tab, want, 1, Len(tab))
  <1>1. Len(tab) \in Nat
    OBVIOUS
  <1>2. \A i \in 1 .. Len(tab) : ~ i < 1 /\ ~ i > Len(tab)
    BY <1>1
  <1> QED
    BY <1>1, <1>2 DEF Narrowed

(* Which keys are lower than the one in the middle, or higher.              *)
LEMMA OrderOf ==
  ASSUME NEW rec \in Recordings, NEW tab, Tabled(tab, rec, 4),
         NEW t \in 1 .. 3, NEW k \in Nat, NEW i \in 1 .. Len(tab), NEW j \in 1 .. Len(tab)
  PROVE  /\ ~ Table!Lower(KeyOf(t, k), KeyOf(t, k))
         /\ \/ tab[i].key = KeyOf(t, k)
            \/ Table!Lower(tab[i].key, KeyOf(t, k))
            \/ Table!Lower(KeyOf(t, k), tab[i].key)
         /\ i < j /\ Table!Lower(tab[j].key, KeyOf(t, k)) => Table!Lower(tab[i].key, KeyOf(t, k))
         /\ j < i /\ Table!Lower(KeyOf(t, k), tab[j].key) => Table!Lower(KeyOf(t, k), tab[i].key)
  <1>1. PICK u \in 1 .. 3, m \in Nat : tab[i].key = KeyOf(u, m)
    BY ListsBeforeIs DEF Tabled
  <1>2. PICK v \in 1 .. 3, h \in Nat : tab[j].key = KeyOf(v, h)
    BY ListsBeforeIs DEF Tabled
  <1>3. /\ i < j => Table!Lower(KeyOf(u, m), KeyOf(v, h))
        /\ j < i => Table!Lower(KeyOf(v, h), KeyOf(u, m))
    BY <1>1, <1>2 DEF Tabled
  <1>4. /\ Table!Lower(KeyOf(u, m), KeyOf(v, h)) <=> u < v \/ (u = v /\ m < h)
        /\ Table!Lower(KeyOf(v, h), KeyOf(u, m)) <=> v < u \/ (v = u /\ h < m)
        /\ Table!Lower(KeyOf(u, m), KeyOf(t, k)) <=> u < t \/ (u = t /\ m < k)
    BY KeysAre
  <1>5. /\ Table!Lower(KeyOf(t, k), KeyOf(u, m)) <=> t < u \/ (t = u /\ k < m)
        /\ Table!Lower(KeyOf(v, h), KeyOf(t, k)) <=> v < t \/ (v = t /\ h < k)
        /\ Table!Lower(KeyOf(t, k), KeyOf(v, h)) <=> t < v \/ (t = v /\ k < h)
    BY KeysAre
  <1>6. ~ Table!Lower(KeyOf(t, k), KeyOf(t, k))
    BY KeysAre
  <1>7. \/ KeyOf(u, m) = KeyOf(t, k)
        \/ Table!Lower(KeyOf(u, m), KeyOf(t, k))
        \/ Table!Lower(KeyOf(t, k), KeyOf(u, m))
    <2>1. (u = t /\ m = k) \/ (u < t \/ (u = t /\ m < k)) \/ (t < u \/ (t = u /\ k < m))
      OBVIOUS
    <2> QED
      BY <1>4, <1>5, <2>1
  <1>8. i < j /\ Table!Lower(KeyOf(v, h), KeyOf(t, k)) => Table!Lower(KeyOf(u, m), KeyOf(t, k))
    BY <1>3, <1>4, <1>5
  <1>9. j < i /\ Table!Lower(KeyOf(t, k), KeyOf(v, h)) => Table!Lower(KeyOf(t, k), KeyOf(u, m))
    BY <1>3, <1>4, <1>5
  <1> QED
    BY <1>1, <1>2, <1>6, <1>7, <1>8, <1>9

LEMMA MiddleIs ==
  ASSUME NEW low \in Nat \ {0}, NEW high \in Nat, low <= high
  PROVE  low + (high - low) \div 2 \in Nat /\ low <= low + (high - low) \div 2
         /\ low + (high - low) \div 2 <= high
  OBVIOUS

LEMMA LookNarrows ==
  ASSUME NEW rec \in Recordings, NEW tab, Tabled(tab, rec, 4),
         NEW t \in 1 .. 3, NEW k \in Nat, NEW want, want = KeyOf(t, k),
         NEW low, NEW high, Narrowed(tab, want, low, high), low <= high,
         NEW m, m = low + (high - low) \div 2
  PROVE  /\ m \in 1 .. Len(tab)
         /\ tab[m].key # want /\ Table!Lower(tab[m].key, want) => Narrowed(tab, want, m + 1, high)
         /\ tab[m].key # want /\ ~ Table!Lower(tab[m].key, want) => Narrowed(tab, want, low, m - 1)
  <1>1. tab \in Seq(TableEntry) /\ Len(tab) \in Nat
    BY DEF Tabled
  <1>2. /\ low \in Nat \ {0} /\ high \in Nat /\ high <= Len(tab)
        /\ \A i \in 1 .. Len(tab) :
             /\ i < low => Table!Lower(tab[i].key, want)
             /\ i > high => Table!Lower(want, tab[i].key)
    BY <1>1 DEF Narrowed
  <1>3. m \in Nat /\ low <= m /\ m <= high
    BY <1>2, MiddleIs
  <1>4. m \in 1 .. Len(tab)
    BY <1>1, <1>2, <1>3
  <1>5. ASSUME Table!Lower(tab[m].key, want) PROVE Narrowed(tab, want, m + 1, high)
    <2>1. ASSUME NEW i \in 1 .. Len(tab), i < m + 1 PROVE Table!Lower(tab[i].key, want)
      <3>1. i = m \/ i < m
        BY <1>3, <2>1
      <3> QED
        BY <1>4, <1>5, <3>1, OrderOf
    <2> QED
      BY <1>1, <1>2, <1>3, <2>1 DEF Narrowed
  <1>6. ASSUME tab[m].key # want, ~ Table!Lower(tab[m].key, want)
        PROVE  Narrowed(tab, want, low, m - 1)
    <2>1. Table!Lower(want, tab[m].key)
      BY <1>4, <1>6, OrderOf
    <2>2. ASSUME NEW i \in 1 .. Len(tab), i > m - 1 PROVE Table!Lower(want, tab[i].key)
      <3>1. i = m \/ m < i
        BY <1>3, <2>2
      <3> QED
        BY <1>4, <2>1, <3>1, OrderOf
    <2>3. m - 1 \in 0 .. Len(tab)
      BY <1>1, <1>2, <1>3
    <2> QED
      BY <1>2, <2>2, <2>3 DEF Narrowed
  <1> QED
    BY <1>4, <1>5, <1>6

(* What is found on a track, and when nothing is.                           *)
FirstOf(ids, k) == Table!SelectInSeq(ids, LAMBDA e : e.valid /\ e.id = k)

LEMMA FirstOfIs ==
  ASSUME NEW ids \in Seq(Table!SectorId), NEW k
  PROVE  /\ Carrying(ids, k) = {} => FirstOf(ids, k) = 0
         /\ \A a : IsFirst(ids, k, a) => FirstOf(ids, k) = a /\ a # 0
  <1>1. FirstOf(ids, k) =
          IF Carrying(ids, k) # {} THEN Table!Min(Carrying(ids, k)) ELSE 0
    BY DEF FirstOf, Table!SelectInSeq, Carrying
  <1>2. Carrying(ids, k) = {} => FirstOf(ids, k) = 0
    BY <1>1
  <1>3. ASSUME NEW a, IsFirst(ids, k, a) PROVE FirstOf(ids, k) = a /\ a # 0
    <2> DEFINE S == Carrying(ids, k)
    <2>1. a \in S /\ \A b \in S : a <= b
      BY <1>3 DEF IsFirst
    <2>2. S \in SUBSET Nat /\ a \in 1 .. Len(ids) /\ Len(ids) \in Nat
      BY <2>1, CarryingIs DEF Carrying
    <2> HIDE DEF S
    <2>3. PICK y \in S : y = Table!Min(S) /\ \A b \in S : y <= b
      BY <2>1 DEF Table!Min
    <2>4. y <= a /\ a <= y /\ y \in Nat /\ a \in Nat
      BY <2>1, <2>2, <2>3
    <2>5. y = a
      BY <2>4
    <2>6. Carrying(ids, k) # {}
      BY <2>1 DEF S
    <2> QED
      BY <1>1, <2>2, <2>3, <2>5, <2>6 DEF S
  <1> QED
    BY <1>2, <1>3

LEMMA FoundIsFirst ==
  ASSUME NEW rec \in Recordings, NEW tab, Tabled(tab, rec, 4),
         NEW t \in 1 .. 3, NEW k \in Nat, NEW m \in 1 .. Len(tab), tab[m].key = KeyOf(t, k)
  PROVE  FirstOf(rec[t], k) # 0 /\ tab[m] = [key |-> KeyOf(t, k), at |-> FirstOf(rec[t], k)]
  <1>1. ListsBefore(tab[m], rec, 4) /\ tab[m] \in TableEntry
    BY DEF Tabled
  <1>2. PICK u \in 1 .. 3, h \in Numbers :
          /\ tab[m].key = KeyOf(u, h) /\ h \in Nat /\ IsFirst(rec[u], h, tab[m].at)
    BY <1>1, ListsBeforeIs
  <1>3. u = t /\ h = k
    <2>1. KeyOf(u, h) = KeyOf(t, k) /\ h \in Nat
      BY <1>2
    <2> QED
      BY <2>1, KeysAre
  <1>4. rec[t] \in Seq(Table!SectorId)
    BY DEF Recordings
  <1>5. FirstOf(rec[t], k) = tab[m].at /\ tab[m].at # 0
    BY <1>2, <1>3, <1>4, FirstOfIs
  <1> QED
    BY <1>1, <1>5 DEF TableEntry

LEMMA NotFoundIsNone ==
  ASSUME NEW rec \in Recordings, NEW tab, Tabled(tab, rec, 4),
         NEW t \in 1 .. 3, NEW k \in Nat,
         NEW low, NEW high, Narrowed(tab, KeyOf(t, k), low, high), low > high
  PROVE  FirstOf(rec[t], k) = 0
  <1>1. rec[t] \in Seq(Table!SectorId) /\ tab \in Seq(TableEntry) /\ Len(tab) \in Nat
    BY DEF Recordings, Tabled
  <1>2. ASSUME NEW a \in Carrying(rec[t], k) PROVE FALSE
    <2>1. a \in 1 .. Len(rec[t]) /\ rec[t][a].valid /\ rec[t][a].id = k
      BY DEF Carrying
    <2>2. t < 4
      OBVIOUS
    <2>3. PICK i \in 1 .. Len(tab) : tab[i].key = KeyOf(t, k)
      BY <2>1, <2>2 DEF Tabled
    <2>4. low \in Nat /\ high \in Nat /\ (i < low \/ i > high)
      BY <1>1 DEF Narrowed
    <2>5. Table!Lower(KeyOf(t, k), KeyOf(t, k))
      BY <2>3, <2>4 DEF Narrowed
    <2> QED
      BY <2>5, KeysAre
  <1> QED
    BY <1>1, <1>2, FirstOfIs

TableFields ==
  [loop : {"table"}, pc : {"add", "find", "done"}, recorded : Recordings,
   track : 1 .. 4, at : Nat \ {0}, ordered : Seq(TableEntry), table : Seq(TableEntry),
   want : Seq(Nat), low : Int, high : Int, result : Int]

(* The sector that is wanted: one of the tracks, and a number.              *)
Wanted(want) == \E t \in 1 .. 3, k \in Numbers : want = KeyOf(t, k)

(* The table so far, and the search in it. *)
TableSwept(r) ==
  /\ r.pc = "add" =>
       /\ Tabled(r.table, r.recorded, r.track)
       /\ r.track = 4 \/ Ordered(r.ordered, r.recorded[r.track], r.track, r.at)
       /\ r.low = 1
  /\ r.pc # "add" => Tabled(r.table, r.recorded, 4) /\ Wanted(r.want)
  /\ r.pc = "find" => Narrowed(r.table, r.want, r.low, r.high)

(* What FindsFirst asks, of the track and the number that are wanted, and   *)
(* of a search that has ended.                                             *)
Finds(t, k, want, rec, tab, x) ==
  LET first == FirstOf(rec[t], k) IN
  IF first = 0 THEN x = -1
  ELSE x \in DOMAIN tab /\ tab[x] = [key |-> want, at |-> first]

Answers(r) ==
  r.pc = "done" =>
    Finds(CHOOSE i \in DOMAIN Table!Track : Table!Track[i] = SubSeq(r.want, 1, 2),
          r.want[3], r.want, r.recorded, r.table, r.result)

LEMMA AnswersIs == Answers(l) => Table!FindsFirst
  BY DEF Table!FindsFirst, Answers, Finds, FirstOf

TableInv == l.loop = "table" => l \in TableFields /\ TableSwept(l) /\ Answers(l)

LEMMA TableGoesOn ==
  ASSUME l' \in TableFields, l'.pc # "done", TableSwept(l')
  PROVE  TableInv'
  BY DEF TableInv, Answers

LEMMA RecordedIs ==
  ASSUME NEW S, NEW a \in Seq(S), NEW b \in Seq(S), NEW c \in Seq(S)
  PROVE  << a, b, c >> \in [1 .. 3 -> Seq(S)]
  OBVIOUS

LEMMA SeqOfIs ==
  ASSUME NEW S, NEW m \in Nat, NEW q \in Table!SeqOf(S, m)
  PROVE  q \in Seq(S)
  <1>1. PICK k \in 0 .. m : q \in [1 .. k -> S]
    BY DEF Table!SeqOf
  <1>2. k \in Nat
    OBVIOUS
  <1> QED
    BY <1>1, <1>2, SequenceIs

LEMMA TableBegins == Table!Init => TableInv
  <1> SUFFICES ASSUME Table!Init PROVE TableInv
    OBVIOUS
  <1>1. PICK first \in Table!SeqOf(Table!SectorId, MaxIds),
             others \in [2 .. 3 -> Table!SeqOf(Table!SectorId, 1)] :
          l = [loop |-> "table", pc |-> "add", recorded |-> <<first, others[2], others[3]>>,
               track |-> 1, at |-> 1, ordered |-> << >>, table |-> << >>,
               want |-> << 0, 0, 0 >>, low |-> 1, high |-> 0, result |-> 0]
    BY DEF Table!Init
  <1>2. others[2] \in Table!SeqOf(Table!SectorId, 1) /\ others[3] \in Table!SeqOf(Table!SectorId, 1)
    OBVIOUS
  <1>3. PICK rec \in Recordings : rec = <<first, others[2], others[3]>>
    <2>1. /\ first \in Seq(Table!SectorId) /\ others[2] \in Seq(Table!SectorId)
          /\ others[3] \in Seq(Table!SectorId)
      BY <1>2, NumbersAre, SeqOfIs
    <2> QED
      BY <2>1, RecordedIs, Zenon DEF Recordings
  <1>4. << >> \in Seq(TableEntry) /\ << 0, 0, 0 >> \in Seq(Nat)
    OBVIOUS
  <1>5. l = [loop |-> "table", pc |-> "add", recorded |-> rec,
             track |-> 1, at |-> 1, ordered |-> << >>, table |-> << >>,
             want |-> << 0, 0, 0 >>, low |-> 1, high |-> 0, result |-> 0]
    BY <1>1, <1>3
  <1>6. l \in TableFields
    <2>1. 1 \in 1 .. 4 /\ 1 \in Nat \ {0} /\ 1 \in Int /\ 0 \in Int
      OBVIOUS
    <2> QED
      BY <1>4, <1>5, <2>1, Zenon DEF TableFields
  <1>7. /\ l.pc = "add" /\ l.recorded = rec /\ l.track = 1 /\ l.at = 1 /\ l.ordered = << >>
        /\ l.table = << >> /\ l.low = 1
    BY <1>5
  <1>8. Tabled(<< >>, rec, 1) /\ Ordered(<< >>, rec[1], 1, 1)
    <2>1. rec[1] \in Seq(Table!SectorId)
      BY DEF Recordings
    <2> QED
      BY <2>1, NoneTabled, NoneOrdered
  <1>9. TableSwept(l)
    BY <1>7, <1>8 DEF TableSwept
  <1> QED
    BY <1>6, <1>7, <1>9 DEF TableInv, Answers

LEMMA IdAdded == ASSUME TableInv, l.loop = "table", Table!AddId PROVE TableInv'
  <1>1. PICK t, at, q, rec : t = l.track /\ at = l.at /\ q = l.ordered /\ rec = l.recorded
    OBVIOUS
  <1>2. /\ l \in TableFields /\ TableSwept(l) /\ l.pc = "add" /\ t \in DOMAIN rec
        /\ at <= Len(rec[t])
    BY <1>1 DEF TableInv, Table!AddId, Table!Adding
  <1>3. /\ rec \in Recordings /\ t \in 1 .. 3 /\ at \in Nat \ {0} /\ q \in Seq(TableEntry)
        /\ rec[t] \in Seq(Table!SectorId)
    <2>1. rec \in Recordings /\ at \in Nat \ {0} /\ q \in Seq(TableEntry)
      BY <1>1, <1>2 DEF TableFields
    <2>2. t \in 1 .. 3
      BY <1>2, <2>1 DEF Recordings
    <2> QED
      BY <2>1, <2>2 DEF Recordings
  <1>4. PICK ids : ids = rec[t]
    OBVIOUS
  <1>5. ids \in Seq(Table!SectorId) /\ at \in 1 .. Len(ids) /\ at + 1 \in Nat \ {0}
    BY <1>2, <1>3, <1>4
  <1>6. Tabled(l.table, rec, t) /\ Ordered(q, ids, t, at) /\ l.low = 1
    BY <1>1, <1>2, <1>3, <1>4 DEF TableSwept
  <1>7. PICK k : k = ids[at].id
    OBVIOUS
  <1>8. k \in Numbers /\ k \in Nat
    BY <1>5, <1>7, CarryingIs
  <1>9. PICK e : e = [key |-> KeyOf(t, k), at |-> at]
    OBVIOUS
  <1>10. Table!Entry = e /\ e.key = KeyOf(t, k) /\ e.key[3] = k
    <2>1. Table!Entry = [key |-> KeyOf(t, k), at |-> at]
      BY <1>1, <1>3, <1>4, <1>7 DEF Table!Entry, KeyOf
    <2>2. e.key = KeyOf(t, k)
      BY <1>9
    <2>3. KeyOf(t, k)[3] = k
      BY <1>3, <1>8, KeysAre
    <2> QED
      BY <1>9, <2>1, <2>2, <2>3
  <1>11. PICK j : j = Table!Before(k)
    OBVIOUS
  <1>12. IsPlace(q, k, j)
    BY <1>1, <1>3, <1>5, <1>6, <1>8, <1>11, BeforeIsPlace
  <1> DEFINE there == j > 0 /\ q[j].key = e.key
             r == IF ~ ids[at].valid \/ there THEN q ELSE Table!InsertAt(q, j + 1, e)
  <1>13. l' = [l EXCEPT !.at = at + 1, !.ordered = r]
    <2>1. l' = [l EXCEPT !.at = @ + 1,
                 !.ordered = IF \/ ~ l.recorded[l.track][l.at].valid
                                \/ j > 0 /\ @[j].key = e.key
                               THEN @
                               ELSE Table!InsertAt(@, j + 1, e)]
      BY <1>10, <1>11 DEF Table!AddId
    <2> QED
      BY <1>1, <1>4, <2>1
  <1>14. Ordered(r, ids, t, at + 1)
    <2>1. CASE ~ ids[at].valid
      <3>1. r = q
        BY <2>1
      <3> QED
        BY <1>3, <1>5, <1>6, <2>1, <3>1, SkippedOrders
    <2>2. CASE there
      <3>1. r = q /\ j \in 1 .. Len(q)
        BY <1>12, <2>2 DEF IsPlace
      <3>2. \E i \in 1 .. Len(q) : q[i].key = KeyOf(t, ids[at].id)
        BY <1>7, <1>10, <2>2, <3>1
      <3> QED
        BY <1>3, <1>5, <1>6, <3>1, <3>2, SkippedOrders
    <2>3. CASE ids[at].valid /\ ~ there
      <3>1. r = Table!InsertAt(q, j + 1, e)
        BY <2>3
      <3> QED
        BY <1>3, <1>5, <1>6, <1>7, <1>9, <1>12, <2>3, <3>1, InsertedOrders
    <2> QED
      BY <2>1, <2>2, <2>3
  <1> HIDE DEF r
  <1>15. r \in Seq(TableEntry)
    BY <1>14 DEF Ordered
  <1>16. l' \in TableFields
    BY <1>2, <1>5, <1>13, <1>15 DEF TableFields
  <1>17. /\ l'.pc = "add" /\ l'.recorded = rec /\ l'.track = t /\ l'.at = at + 1
         /\ l'.ordered = r /\ l'.table = l.table /\ l'.low = 1
    BY <1>1, <1>2, <1>6, <1>13 DEF TableFields
  <1>18. TableSwept(l')
    BY <1>4, <1>6, <1>14, <1>17 DEF TableSwept
  <1> QED
    BY <1>16, <1>17, <1>18, TableGoesOn

LEMMA TrackEnded == ASSUME TableInv, l.loop = "table", Table!EndTrack PROVE TableInv'
  <1>1. PICK t, rec : t = l.track /\ rec = l.recorded
    OBVIOUS
  <1>2. /\ l \in TableFields /\ TableSwept(l) /\ l.pc = "add" /\ t \in DOMAIN rec
        /\ ~ l.at <= Len(rec[t])
        /\ l' = [l EXCEPT !.track = t + 1, !.at = 1, !.ordered = << >>,
                          !.table = l.table \o l.ordered]
    BY <1>1 DEF TableInv, Table!EndTrack, Table!Adding
  <1>3. /\ rec \in Recordings /\ t \in 1 .. 3 /\ l.at \in Nat /\ l.table \in Seq(TableEntry)
        /\ l.ordered \in Seq(TableEntry) /\ rec[t] \in Seq(Table!SectorId)
    <2>1. rec \in Recordings /\ l.at \in Nat /\ l.table \in Seq(TableEntry)
          /\ l.ordered \in Seq(TableEntry)
      BY <1>1, <1>2 DEF TableFields
    <2>2. t \in 1 .. 3
      BY <1>2, <2>1 DEF Recordings
    <2> QED
      BY <2>1, <2>2 DEF Recordings
  <1>4. Tabled(l.table, rec, t) /\ Ordered(l.ordered, rec[t], t, l.at) /\ l.low = 1
    BY <1>1, <1>2, <1>3 DEF TableSwept
  <1>5. PICK tab : tab = l.table \o l.ordered
    OBVIOUS
  <1>6. l.at > Len(rec[t])
    BY <1>2, <1>3
  <1>7. Tabled(tab, rec, t + 1)
    BY <1>3, <1>4, <1>5, <1>6, TrackTabled
  <1>8. t + 1 \in 1 .. 4 /\ 1 \in Nat \ {0} /\ << >> \in Seq(TableEntry) /\ tab \in Seq(TableEntry)
    BY <1>3, <1>7 DEF Tabled
  <1>9. l' = [l EXCEPT !.track = t + 1, !.at = 1, !.ordered = << >>, !.table = tab]
    BY <1>2, <1>5
  <1>10. l' \in TableFields
    BY <1>2, <1>8, <1>9 DEF TableFields
  <1>11. /\ l'.pc = "add" /\ l'.recorded = rec /\ l'.track = t + 1 /\ l'.at = 1
         /\ l'.ordered = << >> /\ l'.table = tab /\ l'.low = 1
    BY <1>1, <1>2, <1>4, <1>9 DEF TableFields
  <1>12. t + 1 = 4 \/ Ordered(<< >>, rec[t + 1], t + 1, 1)
    <2>1. t + 1 # 4 => t + 1 \in 1 .. 3
      BY <1>3
    <2>2. t + 1 \in 1 .. 3 => rec[t + 1] \in Seq(Table!SectorId)
      BY <1>3 DEF Recordings
    <2> QED
      BY <2>1, <2>2, NoneOrdered
  <1>13. TableSwept(l')
    BY <1>7, <1>11, <1>12 DEF TableSwept
  <1> QED
    BY <1>10, <1>11, <1>13, TableGoesOn

LEMMA FindBegun == ASSUME TableInv, l.loop = "table", Table!BeginFind PROVE TableInv'
  <1>1. /\ l \in TableFields /\ TableSwept(l) /\ l.pc = "add" /\ l.track \notin DOMAIN l.recorded
    BY DEF TableInv, Table!BeginFind
  <1>2. /\ l.recorded \in Recordings /\ l.track \in 1 .. 4 /\ l.table \in Seq(TableEntry)
    BY <1>1 DEF TableFields
  <1>3. l.track = 4
    BY <1>1, <1>2 DEF Recordings
  <1>4. Tabled(l.table, l.recorded, 4) /\ l.low = 1
    BY <1>1, <1>3 DEF TableSwept
  <1>5. PICK t \in DOMAIN Table!Track, k \in Numbers :
          l' = [l EXCEPT !.pc = "find", !.want = KeyOf(t, k), !.high = Len(l.table)]
    BY DEF Table!BeginFind, KeyOf
  <1>6. t \in 1 .. 3 /\ k \in Nat
    BY NumbersAre DEF Table!Track
  <1>7. KeyOf(t, k) \in Seq(Nat) /\ Len(l.table) \in Int
    <2>1. KeyOf(t, k) \in Seq(Nat)
      BY <1>6, KeyIsNumbers
    <2>2. Len(l.table) \in Int
      BY <1>2
    <2> QED
      BY <2>1, <2>2
  <1>8. l' \in TableFields
    BY <1>1, <1>5, <1>7 DEF TableFields
  <1>9. /\ l'.pc = "find" /\ l'.recorded = l.recorded /\ l'.table = l.table /\ l'.low = 1
        /\ l'.want = KeyOf(t, k) /\ l'.high = Len(l.table)
    BY <1>1, <1>4, <1>5 DEF TableFields
  <1>10. Wanted(KeyOf(t, k)) /\ Narrowed(l.table, KeyOf(t, k), 1, Len(l.table))
    BY <1>2, <1>6, FindBegins DEF Wanted
  <1>11. TableSwept(l')
    BY <1>4, <1>9, <1>10 DEF TableSwept
  <1> QED
    BY <1>8, <1>9, <1>11, TableGoesOn

(* The track and the number of a key. *)
LEMMA TrackOfKey ==
  ASSUME NEW t \in 1 .. 3, NEW k \in Nat
  PROVE  /\ (CHOOSE i \in DOMAIN Table!Track : Table!Track[i] = SubSeq(KeyOf(t, k), 1, 2)) = t
         /\ KeyOf(t, k)[3] = k
  <1> DEFINE c == IF t = 3 THEN 1 ELSE 0
             h == IF t = 2 THEN 1 ELSE 0
  <1>1. PICK q \in Seq(Nat) : q = KeyOf(t, k) /\ Len(q) = 3 /\ q[1] = c /\ q[2] = h /\ q[3] = k
    <2>1. << c, h, k >> \in Seq(Nat) /\ Len(<< c, h, k >>) = 3
          /\ << c, h, k >>[1] = c /\ << c, h, k >>[2] = h /\ << c, h, k >>[3] = k
      OBVIOUS
    <2> QED
      BY <2>1, KeyIs, Zenon
  <1>2. PICK p \in Seq(Nat) : p = SubSeq(q, 1, 2) /\ Len(p) = 2 /\ p[1] = c /\ p[2] = h
    <2>1. SubSeq(q, 1, 2) \in Seq(Nat) /\ Len(SubSeq(q, 1, 2)) = 2
          /\ SubSeq(q, 1, 2)[1] = q[1] /\ SubSeq(q, 1, 2)[2] = q[2]
      BY <1>1
    <2> QED
      BY <1>1, <2>1, Zenon
  <1>3. DOMAIN Table!Track = 1 .. 3
    BY DEF Table!Track
  <1>4. ASSUME NEW i \in 1 .. 3
        PROVE  /\ Table!Track[i] \in Seq(Nat) /\ Len(Table!Track[i]) = 2
               /\ Table!Track[i][1] = (IF i = 3 THEN 1 ELSE 0)
               /\ Table!Track[i][2] = (IF i = 2 THEN 1 ELSE 0)
    <2>1. i = 1 \/ i = 2 \/ i = 3
      OBVIOUS
    <2>2. /\ Table!Track[1] = << 0, 0 >> /\ Table!Track[2] = << 0, 1 >>
          /\ Table!Track[3] = << 1, 0 >>
      BY DEF Table!Track
    <2>3. PICK a, b, d : a = << 0, 0 >> /\ b = << 0, 1 >> /\ d = << 1, 0 >>
      OBVIOUS
    <2>7. /\ a \in Seq(Nat) /\ b \in Seq(Nat) /\ d \in Seq(Nat)
          /\ Len(a) = 2 /\ Len(b) = 2 /\ Len(d) = 2
          /\ a[1] = 0 /\ a[2] = 0 /\ b[1] = 0 /\ b[2] = 1 /\ d[1] = 1 /\ d[2] = 0
      BY ONLY <2>3
    <2>8. Table!Track[1] = a /\ Table!Track[2] = b /\ Table!Track[3] = d
      BY ONLY <2>2, <2>3
    <2>4. CASE i = 1
      BY ONLY <2>7, <2>8, <2>4
    <2>5. CASE i = 2
      BY ONLY <2>7, <2>8, <2>5
    <2>6. CASE i = 3
      BY ONLY <2>7, <2>8, <2>6
    <2> QED
      BY <2>1, <2>4, <2>5, <2>6
  <1>5. Table!Track[t] = p
    <2>1. PICK y \in Seq(Nat) : y = Table!Track[t] /\ Len(y) = 2 /\ y[1] = c /\ y[2] = h
      BY <1>4
    <2>2. \A i \in 1 .. Len(y) : y[i] = p[i]
      <3>1. \A i \in 1 .. 2 : i = 1 \/ i = 2
        OBVIOUS
      <3> QED
        BY <1>2, <2>1, <3>1
    <2>3. Len(y) = Len(p)
      BY <1>2, <2>1
    <2>4. y = p
      BY <2>2, <2>3, SeqEqual
    <2> QED
      BY <2>1, <2>4
  <1>6. ASSUME NEW i \in 1 .. 3, Table!Track[i] = p PROVE i = t
    BY <1>2, <1>4, <1>6
  <1> QED
    BY <1>1, <1>2, <1>3, <1>5, <1>6

LEMMA TableDone ==
  ASSUME l \in TableFields, TableSwept(l), l.pc = "find", NEW x \in Int,
         l' = [l EXCEPT !.pc = "done", !.result = x],
         NEW t \in 1 .. 3, NEW k \in Nat, l.want = KeyOf(t, k),
         Finds(t, k, l.want, l.recorded, l.table, x)
  PROVE  TableInv'
  <1>1. l' \in TableFields
    BY DEF TableFields
  <1>2. /\ l'.pc = "done" /\ l'.recorded = l.recorded /\ l'.table = l.table
        /\ l'.want = l.want /\ l'.result = x
    BY DEF TableFields
  <1>3. TableSwept(l')
    BY <1>2 DEF TableSwept
  <1>4. /\ (CHOOSE i \in DOMAIN Table!Track : Table!Track[i] = SubSeq(l'.want, 1, 2)) = t
        /\ l'.want[3] = k
    BY <1>2, TrackOfKey
  <1>5. Answers(l')
    BY <1>2, <1>4 DEF Answers
  <1> QED
    BY <1>1, <1>3, <1>5 DEF TableInv

LEMMA Searching ==
  ASSUME TableInv, l.loop = "table", l.pc = "find"
  PROVE  /\ l \in TableFields /\ TableSwept(l) /\ l.recorded \in Recordings
         /\ Tabled(l.table, l.recorded, 4) /\ Wanted(l.want)
         /\ Narrowed(l.table, l.want, l.low, l.high)
  <1>1. l \in TableFields /\ TableSwept(l)
    BY DEF TableInv
  <1> QED
    BY <1>1 DEF TableFields, TableSwept

LEMMA LookFinds == ASSUME TableInv, l.loop = "table", Table!Look PROVE TableInv'
  <1>1. PICK m, key : m = l.low + (l.high - l.low) \div 2 /\ key = l.table[m].key
    OBVIOUS
  <1>2. /\ l.pc = "find" /\ l.low <= l.high
        /\ l' = IF key = l.want THEN [l EXCEPT !.pc = "done", !.result = m]
                ELSE IF Table!Lower(key, l.want) THEN [l EXCEPT !.low = m + 1]
                ELSE [l EXCEPT !.high = m - 1]
    BY <1>1 DEF Table!Look
  <1>3. /\ l \in TableFields /\ TableSwept(l) /\ l.recorded \in Recordings
        /\ Tabled(l.table, l.recorded, 4) /\ Wanted(l.want)
        /\ Narrowed(l.table, l.want, l.low, l.high)
    BY <1>2, Searching
  <1>4. PICK t \in 1 .. 3, k \in Nat : l.want = KeyOf(t, k)
    BY <1>3, NumbersAre DEF Wanted
  <1>5. /\ m \in 1 .. Len(l.table)
        /\ key # l.want /\ Table!Lower(key, l.want) => Narrowed(l.table, l.want, m + 1, l.high)
        /\ key # l.want /\ ~ Table!Lower(key, l.want) => Narrowed(l.table, l.want, l.low, m - 1)
    BY <1>1, <1>2, <1>3, <1>4, LookNarrows
  <1>6. m \in Int /\ m + 1 \in Int /\ m - 1 \in Int /\ l.low \in Int /\ l.high \in Int
    BY <1>3, <1>5 DEF TableFields
  <1>7. CASE key = l.want
    <2>1. l' = [l EXCEPT !.pc = "done", !.result = m]
      BY <1>2, <1>7
    <2>2. /\ FirstOf(l.recorded[t], k) # 0
          /\ l.table[m] = [key |-> l.want, at |-> FirstOf(l.recorded[t], k)]
      <3>1. PICK tab, rec : tab = l.table /\ rec = l.recorded
        OBVIOUS
      <3>2. /\ rec \in Recordings /\ Tabled(tab, rec, 4) /\ m \in 1 .. Len(tab)
            /\ tab[m].key = KeyOf(t, k)
        BY <1>1, <1>3, <1>4, <1>5, <1>7, <3>1
      <3>3. FirstOf(rec[t], k) # 0 /\ tab[m] = [key |-> KeyOf(t, k), at |-> FirstOf(rec[t], k)]
        BY ONLY <3>2, FoundIsFirst, t \in 1 .. 3, k \in Nat
      <3> QED
        BY <1>4, <3>1, <3>3
    <2>3. m \in DOMAIN l.table
      BY <1>3, <1>5 DEF Tabled
    <2>4. Finds(t, k, l.want, l.recorded, l.table, m)
      BY <2>2, <2>3 DEF Finds
    <2> QED
      BY <1>2, <1>3, <1>4, <1>6, <2>1, <2>4, TableDone
  <1>8. CASE key # l.want /\ Table!Lower(key, l.want)
    <2>1. l' = [l EXCEPT !.low = m + 1] /\ Narrowed(l.table, l.want, m + 1, l.high)
      BY <1>2, <1>5, <1>8
    <2>2. /\ l' \in TableFields /\ l'.pc = "find" /\ l'.recorded = l.recorded
          /\ l'.table = l.table /\ l'.want = l.want /\ l'.low = m + 1 /\ l'.high = l.high
      BY <1>2, <1>3, <1>6, <2>1 DEF TableFields
    <2>3. TableSwept(l')
      BY <1>3, <2>1, <2>2 DEF TableSwept
    <2> QED
      BY <2>2, <2>3, TableGoesOn
  <1>9. CASE key # l.want /\ ~ Table!Lower(key, l.want)
    <2>1. l' = [l EXCEPT !.high = m - 1] /\ Narrowed(l.table, l.want, l.low, m - 1)
      BY <1>2, <1>5, <1>9
    <2>2. /\ l' \in TableFields /\ l'.pc = "find" /\ l'.recorded = l.recorded
          /\ l'.table = l.table /\ l'.want = l.want /\ l'.low = l.low /\ l'.high = m - 1
      BY <1>2, <1>3, <1>6, <2>1 DEF TableFields
    <2>3. TableSwept(l')
      BY <1>3, <2>1, <2>2 DEF TableSwept
    <2> QED
      BY <2>2, <2>3, TableGoesOn
  <1> QED
    BY <1>7, <1>8, <1>9

LEMMA NothingFound == ASSUME TableInv, l.loop = "table", Table!NotThere PROVE TableInv'
  <1>1. l.pc = "find" /\ l.low > l.high /\ l' = [l EXCEPT !.pc = "done", !.result = -1]
    BY DEF Table!NotThere
  <1>2. /\ l \in TableFields /\ TableSwept(l) /\ l.recorded \in Recordings
        /\ Tabled(l.table, l.recorded, 4) /\ Wanted(l.want)
        /\ Narrowed(l.table, l.want, l.low, l.high)
    BY <1>1, Searching
  <1>3. PICK t \in 1 .. 3, k \in Nat : l.want = KeyOf(t, k)
    BY <1>2, NumbersAre DEF Wanted
  <1>4. FirstOf(l.recorded[t], k) = 0
    BY <1>1, <1>2, <1>3, NotFoundIsNone
  <1>5. Finds(t, k, l.want, l.recorded, l.table, -1)
    BY <1>4 DEF Finds
  <1>6. -1 \in Int
    OBVIOUS
  <1> QED
    BY <1>1, <1>2, <1>3, <1>5, <1>6, TableDone

(* di_table_find finds a sector by its number if a valid ID on its track     *)
(* carries it, and it is the first such ID: for every set of numbers, every *)
(* recording of the tracks, in whatever order, and every number wanted.     *)
THEOREM SectorIsFound == Spec => []SectorFound
  <1>1. Init => HasLoop /\ TableInv
    <2> SUFFICES ASSUME Init PROVE TableInv
      BY LoopBegins DEF Init
    <2>1. CASE Table!Init
      BY <2>1, TableBegins
    <2>2. CASE l.loop # "table"
      BY <2>2 DEF TableInv
    <2> QED
      BY <2>1, <2>2, LoopBegins DEF Init
  <1>2. HasLoop /\ TableInv /\ [Next]_vars => (HasLoop /\ TableInv)'
    <2> SUFFICES ASSUME HasLoop, TableInv, [Next]_vars PROVE TableInv'
      BY LoopStays
    <2>1. CASE l.loop = "table" /\ Table!Next
      BY <2>1, IdAdded, TrackEnded, FindBegun, LookFinds, NothingFound DEF Table!Next
    <2>2. CASE UNCHANGED l
      BY <2>2 DEF TableInv
    <2>3. CASE l.loop # "table"
      BY <2>3, LoopStays DEF TableInv
    <2> QED
      BY <2>1, <2>2, <2>3, LoopStays
  <1>3. TableInv => SectorFound
    BY AnswersIs DEF TableInv, SectorFound
  <1> QED
    BY <1>1, <1>2, <1>3, PTL DEF Spec

-----------------------------------------------------------------------------
(* _os9_read, _os9_readln, _decb_read and the others *)

LEMMA ReadsAre ==
  /\ FileBps \in Nat \ {0} /\ FileSpg \in Nat \ {0} /\ NumSegs \in Nat
  /\ SegSizes \subseteq Nat \ {0} /\ Asked \subseteq Nat \ {0}
  BY GroundAssumption

-----------------------------------------------------------------------------
(* The bytes of a file *)

Address == Nat \X Nat

(* Joined[k] is what the first k of the m pieces p are, put together. *)
Joins(joined, p, m) ==
  /\ joined \in [0 .. m -> Seq(Address)] /\ joined[0] = << >>
  /\ \A k \in 1 .. m : joined[k] = joined[k - 1] \o p[k]

LEMMA JoinsExist ==
  ASSUME NEW m \in Nat, NEW p \in [1 .. m -> Seq(Address)]
  PROVE  \E joined : Joins(joined, p, m)
  <1> DEFINE N == { u \in Nat : u <= m => \E joined : Joins(joined, p, u) }
  <1>1. 0 \in N
    <2>1. Joins([k \in 0 .. 0 |-> << >>], p, 0)
      <3>1. << >> \in Seq(Address) /\ 1 .. 0 = {} /\ 0 \in 0 .. 0
        OBVIOUS
      <3> QED
        BY <3>1 DEF Joins
    <2> QED
      BY <2>1
  <1>2. ASSUME NEW u \in Nat, u \in N PROVE u + 1 \in N
    <2> SUFFICES ASSUME u + 1 <= m PROVE \E joined : Joins(joined, p, u + 1)
      OBVIOUS
    <2>1. PICK j : Joins(j, p, u)
      BY <1>2
    <2> DEFINE g == [k \in 0 .. (u + 1) |-> IF k = u + 1 THEN j[u] \o p[u + 1] ELSE j[k]]
    <2>2. p[u + 1] \in Seq(Address) /\ j[u] \in Seq(Address) /\ \A k \in 0 .. u : j[k] \in Seq(Address)
      <3>1. u + 1 \in 1 .. m /\ u \in 0 .. u
        OBVIOUS
      <3>2. j \in [0 .. u -> Seq(Address)]
        BY <2>1 DEF Joins
      <3> QED
        BY <3>1, <3>2
    <2>3. j[u] \o p[u + 1] \in Seq(Address)
      BY <2>2, AppendedIs
    <2>4. g \in [0 .. (u + 1) -> Seq(Address)]
      BY <2>2, <2>3
    <2>5. g[0] = << >>
      BY <2>1 DEF Joins
    <2>6. ASSUME NEW k \in 1 .. (u + 1) PROVE g[k] = g[k - 1] \o p[k]
      <3>1. CASE k = u + 1
        <4>1. k - 1 = u /\ k - 1 \in 0 .. (u + 1) /\ k - 1 # u + 1 /\ k \in 0 .. (u + 1)
          BY <3>1
        <4> QED
          BY <3>1, <4>1
      <3>2. CASE k # u + 1
        <4>1. k \in 1 .. u /\ k \in 0 .. (u + 1) /\ k - 1 \in 0 .. (u + 1) /\ k - 1 # u + 1
          BY <3>2
        <4> QED
          BY <2>1, <3>2, <4>1 DEF Joins
      <3> QED
        BY <3>1, <3>2
    <2> HIDE DEF g
    <2> QED
      BY <2>4, <2>5, <2>6 DEF Joins
  <1> HIDE DEF N
  <1>3. m \in N
    BY <1>1, <1>2, AllNumbers
  <1> QED
    BY <1>3 DEF N

LEMMA FlattenIs ==
  ASSUME NEW m \in Nat, NEW p \in [1 .. m -> Seq(Address)], NEW joined, Joins(joined, p, m)
  PROVE  Reading!FlattenSeq(p) = joined[m]
  <1>1. joined[0] = << >> /\ \A k \in 1 .. m : joined[k] = joined[k - 1] \o p[k]
    BY DEF Joins
  <1>2. Len(p) = m
    OBVIOUS
  <1>3. CASE m = 0
    <2>1. p = << >>
      BY <1>3
    <2> QED
      BY <1>1, <1>2, <1>3, <2>1 DEF Reading!FlattenSeq
  <1>4. CASE m # 0
    <2> DEFINE g == [k \in 1 .. m |-> joined[k]]
               Rule(h) == h = [k \in 1 .. m |-> IF k = 1 THEN p[k] ELSE h[k - 1] \o p[k]]
    <2>1. 1 \in 1 .. m /\ m \in 1 .. m
      BY <1>4
    <2>2. joined[1] = p[1]
      <3>1. PICK k \in 1 .. m : k = 1 /\ k - 1 = 0
        BY <2>1
      <3>2. joined[k] = << >> \o p[k] /\ p[k] \in Seq(Address)
        BY <1>1, <3>1
      <3>3. << >> \o p[k] = p[k]
        BY <3>2, ConcatEmptySeq
      <3> QED
        BY <3>1, <3>2, <3>3
    <2>3. ASSUME NEW k \in 1 .. m PROVE g[k] = IF k = 1 THEN p[k] ELSE g[k - 1] \o p[k]
      <3>1. CASE k = 1
        BY <2>1, <2>2, <3>1
      <3>2. CASE k # 1
        <4>1. k - 1 \in 1 .. m
          BY <3>2
        <4> QED
          BY <1>1, <3>2, <4>1
      <3> QED
        BY <3>1, <3>2
    <2>4. Rule(g)
      BY <2>3
    <2> HIDE DEF g
    <2>5. PICK h : Rule(h) /\ Reading!FlattenSeq(p) = h[m]
      <3>1. \E h : h = [k \in 1 .. Len(p) |-> IF k = 1 THEN p[k] ELSE h[k - 1] \o p[k]]
        BY <1>2, <2>4
      <3>2. \E h : /\ h = [k \in 1 .. Len(p) |-> IF k = 1 THEN p[k] ELSE h[k - 1] \o p[k]]
                   /\ Reading!FlattenSeq(p) = h[Len(p)]
        BY <1>2, <1>4, <3>1 DEF Reading!FlattenSeq
      <3> QED
        BY <1>2, <3>2
    <2> DEFINE N == { k \in Nat : k \in 1 .. m => h[k] = joined[k] }
    <2>6. 0 \in N
      OBVIOUS
    <2>7. ASSUME NEW k \in Nat, k \in N PROVE k + 1 \in N
      <3> SUFFICES ASSUME k + 1 \in 1 .. m PROVE h[k + 1] = joined[k + 1]
        OBVIOUS
      <3>1. h[k + 1] = IF k + 1 = 1 THEN p[k + 1] ELSE h[(k + 1) - 1] \o p[k + 1]
        BY <2>5
      <3>2. CASE k = 0
        BY <2>2, <3>1, <3>2
      <3>3. CASE k # 0
        <4>1. k \in 1 .. m /\ (k + 1) - 1 = k /\ k + 1 # 1
          BY <3>3
        <4>2. h[k] = joined[k]
          BY <2>7, <4>1
        <4>3. joined[k + 1] = joined[(k + 1) - 1] \o p[k + 1]
          BY <1>1
        <4> QED
          BY <3>1, <4>1, <4>2, <4>3
      <3> QED
        BY <3>2, <3>3
    <2> HIDE DEF N
    <2>8. m \in N
      BY <2>6, <2>7, AllNumbers
    <2> QED
      BY <2>1, <2>5, <2>8 DEF N
  <1> QED
    BY <1>3, <1>4

(* f[k] is where segment k ends in the file, and all its bytes in order.    *)
Laid(seg, f, all) ==
  /\ f \in [0 .. Len(seg) -> Nat] /\ f[0] = 0
  /\ \A k \in 1 .. Len(seg) : f[k] = f[k - 1] + Reading!Length(seg, k)
  /\ all \in Seq(Address) /\ Len(all) = f[Len(seg)]
  /\ \A k \in 1 .. Len(seg) : \A o \in 1 .. Reading!Length(seg, k) :
       f[k - 1] + o \in 1 .. Len(all) /\ all[f[k - 1] + o] = << k, o - 1 >>

Piece(seg, k) == [o \in 1 .. Reading!Length(seg, k) |-> << k, o - 1 >>]

LEMMA LengthIsNat ==
  ASSUME NEW seg \in Seq(Nat), NEW k \in 1 .. Len(seg)
  PROVE  Reading!Length(seg, k) \in Nat
  <1>1. seg[k] \in Nat /\ FileBps \in Nat
    BY ReadsAre
  <1> QED
    BY <1>1 DEF Reading!Length

LEMMA PieceIs ==
  ASSUME NEW seg \in Seq(Nat), NEW k \in 1 .. Len(seg)
  PROVE  /\ Piece(seg, k) \in Seq(Address) /\ Len(Piece(seg, k)) = Reading!Length(seg, k)
         /\ \A o \in 1 .. Reading!Length(seg, k) : Piece(seg, k)[o] = << k, o - 1 >>
  <1>1. PICK u \in Nat : u = Reading!Length(seg, k)
    BY LengthIsNat
  <1>2. \A o \in 1 .. u : << k, o - 1 >> \in Address
    BY DEF Address
  <1>3. Piece(seg, k) \in [1 .. u -> Address]
    BY <1>1, <1>2 DEF Piece
  <1>4. Piece(seg, k) \in Seq(Address)
    BY <1>3, SequenceIs
  <1> QED
    BY <1>1, <1>3, <1>4 DEF Piece

(* What the first j of seg's pieces hold. *)
Holds(seg, joined, j) ==
  \A k \in 1 .. j : \A o \in 1 .. Reading!Length(seg, k) :
    /\ Len(joined[k - 1]) + o \in 1 .. Len(joined[j])
    /\ joined[j][Len(joined[k - 1]) + o] = << k, o - 1 >>

LEMMA HoldsNext ==
  ASSUME NEW seg \in Seq(Nat), NEW j \in Nat, j + 1 <= Len(seg), NEW joined, NEW p,
         p = [k \in 1 .. Len(seg) |-> Piece(seg, k)], Joins(joined, p, Len(seg)),
         Holds(seg, joined, j)
  PROVE  Holds(seg, joined, j + 1)
  <1>1. /\ j + 1 \in 1 .. Len(seg) /\ (j + 1) - 1 = j /\ j \in 0 .. Len(seg)
        /\ j + 1 \in 0 .. Len(seg) /\ Len(seg) \in Nat
    OBVIOUS
  <1>2. \A k \in 0 .. Len(seg) : joined[k] \in Seq(Address)
    BY DEF Joins
  <1>3. PICK a \in Seq(Address), b \in Seq(Address) :
          a = joined[j] /\ b = Piece(seg, j + 1)
    BY <1>1, <1>2, PieceIs
  <1>4. joined[j + 1] = a \o b
    <2>1. joined[j + 1] = joined[(j + 1) - 1] \o p[j + 1]
      BY <1>1 DEF Joins
    <2> QED
      BY <1>1, <1>3, <2>1
  <1>5. PICK c : c = joined[j + 1]
    OBVIOUS
  <1>6. /\ Len(c) = Len(a) + Len(b) /\ \A i \in 1 .. Len(a) : c[i] = a[i]
        /\ \A i \in 1 .. Len(b) : c[Len(a) + i] = b[i]
    BY <1>4, <1>5, AppendedIs
  <1>7. Len(a) \in Nat /\ Len(b) \in Nat
    OBVIOUS
  <1> SUFFICES ASSUME NEW k \in 1 .. (j + 1), NEW o \in 1 .. Reading!Length(seg, k)
               PROVE  /\ Len(joined[k - 1]) + o \in 1 .. Len(c)
                      /\ c[Len(joined[k - 1]) + o] = << k, o - 1 >>
    BY <1>5 DEF Holds
  <1>8. k \in 1 .. Len(seg)
    BY <1>1
  <1>9. CASE k = j + 1
    <2>1. joined[k - 1] = a
      BY <1>1, <1>3, <1>9
    <2>2. Len(b) = Reading!Length(seg, k) /\ b[o] = << k, o - 1 >>
      BY <1>3, <1>8, <1>9, PieceIs
    <2> QED
      BY <1>6, <1>7, <2>1, <2>2
  <1>10. CASE k # j + 1
    <2>1. k \in 1 .. j /\ k - 1 \in 0 .. Len(seg)
      BY <1>8, <1>10
    <2>2. PICK i : i = Len(joined[k - 1]) + o
      OBVIOUS
    <2>3. i \in 1 .. Len(a) /\ a[i] = << k, o - 1 >>
      BY <1>3, <2>1, <2>2 DEF Holds
    <2>4. c[i] = << k, o - 1 >>
      BY <1>6, <2>3
    <2>5. Len(c) = Len(a) + Len(b)
      BY <1>6
    <2>6. i \in 1 .. Len(c)
      BY ONLY <1>7, <2>3, <2>5
    <2> QED
      BY <2>2, <2>4, <2>6
  <1> QED
    BY <1>9, <1>10

LEMMA FileBytesAre ==
  ASSUME NEW seg \in Seq(Nat)
  PROVE  \E f : Laid(seg, f, Reading!Bytes(seg))
  <1>1. PICK m \in Nat : m = Len(seg)
    OBVIOUS
  <1>2. PICK p : p = [k \in 1 .. m |-> Piece(seg, k)]
    OBVIOUS
  <1>3. p \in [1 .. m -> Seq(Address)]
    BY <1>1, <1>2, PieceIs
  <1>4. PICK joined : Joins(joined, p, m)
    BY <1>3, JoinsExist
  <1>5. Reading!Bytes(seg) = joined[m]
    <2>1. DOMAIN seg = 1 .. m
      BY <1>1
    <2>2. Reading!Bytes(seg) = Reading!FlattenSeq(p)
      BY <1>2, <2>1 DEF Reading!Bytes, Piece
    <2> QED
      BY <1>3, <1>4, <2>2, FlattenIs
  <1>6. \A k \in 0 .. m : joined[k] \in Seq(Address) /\ Len(joined[k]) \in Nat
    BY <1>4 DEF Joins
  <1>7. PICK f : f = [k \in 0 .. m |-> Len(joined[k])]
    OBVIOUS
  <1>8. f \in [0 .. m -> Nat] /\ f[0] = 0
    <2>1. joined[0] = << >> /\ 0 \in 0 .. m
      BY <1>4 DEF Joins
    <2> QED
      BY <1>6, <1>7, <2>1
  <1>9. ASSUME NEW k \in 1 .. m PROVE f[k] = f[k - 1] + Reading!Length(seg, k)
    <2>1. k - 1 \in 0 .. m /\ k \in 0 .. m /\ k \in 1 .. Len(seg)
      BY <1>1
    <2>2. joined[k] = joined[k - 1] \o Piece(seg, k)
      BY <1>2, <1>4 DEF Joins
    <2>3. Len(joined[k]) = Len(joined[k - 1]) + Len(Piece(seg, k))
      BY <1>6, <2>1, <2>2, PieceIs, AppendedIs
    <2> QED
      BY <1>7, <2>1, <2>3, PieceIs
  <1>10. Holds(seg, joined, m)
    <2> DEFINE N == { u \in Nat : u <= m => Holds(seg, joined, u) }
    <2>1. 0 \in N
      BY DEF Holds
    <2>2. ASSUME NEW u \in Nat, u \in N PROVE u + 1 \in N
      <3> SUFFICES ASSUME u + 1 <= m PROVE Holds(seg, joined, u + 1)
        OBVIOUS
      <3>1. Holds(seg, joined, u)
        BY <2>2
      <3> QED
        BY <1>1, <1>2, <1>4, <3>1, HoldsNext
    <2> HIDE DEF N
    <2>3. m \in N
      BY <2>1, <2>2, AllNumbers
    <2> QED
      BY <2>3 DEF N
  <1>11. m \in 0 .. m /\ joined[m] \in Seq(Address) /\ Len(joined[m]) = f[m]
    BY <1>6, <1>7
  <1>12. ASSUME NEW k \in 1 .. m, NEW o \in 1 .. Reading!Length(seg, k)
         PROVE  f[k - 1] + o \in 1 .. Len(joined[m]) /\ joined[m][f[k - 1] + o] = << k, o - 1 >>
    <2>1. k - 1 \in 0 .. m
      OBVIOUS
    <2> QED
      BY <1>7, <1>10, <2>1 DEF Holds
  <1>13. Laid(seg, f, joined[m])
    BY <1>1, <1>8, <1>9, <1>11, <1>12 DEF Laid
  <1> QED
    BY <1>5, <1>13

-----------------------------------------------------------------------------
(* The line a readln wants *)

(* e is the first of the addresses c that has a line's end, or 0. *)
EndsAt(c, eols, e) ==
  \/ e = 0 /\ \A i \in 1 .. Len(c) : c[i] \notin eols
  \/ e \in 1 .. Len(c) /\ c[e] \in eols /\ \A i \in 1 .. (e - 1) : c[i] \notin eols

FirstEnd(c, eols) == Reading!SelectInSeq(c, LAMBDA b : b \in eols)

LEMMA SelectedIs ==
  ASSUME NEW c \in Seq(Address), NEW eols
  PROVE  EndsAt(c, eols, FirstEnd(c, eols))
  <1> DEFINE I == { i \in 1 .. Len(c) : c[i] \in eols }
  <1>1. FirstEnd(c, eols) = IF I # {} THEN Reading!Min(I) ELSE 0
    BY DEF FirstEnd, Reading!SelectInSeq
  <1>2. CASE I = {}
    BY <1>1, <1>2 DEF EndsAt
  <1>3. CASE I # {}
    <2>1. I \in SUBSET Nat
      OBVIOUS
    <2>2. PICK x \in I : \A y \in I : x <= y
      <3> HIDE DEF I
      <3> QED
        BY <1>3, <2>1, LeastNumber
    <2>3. Reading!Min(I) \in I /\ \A y \in I : Reading!Min(I) <= y
      <3> HIDE DEF I
      <3> QED
        BY <2>2 DEF Reading!Min
    <2>4. PICK e : e = Reading!Min(I)
      OBVIOUS
    <2>5. e \in 1 .. Len(c) /\ c[e] \in eols /\ Len(c) \in Nat
      BY <2>3, <2>4
    <2>6. ASSUME NEW i \in 1 .. (e - 1) PROVE c[i] \notin eols
      <3>1. i \in 1 .. Len(c) /\ ~ (e <= i)
        BY <2>5
      <3> QED
        BY <2>3, <2>4, <3>1
    <2> QED
      BY <1>1, <1>3, <2>4, <2>5, <2>6 DEF EndsAt
  <1> QED
    BY <1>2, <1>3

(* What has been read, of the file's bytes all from start on. *)
ReadSo(got, all, start, at) ==
  /\ got \in Seq(Address) /\ start \in Nat /\ at \in Nat /\ at = start + Len(got)
  /\ \A i \in 1 .. Len(got) : start + i \in 1 .. Len(all) /\ got[i] = all[start + i]

(* No line has ended in it before its last byte. *)
OneLine(got, eols) == \A i \in 1 .. (Len(got) - 1) : got[i] \notin eols

NoEnd(got, eols) == \A i \in 1 .. Len(got) : got[i] \notin eols

LineEnded(got, eols) == OneLine(got, eols) /\ Len(got) # 0 /\ got[Len(got)] \in eols

(* What a call should return: as many as asked for, up to a line's end. *)
Limit(r, all) ==
  Reading!Upto(r.start + r.asked, Reading!Upto(r.filesize, Len(all)))

Desired(r, all) ==
  LET bytes == SubSeq(all, r.start + 1, Limit(r, all))
      end == FirstEnd(bytes, r.eols)
  IN IF end = 0 THEN bytes ELSE SubSeq(bytes, 1, end)

LEMMA PartIs ==
  ASSUME NEW S, NEW all \in Seq(S), NEW a \in Nat, NEW b \in Nat, b <= Len(all)
  PROVE  /\ SubSeq(all, a + 1, b) \in Seq(S)
         /\ Len(SubSeq(all, a + 1, b)) = IF a <= b THEN b - a ELSE 0
         /\ \A i \in 1 .. (b - a) : SubSeq(all, a + 1, b)[i] = all[a + i]
  OBVIOUS

LEMMA PrefixOf ==
  ASSUME NEW a \in Seq(Address), NEW b \in Seq(Address), Len(a) <= Len(b),
         \A i \in 1 .. Len(a) : a[i] = b[i]
  PROVE  Reading!IsPrefix(a, b) /\ (Len(a) = Len(b) => a = b)
  <1>1. Len(a) \in Nat /\ Len(b) \in Nat
    OBVIOUS
  <1>2. SubSeq(a, 1, Len(a)) = a
    OBVIOUS
  <1>3. PICK c : c = SubSeq(b, 1, Len(a))
    OBVIOUS
  <1>4. c \in Seq(Address) /\ Len(c) = Len(a) /\ \A i \in 1 .. Len(a) : c[i] = b[i]
    <2>1. \A i \in 1 .. Len(a) : b[i] \in Address
      BY <1>1
    <2> QED
      BY <1>1, <1>3, <2>1
  <1>5. c = a
    BY <1>4, SeqEqual
  <1>6. Len(a) = Len(b) => a = b
    BY SeqEqual
  <1> QED
    BY <1>2, <1>3, <1>5, <1>6 DEF Reading!IsPrefix

(* What was read is what a call should return, or begins it. *)
LEMMA ReadBegins ==
  ASSUME NEW r, NEW all \in Seq(Address), NEW got, NEW at, ReadSo(got, all, r.start, at),
         NEW m \in Nat, m = Limit(r, all), m <= Len(all), at <= m \/ got = << >>,
         OneLine(got, r.eols)
  PROVE  /\ Reading!IsPrefix(got, Desired(r, all))
         /\ at = m \/ LineEnded(got, r.eols) => got = Desired(r, all)
  <1>1. PICK w \in Nat : w = r.start
    BY DEF ReadSo
  <1>2. PICK bytes : bytes = SubSeq(all, w + 1, m)
    OBVIOUS
  <1>3. /\ bytes \in Seq(Address) /\ Len(bytes) = (IF w <= m THEN m - w ELSE 0)
        /\ \A i \in 1 .. (m - w) : bytes[i] = all[w + i]
    <2>1. all \in Seq(Address) /\ w \in Nat /\ m \in Nat /\ m <= Len(all)
      OBVIOUS
    <2> QED
      BY ONLY <1>2, <2>1, PartIs
  <1>4. PICK end : end = FirstEnd(bytes, r.eols)
    OBVIOUS
  <1>5. EndsAt(bytes, r.eols, end)
    BY <1>3, <1>4, SelectedIs
  <1>6. Desired(r, all) = IF end = 0 THEN bytes ELSE SubSeq(bytes, 1, end)
    BY <1>1, <1>2, <1>4 DEF Desired
  <1>7. PICK want : want = Desired(r, all)
    OBVIOUS
  <1>8. /\ want \in Seq(Address) /\ Len(want) <= Len(bytes)
        /\ \A i \in 1 .. Len(want) : want[i] = bytes[i]
        /\ Len(want) = (IF end = 0 THEN Len(bytes) ELSE end)
    <2>1. CASE end = 0
      BY <1>3, <1>6, <1>7, <2>1
    <2>2. CASE end # 0
      <3>1. end \in 1 .. Len(bytes) /\ Len(bytes) \in Nat
        BY <1>3, <1>5, <2>2 DEF EndsAt
      <3>2. \A i \in 1 .. end : bytes[i] \in Address
        BY <1>3, <3>1
      <3>3. want = SubSeq(bytes, 1, end)
        BY <1>6, <1>7, <2>2
      <3> QED
        BY <1>3, <2>2, <3>1, <3>2, <3>3
    <2> QED
      BY <2>1, <2>2
  <1>9. got \in Seq(Address) /\ Len(got) \in Nat /\ at = w + Len(got)
    BY <1>1 DEF ReadSo
  <1>10. Len(got) <= Len(bytes) /\ \A i \in 1 .. Len(got) : got[i] = bytes[i]
    <2>1. CASE got = << >>
      BY <1>3, <2>1
    <2>2. CASE at <= m
      <3>1. Len(got) <= m - w /\ w <= m
        BY <1>9, <2>2
      <3> QED
        BY <1>1, <1>3, <1>9, <3>1 DEF ReadSo
    <2> QED
      BY <2>1, <2>2
  <1>11. Len(got) <= Len(want)
    <2>1. CASE end = 0
      BY <1>8, <1>10, <2>1
    <2>2. CASE end # 0
      <3>1. end \in 1 .. Len(bytes) /\ bytes[end] \in r.eols
        BY <1>5, <2>2 DEF EndsAt
      <3>2. ASSUME end < Len(got) PROVE FALSE
        <4>1. end \in 1 .. (Len(got) - 1) /\ end \in 1 .. Len(got)
          BY <1>9, <3>1, <3>2
        <4> QED
          BY <1>10, <3>1, <4>1 DEF OneLine
      <3> QED
        BY <1>8, <1>9, <2>2, <3>1, <3>2
    <2> QED
      BY <2>1, <2>2
  <1>12. \A i \in 1 .. Len(got) : got[i] = want[i]
    BY <1>8, <1>9, <1>10, <1>11
  <1>13. Reading!IsPrefix(got, want) /\ (Len(got) = Len(want) => got = want)
    BY <1>8, <1>9, <1>11, <1>12, PrefixOf
  <1>14. ASSUME at = m PROVE Len(got) = Len(want)
    <2>1. Len(got) = Len(bytes)
      BY <1>3, <1>9, <1>14
    <2> QED
      BY <1>8, <1>9, <1>11, <2>1
  <1>15. ASSUME LineEnded(got, r.eols) PROVE Len(got) = Len(want)
    <2>1. Len(got) # 0 /\ got[Len(got)] \in r.eols /\ Len(got) \in 1 .. Len(got)
      BY <1>9, <1>15 DEF LineEnded
    <2>2. Len(got) \in 1 .. Len(bytes) /\ bytes[Len(got)] \in r.eols
      BY <1>3, <1>9, <1>10, <2>1
    <2>3. end # 0 /\ end \in 1 .. Len(bytes) /\ \A i \in 1 .. (end - 1) : bytes[i] \notin r.eols
      BY <1>5, <2>2 DEF EndsAt
    <2>4. ~ (Len(got) < end)
      <3>1. ASSUME Len(got) < end PROVE FALSE
        <4>1. Len(got) \in 1 .. (end - 1)
          BY <2>2, <2>3, <3>1
        <4> QED
          BY <2>2, <2>3, <4>1
      <3> QED
        BY <3>1
    <2> QED
      BY <1>8, <1>9, <1>11, <2>3, <2>4
  <1> QED
    BY <1>7, <1>13, <1>14, <1>15

-----------------------------------------------------------------------------
(* What a call reads from and what it has read *)

(* What a call reads from, and how it was called. *)
ReadFields ==
  [loop : {"read"}, lib : {"rbf", "decb", "dragon"}, line : BOOLEAN, seg : Seq(Nat), mark : Nat,
   lss : Nat, filesize : Nat, eols : SUBSET Address, start : Nat, asked : Nat,
   pc : {"begin", "find", "copy", "done"}, i : Nat, accum : Nat, left : Nat, size : Nat,
   filepos : Nat, got : Seq(Address), ec : {"ok", "EOS_EOF", "undefined", "1", "failed"}]

SameCall(q, r) ==
  /\ q.loop = r.loop /\ q.lib = r.lib /\ q.line = r.line /\ q.seg = r.seg /\ q.mark = r.mark
  /\ q.lss = r.lss /\ q.filesize = r.filesize /\ q.eols = r.eols /\ q.start = r.start
  /\ q.asked = r.asked

(* The size a call sets out to read: _dragondos_readln stops at the end of  *)
(* the file only when it is there.                                          *)
Goal(r) ==
  IF r.lib = "dragon" /\ r.line THEN r.asked ELSE Reading!Upto(r.asked, r.filesize - r.start)

(* What a call has read, and has left to read. *)
Reads(r, all) ==
  /\ ReadSo(r.got, all, r.start, r.filepos)
  /\ r.filepos <= r.filesize /\ Len(r.got) <= r.asked
  /\ \/ NoEnd(r.got, r.eols) /\ r.left + Len(r.got) = r.size /\ r.size = Goal(r)
     \/ LineEnded(r.got, r.eols) /\ r.left = 0 /\ r.size = Len(r.got)

(* A round of a loop read chunk. *)
Copies(r, chunk, u, all) ==
  /\ chunk \in Seq(Address) /\ u \in Nat /\ Len(chunk) = u /\ u <= r.left
  /\ r.filepos + u <= r.filesize
  /\ \A k \in 1 .. u : r.filepos + k \in 1 .. Len(all) /\ chunk[k] = all[r.filepos + k]

(* The call q goes on after it. *)
CopiedOn(q, r, u, all) ==
  /\ q \in ReadFields /\ SameCall(q, r) /\ q.pc = r.pc /\ q.i = r.i /\ q.accum = r.accum
  /\ Reads(q, all)
  /\ q.left # 0 => q.filepos = r.filepos + u /\ q.left = r.left - u

(* The first c of chunk are the bytes behind at. *)
Follows(chunk, c, all, at) ==
  \A k \in 1 .. c : at + k \in 1 .. Len(all) /\ chunk[k] = all[at + k]

(* more is got with the first c of chunk. *)
Extends(more, got, chunk, c) ==
  /\ Len(more) = Len(got) + c /\ \A i \in 1 .. Len(got) : more[i] = got[i]
  /\ \A i \in 1 .. c : more[Len(got) + i] = chunk[i]

LEMMA ReadOn ==
  ASSUME NEW got, NEW all, NEW start, NEW at, ReadSo(got, all, start, at),
         NEW chunk \in Seq(Address), NEW c \in 0 .. Len(chunk), Follows(chunk, c, all, at)
  PROVE  /\ ReadSo(got \o SubSeq(chunk, 1, c), all, start, at + c)
         /\ Extends(got \o SubSeq(chunk, 1, c), got, chunk, c)
  <1> DEFINE more == got \o SubSeq(chunk, 1, c)
  <1>1. got \in Seq(Address) /\ start \in Nat /\ at \in Nat /\ at = start + Len(got)
        /\ \A i \in 1 .. Len(got) : start + i \in 1 .. Len(all) /\ got[i] = all[start + i]
    BY DEF ReadSo
  <1>2. PICK b : b = SubSeq(chunk, 1, c)
    OBVIOUS
  <1>3. b \in Seq(Address) /\ Len(b) = c /\ \A i \in 1 .. c : b[i] = chunk[i]
    <2>1. \A k \in 1 .. c : chunk[k] \in Address
      OBVIOUS
    <2> QED
      BY <1>2, <2>1
  <1>4. /\ more \in Seq(Address) /\ Len(more) = Len(got) + Len(b)
        /\ \A i \in 1 .. Len(got) : more[i] = got[i]
        /\ \A i \in 1 .. Len(b) : more[Len(got) + i] = b[i]
    BY <1>1, <1>2, <1>3, AppendedIs
  <1> HIDE DEF more
  <1>5. Len(got) \in Nat /\ c \in Nat
    BY <1>1
  <1>6. \A i \in 1 .. c : more[Len(got) + i] = chunk[i]
    BY <1>3, <1>4
  <1>7. ASSUME NEW i \in 1 .. Len(more) PROVE start + i \in 1 .. Len(all) /\ more[i] = all[start + i]
    <2>1. CASE i <= Len(got)
      <3>1. i \in 1 .. Len(got)
        BY <1>5, <2>1
      <3> QED
        BY <1>1, <1>4, <3>1
    <2>2. CASE i > Len(got)
      <3>1. PICK k \in 1 .. c : k = i - Len(got)
        <4>1. i \in 1 .. (Len(got) + c)
          BY <1>3, <1>4
        <4>2. i - Len(got) \in 1 .. c
          BY ONLY <1>5, <2>2, <4>1
        <4> QED
          BY <4>2
      <3>2. i = Len(got) + k /\ start + i = at + k
        BY <1>1, <1>5, <3>1
      <3>3. at + k \in 1 .. Len(all) /\ chunk[k] = all[at + k] /\ more[Len(got) + k] = chunk[k]
        BY <1>6 DEF Follows
      <3> QED
        BY <3>2, <3>3
    <2> QED
      BY <1>4, <1>5, <2>1, <2>2
  <1>8. at + c \in Nat /\ at + c = start + Len(more)
    <2>1. /\ Len(more) = Len(got) + c /\ at = start + Len(got) /\ start \in Nat
          /\ Len(got) \in Nat /\ c \in Nat
      BY <1>1, <1>3, <1>4, <1>5
    <2> QED
      BY ONLY <2>1
  <1> QED
    BY <1>1, <1>3, <1>4, <1>6, <1>7, <1>8 DEF ReadSo, Extends, more

LEMMA TookIs ==
  ASSUME l \in ReadFields, NEW all, Reads(l, all), l.left # 0, NEW chunk, NEW u,
         Copies(l, chunk, u, all), NEW before, before = Len(l.got)
  PROVE  CopiedOn(Reading!Took(chunk, before), l, u, all)
  <1>1. PICK e : e = FirstEnd(chunk, l.eols)
    OBVIOUS
  <1>2. PICK c : c = IF e = 0 THEN Len(chunk) ELSE e
    OBVIOUS
  <1>3. PICK more : more = l.got \o SubSeq(chunk, 1, c)
    OBVIOUS
  <1>4. PICK q : q = Reading!Took(chunk, before)
    OBVIOUS
  <1>5. q = [l EXCEPT !.got = more, !.filepos = l.filepos + c,
                      !.left = IF e = 0 THEN l.left - c ELSE 0,
                      !.size = IF e = 0 THEN l.size ELSE before + c]
    BY <1>1, <1>2, <1>3, <1>4 DEF Reading!Took, FirstEnd
  <1>6. /\ chunk \in Seq(Address) /\ u \in Nat /\ Len(chunk) = u /\ u <= l.left
        /\ l.filepos + u <= l.filesize
        /\ \A k \in 1 .. u : l.filepos + k \in 1 .. Len(all) /\ chunk[k] = all[l.filepos + k]
    BY DEF Copies
  <1>7. EndsAt(chunk, l.eols, e)
    BY <1>1, <1>6, SelectedIs
  <1>8. c \in 0 .. u /\ (e # 0 => e = c /\ c \in 1 .. u /\ chunk[c] \in l.eols)
        /\ (e = 0 => c = u) /\ \A i \in 1 .. c : (i # c \/ e = 0) => chunk[i] \notin l.eols
    <2>1. CASE e = 0
      BY <1>2, <1>6, <1>7, <2>1 DEF EndsAt
    <2>2. CASE e # 0
      BY <1>2, <1>6, <1>7, <2>2 DEF EndsAt
    <2> QED
      BY <2>1, <2>2
  <1>9. /\ ReadSo(l.got, all, l.start, l.filepos) /\ l.filepos <= l.filesize
        /\ Len(l.got) <= l.asked
        /\ NoEnd(l.got, l.eols) /\ l.left + Len(l.got) = l.size /\ l.size = Goal(l)
    BY DEF Reads
  <1>10. /\ l.left \in Nat /\ l.size \in Nat /\ l.filepos \in Nat /\ l.start \in Nat
         /\ l.asked \in Nat /\ l.filesize \in Nat /\ l.got \in Seq(Address) /\ Len(l.got) \in Nat
    BY DEF ReadFields
  <1>11. /\ ReadSo(more, all, l.start, l.filepos + c) /\ Len(more) = Len(l.got) + c
         /\ \A i \in 1 .. Len(l.got) : more[i] = l.got[i]
         /\ \A i \in 1 .. c : more[Len(l.got) + i] = chunk[i]
    <2>1. /\ chunk \in Seq(Address) /\ c \in 0 .. Len(chunk)
          /\ ReadSo(l.got, all, l.start, l.filepos)
          /\ Follows(chunk, c, all, l.filepos)
      BY <1>6, <1>8, <1>9 DEF Follows
    <2>2. ReadSo(more, all, l.start, l.filepos + c) /\ Extends(more, l.got, chunk, c)
      BY ONLY <1>3, <2>1, ReadOn
    <2> QED
      BY <2>2 DEF Extends
  <1>12. more \in Seq(Address) /\ l.filepos + c \in Nat /\ before + c \in Nat /\ c \in Nat
         /\ before \in Nat /\ l.left - c \in Nat
    <2>1. more \in Seq(Address)
      BY <1>11 DEF ReadSo
    <2>2. c \in Nat /\ c <= u /\ u <= l.left /\ before \in Nat
      BY <1>6, <1>8, <1>10
    <2>4. l.filepos \in Nat /\ l.left \in Nat /\ u \in Nat
      BY <1>6, <1>10
    <2>3. l.filepos + c \in Nat /\ before + c \in Nat /\ l.left - c \in Nat
      BY ONLY <2>2, <2>4
    <2> QED
      BY <2>1, <2>2, <2>3
  <1>13. ASSUME NEW i \in 1 .. Len(more), i # Len(more) \/ e = 0 PROVE more[i] \notin l.eols
    <2>1. CASE i <= Len(l.got)
      <3>1. i \in 1 .. Len(l.got)
        BY <1>10, <2>1
      <3> QED
        BY <1>9, <1>11, <3>1 DEF NoEnd
    <2>2. CASE i > Len(l.got)
      <3>1. PICK k \in 1 .. c : k = i - Len(l.got)
        <4>1. i \in 1 .. (Len(l.got) + c) /\ Len(l.got) \in Nat /\ c \in Nat
          BY <1>10, <1>11, <1>12
        <4>2. i - Len(l.got) \in 1 .. c
          BY ONLY <2>2, <4>1
        <4> QED
          BY <4>2
      <3>2. i = Len(l.got) + k /\ (k # c \/ e = 0)
        BY <1>10, <1>11, <1>12, <1>13, <3>1
      <3>3. chunk[k] \notin l.eols
        BY <1>8, <3>2
      <3> QED
        BY <1>11, <3>2, <3>3
    <2> QED
      BY <1>10, <1>11, <1>12, <2>1, <2>2
  <1>14. Goal(l) <= l.asked
    <2>1. l.filesize - l.start \in Int
      BY <1>10
    <2> QED
      BY <1>10, <2>1 DEF Goal, Reading!Upto
  <1>15. CASE e = 0
    <2>1. q = [l EXCEPT !.got = more, !.filepos = l.filepos + c, !.left = l.left - c, !.size = l.size]
      BY <1>5, <1>15
    <2>2. /\ q \in ReadFields /\ q.got = more /\ q.filepos = l.filepos + u /\ q.left = l.left - u
          /\ q.size = l.size /\ SameCall(q, l) /\ q.pc = l.pc /\ q.i = l.i /\ q.accum = l.accum
      BY <1>8, <1>10, <1>12, <1>15, <2>1 DEF ReadFields, SameCall
    <2>3. NoEnd(more, l.eols)
      BY <1>13, <1>15 DEF NoEnd
    <2>4. Goal(q) = Goal(l)
      BY <2>2 DEF SameCall, Goal
    <2>5. q.left + Len(more) = q.size
      BY <1>6, <1>8, <1>9, <1>10, <1>11, <1>15, <2>2
    <2>6. Len(more) <= l.asked
      BY <1>6, <1>9, <1>10, <1>12, <1>14, <2>2, <2>5
    <2>7. Reads(q, all)
      BY <1>6, <1>8, <1>9, <1>11, <1>15, <2>2, <2>3, <2>4, <2>5, <2>6 DEF Reads, SameCall
    <2> QED
      BY <1>4, <2>2, <2>7 DEF CopiedOn
  <1>16. CASE e # 0
    <2>1. q = [l EXCEPT !.got = more, !.filepos = l.filepos + c, !.left = 0, !.size = before + c]
      BY <1>5, <1>16
    <2>2. /\ q \in ReadFields /\ q.got = more /\ q.filepos = l.filepos + c /\ q.left = 0
          /\ q.size = before + c /\ SameCall(q, l) /\ q.pc = l.pc /\ q.i = l.i /\ q.accum = l.accum
      BY <1>8, <1>10, <1>12, <1>16, <2>1 DEF ReadFields, SameCall
    <2>3. LineEnded(more, l.eols)
      <3>1. c \in 1 .. u /\ chunk[c] \in l.eols /\ c \in 1 .. c
        BY <1>8, <1>16
      <3>2. Len(more) = Len(l.got) + c /\ more[Len(l.got) + c] = chunk[c] /\ Len(more) # 0
        BY <1>10, <1>11, <3>1
      <3>3. OneLine(more, l.eols)
        <4>2. PICK m \in Nat : m = Len(more)
          BY <1>10, <1>12, <3>2
        <4>3. \A i \in 1 .. (m - 1) : i \in 1 .. m /\ i # m
          BY ONLY m \in Nat
        <4>1. \A i \in 1 .. (Len(more) - 1) : i \in 1 .. Len(more) /\ i # Len(more)
          BY ONLY <4>2, <4>3
        <4> QED
          BY <1>13, <4>1 DEF OneLine
      <3> QED
        BY <3>1, <3>2, <3>3 DEF LineEnded
    <2>4. q.size = Len(more)
      BY <1>11, <2>2
    <2>5. Len(more) <= l.asked /\ l.filepos + c <= l.filesize
      <3>1. Len(l.got) + u <= l.size
        BY <1>6, <1>9, <1>10
      <3>2. l.size <= l.asked
        BY <1>9, <1>14
      <3>3. c \in Nat /\ u \in Nat /\ c <= u /\ l.filepos + u <= l.filesize
        BY <1>6, <1>8
      <3>4. Len(more) = Len(l.got) + c
        BY <1>11
      <3>5. Len(more) <= l.asked
        BY ONLY <1>10, <3>1, <3>2, <3>3, <3>4
      <3>6. l.filepos + c <= l.filesize
        BY ONLY <1>10, <3>3
      <3> QED
        BY <3>5, <3>6
    <2>6. Reads(q, all)
      BY <1>11, <2>2, <2>3, <2>4, <2>5 DEF Reads, SameCall
    <2> QED
      BY <1>4, <2>2, <2>6 DEF CopiedOn
  <1> QED
    BY <1>15, <1>16

-----------------------------------------------------------------------------
(* The invariant of a call *)

(* The size of the file, whose segments end at f, is one its library keeps. *)
Backs(r, f) ==
  /\ Len(r.seg) # 0 /\ r.start <= r.filesize
  /\ r.filesize <= f[Len(r.seg)] + (IF r.lib = "rbf" THEN 1 ELSE 0)
  /\ r.lib = "decb" =>
       /\ \A k \in 1 .. Len(r.seg) : r.seg[k] = FileSpg /\ f[k] = k * (FileSpg * FileBps)
       /\ r.mark \in 0 .. FileSpg /\ r.lss \in 0 .. FileBps
       /\ r.filesize = (Len(r.seg) - 1) * (FileSpg * FileBps)
                         + (IF r.mark = 0 THEN 0 ELSE r.mark - 1) * FileBps + r.lss
       /\ r.mark = 0 => r.lss = 0

(* Where its loop is. *)
Placed(r, f) ==
  /\ r.pc = "find" =>
       /\ r.lib # "dragon" /\ r.got = << >>
       /\ r.i \in 1 .. (Len(r.seg) + 1) /\ r.accum = f[r.i - 1] /\ r.accum <= r.filepos
       /\ r.lib = "decb" => r.i <= Len(r.seg)
  /\ r.pc = "copy" /\ r.left # 0 =>
       /\ r.lib = "rbf" => /\ r.i \in 1 .. (Len(r.seg) + 1) /\ r.accum = f[r.i - 1]
                           /\ r.accum <= r.filepos
                           /\ r.i <= Len(r.seg) => r.filepos <= f[r.i]
       /\ r.lib = "decb" => /\ r.i \in 1 .. Len(r.seg)
                            /\ f[r.i - 1] <= r.filepos /\ r.filepos < f[r.i]

(* What ReadsTheFile says of a call that returned. *)
Answered(r, all) ==
  /\ Reading!IsPrefix(r.got, Desired(r, all))
  /\ r.filepos = r.start + Len(r.got)
  /\ r.filesize <= Len(all) =>
       /\ r.ec \in {"ok", "failed", "EOS_EOF"}
       /\ r.ec = "ok" => r.got = Desired(r, all) /\ r.start < r.filesize
       /\ r.ec = "EOS_EOF" => r.start >= r.filesize
       /\ r.ec # "EOS_EOF" => r.size = Len(r.got)

Begun(r) == r.got = << >> /\ r.filepos = r.start /\ r.i = 1 /\ r.accum = 0 /\ r.size = r.asked

ReadState(r, f, all) ==
  /\ r \in ReadFields /\ Laid(r.seg, f, all) /\ Backs(r, f)
  /\ r.pc = "begin" => Begun(r)
  /\ r.pc \in {"find", "copy"} => r.start < r.filesize /\ Reads(r, all) /\ Placed(r, f)
  /\ r.pc = "done" => Answered(r, all)

ReadInv == l.loop = "read" => \E f : ReadState(l, f, Reading!Bytes(l.seg))

LEMMA AnsweredIs == ASSUME NEW f, ReadState(l, f, Reading!Bytes(l.seg)) PROVE Reading!ReadsTheFile
  <1> SUFFICES ASSUME l.pc = "done" PROVE Reading!ReadsTheFile
    BY DEF Reading!ReadsTheFile
  <1>1. Answered(l, Reading!Bytes(l.seg))
    BY DEF ReadState
  <1>2. Desired(l, Reading!Bytes(l.seg)) = Reading!Wanted
    BY DEF Desired, Limit, FirstEnd, Reading!Wanted
  <1> QED
    BY <1>1, <1>2 DEF Answered, Reading!ReadsTheFile, Reading!Backed

LEMMA CallIsSame ==
  ASSUME NEW q, NEW r, SameCall(q, r), NEW f, NEW all
  PROVE  /\ Backs(r, f) => Backs(q, f)
         /\ Goal(q) = Goal(r) /\ Limit(q, all) = Limit(r, all)
         /\ Desired(q, all) = Desired(r, all)
  <1>1. Backs(r, f) => Backs(q, f)
    BY DEF SameCall, Backs
  <1>2. Goal(q) = Goal(r) /\ Limit(q, all) = Limit(r, all)
    BY DEF SameCall, Goal, Limit
  <1> QED
    BY <1>1, <1>2 DEF SameCall, Desired

(* What has been read begins what is wanted, and is it when nothing is left. *)
LEMMA ReadsAnswer ==
  ASSUME NEW r \in ReadFields, NEW f, NEW all, Laid(r.seg, f, all), Backs(r, f),
         r.start < r.filesize, Reads(r, all)
  PROVE  /\ Reading!IsPrefix(r.got, Desired(r, all)) /\ r.filepos = r.start + Len(r.got)
         /\ r.size \in Nat /\ r.left \in Nat /\ r.size - r.left = Len(r.got)
         /\ r.filesize <= Len(all) /\ (r.left = 0 \/ r.filepos = r.filesize) =>
              r.got = Desired(r, all)
  <1>1. /\ r.start \in Nat /\ r.asked \in Nat /\ r.filesize \in Nat /\ r.got \in Seq(Address)
        /\ Len(r.got) \in Nat /\ r.left \in Nat /\ r.size \in Nat /\ r.filepos \in Nat
    BY DEF ReadFields
  <1>2. all \in Seq(Address) /\ Len(all) \in Nat
    BY DEF Laid
  <1>3. /\ ReadSo(r.got, all, r.start, r.filepos) /\ r.filepos = r.start + Len(r.got)
        /\ r.filepos <= r.filesize /\ Len(r.got) <= r.asked
    BY DEF Reads, ReadSo
  <1>4. PICK m : m = Limit(r, all)
    OBVIOUS
  <1>5. m \in Nat /\ m <= Len(all) /\ m <= r.start + r.asked /\ m <= r.filesize
        /\ (m = Len(all) \/ m = r.start + r.asked \/ m = r.filesize)
    BY <1>1, <1>2, <1>4 DEF Limit, Reading!Upto
  <1>6. r.filepos <= Len(all) \/ r.got = << >>
    <2>1. CASE Len(r.got) = 0
      BY <1>1, <2>1
    <2>2. CASE Len(r.got) # 0
      <3>1. Len(r.got) \in 1 .. Len(r.got)
        BY <1>1, <2>2
      <3>2. r.start + Len(r.got) \in 1 .. Len(all)
        BY <1>3, <3>1 DEF ReadSo
      <3> QED
        BY <1>2, <1>3, <3>2
    <2> QED
      BY <2>1, <2>2
  <1>7. r.filepos <= m \/ r.got = << >>
    <2>1. r.filepos <= r.start + r.asked
      BY <1>1, <1>3
    <2> QED
      BY <1>3, <1>5, <1>6, <2>1
  <1>8. OneLine(r.got, r.eols)
    <2>1. CASE NoEnd(r.got, r.eols)
      <3>1. \A i \in 1 .. (Len(r.got) - 1) : i \in 1 .. Len(r.got)
        BY <1>1
      <3> QED
        BY <2>1, <3>1 DEF NoEnd, OneLine
    <2>2. CASE LineEnded(r.got, r.eols)
      BY <2>2 DEF LineEnded
    <2> QED
      BY <2>1, <2>2 DEF Reads
  <1>9. /\ Reading!IsPrefix(r.got, Desired(r, all))
        /\ r.filepos = m \/ LineEnded(r.got, r.eols) => r.got = Desired(r, all)
    BY <1>2, <1>3, <1>4, <1>5, <1>7, <1>8, ReadBegins
  <1>10. r.size - r.left = Len(r.got)
    BY <1>1 DEF Reads
  <1>11. ASSUME r.filesize <= Len(all), r.left = 0 \/ r.filepos = r.filesize
         PROVE  r.filepos = m \/ LineEnded(r.got, r.eols)
    <2>1. CASE LineEnded(r.got, r.eols)
      BY <2>1
    <2>2. CASE ~ LineEnded(r.got, r.eols)
      <3>1. r.left + Len(r.got) = r.size /\ r.size = Goal(r)
        BY <2>2 DEF Reads
      <3>2. m = Reading!Upto(r.start + r.asked, r.filesize)
        BY <1>1, <1>2, <1>4, <1>11 DEF Limit, Reading!Upto
      <3>3. CASE r.filepos = r.filesize
        <4>1. r.filesize <= r.start + r.asked
          BY <1>1, <1>3, <3>3
        <4> QED
          BY <1>1, <3>2, <3>3, <4>1 DEF Reading!Upto
      <3>4. CASE r.left = 0
        <4>1. Len(r.got) = Goal(r)
          BY <1>1, <3>1, <3>4
        <4>2. CASE Goal(r) = r.asked
          <5>1. r.filepos = r.start + r.asked
            BY <1>3, <4>1, <4>2
          <5> QED
            BY <1>1, <1>3, <3>2, <5>1 DEF Reading!Upto
        <4>3. CASE Goal(r) # r.asked
          <5>1. Goal(r) = r.filesize - r.start /\ ~ (r.asked < r.filesize - r.start)
            BY <4>3 DEF Goal, Reading!Upto
          <5> QED
            BY <1>1, <1>3, <3>2, <4>1, <5>1 DEF Reading!Upto
        <4> QED
          BY <4>2, <4>3
      <3> QED
        BY <1>11, <3>3, <3>4
    <2> QED
      BY <2>1, <2>2
  <1> QED
    BY <1>1, <1>3, <1>9, <1>10, <1>11

-----------------------------------------------------------------------------
(* How calls begin and return *)

LEMMA CallKept ==
  ASSUME NEW f, NEW all, all = Reading!Bytes(l.seg), ReadState(l, f, all),
         l' \in ReadFields, SameCall(l', l), l'.pc # "begin",
         l'.pc \in {"find", "copy"} => l.start < l.filesize /\ Reads(l', all) /\ Placed(l', f),
         l'.pc = "done" => Answered(l', all)
  PROVE  ReadInv'
  <1>1. l'.seg = l.seg /\ l'.start = l.start /\ l'.filesize = l.filesize
    BY DEF SameCall
  <1>2. Laid(l'.seg, f, all) /\ Backs(l', f)
    BY <1>1, CallIsSame DEF ReadState
  <1>3. ReadState(l', f, all)
    BY <1>1, <1>2 DEF ReadState
  <1>4. all = Reading!Bytes(l'.seg)
    BY <1>1
  <1> QED
    BY <1>3, <1>4 DEF ReadInv

LEMMA ReadsSame ==
  ASSUME NEW q, NEW r, NEW all, SameCall(q, r), q.got = r.got, q.filepos = r.filepos,
         q.left = r.left, q.size = r.size, Reads(r, all)
  PROVE  Reads(q, all)
  <1>1. Goal(q) = Goal(r)
    BY DEF SameCall, Goal
  <1> QED
    BY <1>1 DEF SameCall, Reads

Codes == {"ok", "EOS_EOF", "undefined", "1", "failed"}

LEMMA ReturnIs ==
  ASSUME l \in ReadFields, NEW ec \in Codes, NEW size \in Nat, Reading!Return(ec, size), NEW all
  PROVE  /\ l' \in ReadFields /\ SameCall(l', l) /\ l'.pc = "done" /\ l'.ec = ec /\ l'.size = size
         /\ l'.got = l.got /\ l'.filepos = l.filepos /\ Desired(l', all) = Desired(l, all)
         /\ l'.start = l.start /\ l'.filesize = l.filesize
  <1>1. l' = [l EXCEPT !.pc = "done", !.ec = ec, !.size = size]
    BY DEF Reading!Return
  <1>2. /\ l' \in ReadFields /\ SameCall(l', l) /\ l'.pc = "done" /\ l'.ec = ec /\ l'.size = size
        /\ l'.got = l.got /\ l'.filepos = l.filepos
    BY <1>1 DEF ReadFields, SameCall, Codes
  <1> QED
    BY <1>2, CallIsSame DEF SameCall

(* A call that returns answers so. *)
LEMMA Returned ==
  ASSUME NEW f, NEW all, all = Reading!Bytes(l.seg), ReadState(l, f, all),
         NEW ec \in Codes, NEW size \in Nat, Reading!Return(ec, size),
         Reading!IsPrefix(l.got, Desired(l, all)), l.filepos = l.start + Len(l.got),
         l.filesize <= Len(all) =>
           /\ ec \in {"ok", "failed", "EOS_EOF"}
           /\ ec = "ok" => l.got = Desired(l, all) /\ l.start < l.filesize
           /\ ec = "EOS_EOF" => l.start >= l.filesize
           /\ ec # "EOS_EOF" => size = Len(l.got)
  PROVE  ReadInv'
  <1>1. l \in ReadFields
    BY DEF ReadState
  <1>2. /\ l' \in ReadFields /\ SameCall(l', l) /\ l'.pc = "done" /\ l'.ec = ec /\ l'.size = size
        /\ l'.got = l.got /\ l'.filepos = l.filepos /\ Desired(l', all) = Desired(l, all)
        /\ l'.start = l.start /\ l'.filesize = l.filesize
    BY <1>1, ReturnIs
  <1>3. Answered(l', all)
    BY <1>2 DEF Answered
  <1> QED
    BY <1>2, <1>3, CallKept

(* Before anything is read. *)
LEMMA BegunIs ==
  ASSUME NEW r \in ReadFields, NEW f, NEW all, Laid(r.seg, f, all), Begun(r)
  PROVE  /\ ReadSo(r.got, all, r.start, r.filepos) /\ NoEnd(r.got, r.eols) /\ Len(r.got) = 0
         /\ Reading!IsPrefix(r.got, Desired(r, all))
  <1>1. r.got = << >> /\ r.filepos = r.start /\ r.start \in Nat /\ r.filesize \in Nat
        /\ r.asked \in Nat /\ all \in Seq(Address) /\ Len(all) \in Nat
    BY DEF Begun, ReadFields, Laid
  <1>2. << >> \in Seq(Address) /\ Len(<< >>) = 0 /\ 1 .. 0 = {} /\ 1 .. (0 - 1) = {}
    OBVIOUS
  <1>3. ReadSo(r.got, all, r.start, r.filepos) /\ NoEnd(r.got, r.eols) /\ OneLine(r.got, r.eols)
    BY <1>1, <1>2 DEF ReadSo, NoEnd, OneLine
  <1>4. PICK m \in Nat : m = Limit(r, all) /\ m <= Len(all)
    BY <1>1 DEF Limit, Reading!Upto
  <1>5. Reading!IsPrefix(r.got, Desired(r, all))
    BY <1>1, <1>3, <1>4, ReadBegins
  <1> QED
    BY <1>1, <1>2, <1>3, <1>5

LEMMA EndReached ==
  ASSUME NEW f, NEW all, all = Reading!Bytes(l.seg), ReadState(l, f, all), Reading!EndOfFile
  PROVE  ReadInv'
  <1>1. l.pc = "begin" /\ l.filepos >= l.filesize
    BY DEF Reading!EndOfFile, Reading!AtEnd
  <1>2. l \in ReadFields /\ Laid(l.seg, f, all) /\ Begun(l)
    BY <1>1 DEF ReadState
  <1>3. /\ Reading!IsPrefix(l.got, Desired(l, all)) /\ Len(l.got) = 0 /\ l.filepos = l.start
        /\ l.start \in Nat /\ l.size \in Nat
    BY <1>2, BegunIs DEF Begun, ReadFields
  <1>4. PICK size \in Nat : Reading!Return("EOS_EOF", size)
    BY <1>3 DEF Reading!EndOfFile
  <1> QED
    BY <1>1, <1>3, <1>4, Returned DEF Codes

LEMMA ReadBegun ==
  ASSUME NEW f, NEW all, all = Reading!Bytes(l.seg), ReadState(l, f, all), Reading!Begin
  PROVE  ReadInv'
  <1>1. l.pc = "begin" /\ ~ (l.filepos >= l.filesize)
    BY DEF Reading!Begin, Reading!AtEnd
  <1>2. l \in ReadFields /\ Laid(l.seg, f, all) /\ Begun(l) /\ Backs(l, f)
    BY <1>1 DEF ReadState
  <1>3. /\ ReadSo(l.got, all, l.start, l.filepos) /\ NoEnd(l.got, l.eols) /\ Len(l.got) = 0
        /\ l.filepos = l.start /\ l.size = l.asked /\ l.i = 1 /\ l.accum = 0 /\ l.got = << >>
    BY <1>2, BegunIs DEF Begun
  <1>4. l.start \in Nat /\ l.asked \in Nat /\ l.filesize \in Nat /\ l.start < l.filesize
    BY <1>1, <1>2, <1>3 DEF ReadFields
  <1>5. Goal(l) \in Nat
    BY <1>4 DEF Goal, Reading!Upto
  <1>6. l' = [l EXCEPT !.size = Goal(l), !.left = Goal(l),
                       !.pc = IF l.lib = "dragon" THEN "copy" ELSE "find"]
    BY <1>3 DEF Reading!Begin, Goal
  <1>7. PICK pc \in {"find", "copy"} : pc = IF l.lib = "dragon" THEN "copy" ELSE "find"
    OBVIOUS
  <1>8. /\ l' \in ReadFields /\ SameCall(l', l) /\ l'.pc = pc /\ l'.got = l.got
        /\ l'.filepos = l.filepos /\ l'.left = Goal(l) /\ l'.size = Goal(l)
        /\ l'.i = 1 /\ l'.accum = 0
    <2>1. l' = [l EXCEPT !.size = Goal(l), !.left = Goal(l), !.pc = pc]
      BY <1>6, <1>7
    <2> QED
      BY <1>2, <1>3, <1>5, <2>1 DEF ReadFields, SameCall
  <1>9. Reads(l', all)
    <2>1. Goal(l') = Goal(l)
      BY <1>8, CallIsSame
    <2>2. /\ l'.start = l.start /\ l'.filesize = l.filesize /\ l'.eols = l.eols
          /\ l'.asked = l.asked
      BY <1>8 DEF SameCall
    <2> QED
      BY <1>3, <1>4, <1>5, <1>8, <2>1, <2>2 DEF Reads
  <1>10. Placed(l', f)
    <2>1. l'.lib = l.lib /\ l'.seg = l.seg
      BY <1>8 DEF SameCall
    <2>2. f[0] = 0 /\ Len(l.seg) \in Nat /\ Len(l.seg) # 0
      BY <1>2 DEF Laid, Backs, ReadFields
    <2>3. 1 - 1 = 0 /\ 1 \in 1 .. (Len(l.seg) + 1) /\ 1 <= Len(l.seg)
      BY <2>2
    <2>4. CASE l.lib = "dragon"
      BY <1>7, <1>8, <2>1, <2>4 DEF Placed
    <2>5. CASE l.lib # "dragon"
      BY <1>3, <1>4, <1>7, <1>8, <2>1, <2>2, <2>3, <2>5 DEF Placed
    <2> QED
      BY <2>4, <2>5
  <1> QED
    BY <1>4, <1>8, <1>9, <1>10, CallKept

LEMMA DescriptorFailed ==
  ASSUME NEW f, NEW all, all = Reading!Bytes(l.seg), ReadState(l, f, all), Reading!DescriptorFails
  PROVE  ReadInv'
  <1>1. l.pc = "begin" /\ Reading!Return("failed", 0)
    BY DEF Reading!DescriptorFails
  <1>2. l \in ReadFields /\ Laid(l.seg, f, all) /\ Begun(l)
    BY <1>1 DEF ReadState
  <1>3. /\ Reading!IsPrefix(l.got, Desired(l, all)) /\ Len(l.got) = 0 /\ l.filepos = l.start
        /\ l.start \in Nat
    BY <1>2, BegunIs DEF Begun, ReadFields
  <1> QED
    BY <1>1, <1>3, Returned DEF Codes

(* A call that returns what it has read. *)
LEMMA ReadingReturns ==
  ASSUME NEW f, NEW all, all = Reading!Bytes(l.seg), ReadState(l, f, all), l.pc \in {"find", "copy"}
  PROVE  /\ Reading!IsPrefix(l.got, Desired(l, all)) /\ l.filepos = l.start + Len(l.got)
         /\ l.size \in Nat /\ l.left \in Nat /\ Len(l.got) \in Nat /\ l.size - l.left = Len(l.got)
         /\ l.filesize <= Len(all) /\ (l.left = 0 \/ l.filepos = l.filesize) =>
              l.got = Desired(l, all)
         /\ l.start < l.filesize /\ l.filepos <= l.filesize /\ l.filesize \in Nat
         /\ l.filepos \in Nat
  <1>1. /\ l \in ReadFields /\ Laid(l.seg, f, all) /\ Backs(l, f) /\ l.start < l.filesize
        /\ Reads(l, all)
    BY DEF ReadState
  <1>2. Len(l.got) \in Nat /\ l.filesize \in Nat /\ l.filepos \in Nat /\ l.filepos <= l.filesize
    BY <1>1 DEF ReadFields, Reads
  <1> QED
    BY <1>1, <1>2, ReadsAnswer

LEMMA ReadFailed ==
  ASSUME NEW f, NEW all, all = Reading!Bytes(l.seg), ReadState(l, f, all), Reading!ReadFails
  PROVE  ReadInv'
  <1>1. l.pc = "copy" /\ Reading!Return("failed", l.size - l.left)
    BY DEF Reading!ReadFails
  <1>2. /\ Reading!IsPrefix(l.got, Desired(l, all)) /\ l.filepos = l.start + Len(l.got)
        /\ l.size - l.left = Len(l.got) /\ Len(l.got) \in Nat
    BY <1>1, ReadingReturns
  <1> QED
    BY <1>1, <1>2, Returned DEF Codes

LEMMA LineEndedFile ==
  ASSUME NEW f, NEW all, all = Reading!Bytes(l.seg), ReadState(l, f, all), Reading!LineEndsFile
  PROVE  ReadInv'
  <1>1. l.pc = "copy" /\ Reading!Return("ok", Len(l.got)) /\ l.filepos >= l.filesize
    BY DEF Reading!LineEndsFile, Reading!AtEnd
  <1>2. /\ Reading!IsPrefix(l.got, Desired(l, all)) /\ l.filepos = l.start + Len(l.got)
        /\ Len(l.got) \in Nat /\ l.start < l.filesize /\ l.filepos = l.filesize
        /\ l.filesize <= Len(all) => l.got = Desired(l, all)
    BY <1>1, ReadingReturns
  <1> QED
    BY <1>1, <1>2, Returned DEF Codes

-----------------------------------------------------------------------------
(* librbf *)

(* What is left to read is in the file. *)
LEMMA RoomIs ==
  ASSUME l \in ReadFields, NEW all, Reads(l, all), l.start < l.filesize,
         ~ (l.lib = "dragon" /\ l.line)
  PROVE  l.filepos + l.left <= l.filesize
  <1>1. /\ l.start \in Nat /\ l.asked \in Nat /\ l.filesize \in Nat /\ l.left \in Nat
        /\ l.filepos \in Nat /\ l.filepos <= l.filesize /\ l.filepos = l.start + Len(l.got)
        /\ Len(l.got) \in Nat
    BY DEF ReadFields, Reads, ReadSo
  <1>2. CASE l.left = 0
    BY <1>1, <1>2
  <1>3. CASE l.left # 0
    <2>1. l.left + Len(l.got) = Goal(l)
      BY <1>3 DEF Reads
    <2>2. Goal(l) <= l.filesize - l.start
      BY <1>1 DEF Goal, Reading!Upto
    <2> QED
      BY <1>1, <2>1, <2>2
  <1> QED
    BY <1>2, <1>3

LEMMA ReadDone ==
  ASSUME NEW f, NEW all, all = Reading!Bytes(l.seg), ReadState(l, f, all), Reading!Copied
  PROVE  ReadInv'
  <1>1. l.pc = "copy" /\ Reading!Return("ok", l.size)
        /\ (l.left = 0 \/ (l.lib = "rbf" /\ l.i > Len(l.seg)))
    BY DEF Reading!Copied, Reading!Past
  <1>2. /\ Reading!IsPrefix(l.got, Desired(l, all)) /\ l.filepos = l.start + Len(l.got)
        /\ l.size \in Nat /\ l.left \in Nat /\ Len(l.got) \in Nat /\ l.size - l.left = Len(l.got)
        /\ l.start < l.filesize /\ l.filesize \in Nat /\ l.filepos \in Nat
        /\ l.filesize <= Len(all) /\ l.left = 0 => l.got = Desired(l, all)
    BY <1>1, ReadingReturns
  <1>3. ASSUME l.filesize <= Len(all) PROVE l.left = 0
    <2> SUFFICES ASSUME l.left # 0 PROVE FALSE
      OBVIOUS
    <2>1. l.lib = "rbf" /\ l.i > Len(l.seg)
      BY <1>1
    <2>2. l \in ReadFields /\ Laid(l.seg, f, all) /\ Reads(l, all) /\ Placed(l, f)
      BY <1>1 DEF ReadState
    <2>3. l.i \in 1 .. (Len(l.seg) + 1) /\ l.accum = f[l.i - 1] /\ l.accum <= l.filepos
      BY <1>1, <2>1, <2>2 DEF Placed
    <2>4. Len(l.seg) \in Nat /\ Len(all) = f[Len(l.seg)]
      BY <2>2 DEF ReadFields, Laid
    <2>5. l.i - 1 = Len(l.seg)
      BY <2>1, <2>3, <2>4
    <2>6. l.filepos + l.left <= l.filesize
      BY <1>2, <2>1, <2>2, RoomIs
    <2> QED
      BY <1>2, <1>3, <2>3, <2>4, <2>5, <2>6
  <1>4. l.filesize <= Len(all) => l.got = Desired(l, all) /\ l.size = Len(l.got)
    BY <1>2, <1>3
  <1> QED
    BY <1>1, <1>2, <1>4, Returned DEF Codes

LEMMA LaidAt ==
  ASSUME NEW seg \in Seq(Nat), NEW f, NEW all, Laid(seg, f, all), NEW i \in 1 .. Len(seg)
  PROVE  /\ f[i] \in Nat /\ f[i - 1] \in Nat /\ Reading!Length(seg, i) \in Nat
         /\ f[i] = f[i - 1] + Reading!Length(seg, i)
  <1>1. i \in 0 .. Len(seg) /\ i - 1 \in 0 .. Len(seg)
    OBVIOUS
  <1> QED
    BY <1>1, LengthIsNat DEF Laid

LEMMA SegmentSought ==
  ASSUME NEW f, NEW all, all = Reading!Bytes(l.seg), ReadState(l, f, all), Reading!FindSegment
  PROVE  ReadInv'
  <1>1. /\ l.pc = "find" /\ l.lib = "rbf" /\ ~ (l.i > Len(l.seg))
        /\ l' = IF l.accum + Reading!Length(l.seg, l.i) > l.filepos THEN [l EXCEPT !.pc = "copy"]
                ELSE [l EXCEPT !.i = l.i + 1, !.accum = l.accum + Reading!Length(l.seg, l.i)]
    BY DEF Reading!FindSegment, Reading!Past
  <1>2. /\ l \in ReadFields /\ Laid(l.seg, f, all) /\ Backs(l, f) /\ Reads(l, all)
        /\ Placed(l, f) /\ l.start < l.filesize
    BY <1>1 DEF ReadState
  <1>3. /\ l.got = << >> /\ l.i \in 1 .. (Len(l.seg) + 1) /\ l.accum = f[l.i - 1]
        /\ l.accum <= l.filepos
    BY <1>1, <1>2 DEF Placed
  <1>4. l.seg \in Seq(Nat) /\ Len(l.seg) \in Nat /\ l.filepos \in Nat /\ l.i \in 1 .. Len(l.seg)
    <2>1. l.seg \in Seq(Nat) /\ Len(l.seg) \in Nat /\ l.filepos \in Nat
      BY <1>2 DEF ReadFields
    <2> QED
      BY <1>1, <1>3, <2>1
  <1>5. PICK i \in 1 .. Len(l.seg) : i = l.i
    BY <1>4
  <1>6. f[i] \in Nat /\ f[i] = f[i - 1] + Reading!Length(l.seg, i)
    BY <1>2, <1>4, LaidAt
  <1>7. CASE f[i] > l.filepos
    <2>1. l' = [l EXCEPT !.pc = "copy"]
      BY <1>1, <1>3, <1>5, <1>6, <1>7
    <2>2. /\ l' \in ReadFields /\ SameCall(l', l) /\ l'.pc = "copy" /\ l'.i = i
          /\ l'.accum = l.accum /\ l'.filepos = l.filepos /\ l'.got = l.got
          /\ l'.left = l.left /\ l'.size = l.size
      BY <1>2, <1>5, <2>1 DEF ReadFields, SameCall
    <2>3. Placed(l', f)
      BY <1>1, <1>3, <1>4, <1>5, <1>6, <1>7, <2>2 DEF Placed, SameCall
    <2>4. Reads(l', all)
      BY <1>2, <2>2, ReadsSame
    <2> QED
      BY <1>2, <2>2, <2>3, <2>4, CallKept
  <1>8. CASE ~ (f[i] > l.filepos)
    <2>6. PICK end \in Nat : end = f[i]
      BY <1>6
    <2>7. PICK j \in Nat : j = i + 1
      BY <1>4
    <2>1. l' = [l EXCEPT !.i = j, !.accum = end]
      BY <1>1, <1>3, <1>5, <1>6, <1>8, <2>6, <2>7
    <2>2. /\ l' \in ReadFields /\ SameCall(l', l) /\ l'.pc = "find" /\ l'.i = i + 1
          /\ l'.accum = f[i] /\ l'.filepos = l.filepos /\ l'.got = l.got
          /\ l'.left = l.left /\ l'.size = l.size
      <3>1. l' \in ReadFields
        BY <1>2, <2>1 DEF ReadFields
      <3>2. /\ SameCall(l', l) /\ l'.pc = l.pc /\ l'.i = j /\ l'.accum = end
            /\ l'.filepos = l.filepos /\ l'.got = l.got /\ l'.left = l.left /\ l'.size = l.size
        BY <1>2, <2>1 DEF ReadFields, SameCall
      <3> QED
        BY <1>1, <2>6, <2>7, <3>1, <3>2
    <2>3. i + 1 \in 1 .. (Len(l.seg) + 1) /\ (i + 1) - 1 = i /\ f[i] <= l.filepos
      BY <1>4, <1>6, <1>8
    <2>4. Placed(l', f)
      BY <1>1, <1>3, <2>2, <2>3 DEF Placed, SameCall
    <2>5. Reads(l', all)
      BY <1>2, <2>2, ReadsSame
    <2> QED
      BY <1>2, <2>2, <2>4, <2>5, CallKept
  <1> QED
    BY <1>7, <1>8

LEMMA SegmentMissed ==
  ASSUME NEW f, NEW all, all = Reading!Bytes(l.seg), ReadState(l, f, all), Reading!NoSegment
  PROVE  ReadInv'
  <1>1. /\ l.pc = "find" /\ l.lib = "rbf" /\ l.i > Len(l.seg)
        /\ Reading!Return("undefined", l.size) \/ Reading!Return("1", 0)
    BY DEF Reading!NoSegment, Reading!Past
  <1>2. /\ Reading!IsPrefix(l.got, Desired(l, all)) /\ l.filepos = l.start + Len(l.got)
        /\ l.size \in Nat /\ Len(l.got) \in Nat /\ l.start < l.filesize /\ l.filesize \in Nat
        /\ l.filepos \in Nat
    BY <1>1, ReadingReturns
  <1>3. l \in ReadFields /\ Laid(l.seg, f, all) /\ Placed(l, f)
    BY <1>1 DEF ReadState
  <1>4. /\ l.got = << >> /\ l.i \in 1 .. (Len(l.seg) + 1) /\ l.accum = f[l.i - 1]
        /\ l.accum <= l.filepos
    BY <1>1, <1>3 DEF Placed
  <1>5. Len(l.seg) \in Nat /\ Len(all) = f[Len(l.seg)] /\ Len(all) \in Nat
    BY <1>3 DEF ReadFields, Laid
  <1>6. l.i - 1 = Len(l.seg)
    BY <1>1, <1>4, <1>5
  <1>7. ~ (l.filesize <= Len(all))
    <2>1. Len(l.got) = 0
      BY <1>4
    <2>2. l.accum = Len(all) /\ l.start \in Nat
      BY <1>3, <1>4, <1>5, <1>6 DEF ReadFields
    <2> QED
      BY <1>2, <1>4, <1>5, <2>1, <2>2
  <1> QED
    BY <1>1, <1>2, <1>7, Returned DEF Codes

LEMMA ChunkIs ==
  ASSUME NEW i \in Nat, NEW offset \in Nat, NEW u \in Nat
  PROVE  /\ Reading!Chunk(i, offset, u) \in Seq(Address) /\ Len(Reading!Chunk(i, offset, u)) = u
         /\ \A k \in 1 .. u : Reading!Chunk(i, offset, u)[k] = << i, offset + k - 1 >>
  <1>1. \A k \in 1 .. u : << i, offset + k - 1 >> \in Address
    BY DEF Address
  <1>2. Reading!Chunk(i, offset, u) \in [1 .. u -> Address]
    BY <1>1 DEF Reading!Chunk
  <1>3. Reading!Chunk(i, offset, u) \in Seq(Address)
    BY <1>2, SequenceIs
  <1> QED
    BY <1>2, <1>3 DEF Reading!Chunk

(* The part of segment i from filepos on is what follows there in the file. *)
LEMMA CopiesPart ==
  ASSUME l \in ReadFields, NEW f, NEW all, Laid(l.seg, f, all), NEW i \in 1 .. Len(l.seg),
         NEW offset \in Nat, f[i - 1] + offset = l.filepos, NEW u \in Nat, u <= l.left,
         l.filepos + u <= f[i], l.filepos + u <= l.filesize
  PROVE  Copies(l, Reading!Chunk(i, offset, u), u, all)
  <1>1. /\ l.seg \in Seq(Nat) /\ l.filepos \in Nat /\ i \in Nat
    BY DEF ReadFields
  <1>2. /\ f[i] \in Nat /\ f[i - 1] \in Nat /\ Reading!Length(l.seg, i) \in Nat
        /\ f[i] = f[i - 1] + Reading!Length(l.seg, i)
        /\ \A o \in 1 .. Reading!Length(l.seg, i) :
             f[i - 1] + o \in 1 .. Len(all) /\ all[f[i - 1] + o] = << i, o - 1 >>
    <2>1. /\ f[i] \in Nat /\ f[i - 1] \in Nat /\ Reading!Length(l.seg, i) \in Nat
          /\ f[i] = f[i - 1] + Reading!Length(l.seg, i)
      BY <1>1, LaidAt
    <2> QED
      BY <2>1 DEF Laid
  <1>3. /\ Reading!Chunk(i, offset, u) \in Seq(Address) /\ Len(Reading!Chunk(i, offset, u)) = u
        /\ \A k \in 1 .. u : Reading!Chunk(i, offset, u)[k] = << i, offset + k - 1 >>
    BY <1>1, ChunkIs
  <1>4. ASSUME NEW k \in 1 .. u
        PROVE  /\ l.filepos + k \in 1 .. Len(all)
               /\ Reading!Chunk(i, offset, u)[k] = all[l.filepos + k]
    <2>1. PICK o : o = offset + k
      OBVIOUS
    <2>2. o \in 1 .. Reading!Length(l.seg, i) /\ f[i - 1] + o = l.filepos + k
      <3>1. PICK g \in Nat : g = f[i - 1]
        BY <1>2
      <3>2. PICK e \in Nat : e = f[i]
        BY <1>2
      <3>3. PICK length \in Nat : length = Reading!Length(l.seg, i)
        BY <1>2
      <3>4. PICK at \in Nat : at = l.filepos
        BY <1>1
      <3>5. e = g + length /\ g + offset = at /\ at + u <= e
        BY <1>2, <3>1, <3>2, <3>3, <3>4
      <3>6. o \in 1 .. length /\ g + o = at + k
        BY ONLY <2>1, <3>5, k \in 1 .. u, u \in Nat, offset \in Nat, g \in Nat, e \in Nat,
                length \in Nat, at \in Nat
      <3> QED
        BY <3>1, <3>3, <3>4, <3>6
    <2>3. f[i - 1] + o \in 1 .. Len(all) /\ all[f[i - 1] + o] = << i, o - 1 >>
      BY <1>2, <2>2
    <2>4. o - 1 = offset + k - 1
      BY <2>1
    <2> QED
      BY <1>3, <2>2, <2>3, <2>4
  <1> QED
    BY <1>3, <1>4 DEF Copies

LEMMA SegmentCopied ==
  ASSUME NEW f, NEW all, all = Reading!Bytes(l.seg), ReadState(l, f, all), Reading!CopySegment
  PROVE  ReadInv'
  <1>1. l.pc = "copy" /\ l.lib = "rbf" /\ l.left > 0 /\ ~ (l.i > Len(l.seg))
    BY DEF Reading!CopySegment, Reading!Past
  <1>2. /\ l \in ReadFields /\ Laid(l.seg, f, all) /\ Backs(l, f) /\ Reads(l, all)
        /\ Placed(l, f) /\ l.start < l.filesize
    BY <1>1 DEF ReadState
  <1>3. /\ l.seg \in Seq(Nat) /\ Len(l.seg) \in Nat /\ l.filepos \in Nat /\ l.left \in Nat
        /\ l.left # 0 /\ Len(l.got) \in Nat /\ l.filesize \in Nat
    BY <1>1, <1>2 DEF ReadFields
  <1>4. /\ l.i \in 1 .. (Len(l.seg) + 1) /\ l.accum = f[l.i - 1]
        /\ l.accum <= l.filepos /\ (l.i <= Len(l.seg) => l.filepos <= f[l.i])
    BY <1>1, <1>2, <1>3 DEF Placed
  <1>5. PICK i \in 1 .. Len(l.seg) : i = l.i
    BY <1>1, <1>3, <1>4
  <1>6. f[i] \in Nat /\ f[i - 1] \in Nat /\ f[i] = f[i - 1] + Reading!Length(l.seg, i)
    BY <1>2, <1>3, LaidAt
  <1>7. PICK u : u = Reading!Upto(f[i] - l.filepos, l.left)
    OBVIOUS
  <1>8. u \in Nat /\ u <= l.left /\ l.filepos + u <= f[i]
        /\ (u # l.left => l.filepos + u = f[i])
    BY <1>3, <1>4, <1>5, <1>6, <1>7 DEF Reading!Upto
  <1>9. l.filepos + u <= l.filesize
    <2>1. l.filepos + l.left <= l.filesize
      BY <1>1, <1>2, RoomIs
    <2> QED
      BY <1>3, <1>8, <2>1
  <1>10. PICK offset \in Nat : offset = l.filepos - f[i - 1]
    BY <1>3, <1>4, <1>5, <1>6
  <1>11. Copies(l, Reading!Chunk(i, offset, u), u, all)
    <2>1. f[i - 1] + offset = l.filepos
      BY <1>3, <1>6, <1>10
    <2> QED
      BY ONLY <1>2, <1>8, <1>9, <2>1, i \in 1 .. Len(l.seg), offset \in Nat, CopiesPart
  <1>12. PICK q : q = Reading!Took(Reading!Chunk(i, offset, u), Len(l.got))
    OBVIOUS
  <1>13. CopiedOn(q, l, u, all)
    BY <1>2, <1>3, <1>11, <1>12, TookIs
  <1>14. l' = [q EXCEPT !.i = q.i + 1, !.accum = f[i]]
    BY <1>4, <1>5, <1>6, <1>7, <1>10, <1>12 DEF Reading!CopySegment
  <1>15. /\ q \in ReadFields /\ SameCall(q, l) /\ q.pc = "copy" /\ q.i = i /\ Reads(q, all)
         /\ q.left # 0 => q.filepos = l.filepos + u /\ q.left = l.left - u
    BY <1>1, <1>5, <1>13 DEF CopiedOn
  <1>16. /\ l' \in ReadFields /\ SameCall(l', q) /\ l'.pc = "copy" /\ l'.i = i + 1
         /\ l'.accum = f[i] /\ l'.filepos = q.filepos /\ l'.got = q.got /\ l'.left = q.left
         /\ l'.size = q.size
    <2>1. PICK end \in Nat : end = f[i]
      BY <1>6
    <2>2. PICK j \in Nat : j = i + 1
      BY <1>3
    <2>3. l' = [q EXCEPT !.i = j, !.accum = end]
      BY <1>14, <1>15, <2>1, <2>2
    <2>4. l' \in ReadFields
      BY <1>15, <2>3 DEF ReadFields
    <2>5. /\ SameCall(l', q) /\ l'.pc = q.pc /\ l'.i = j /\ l'.accum = end
          /\ l'.filepos = q.filepos /\ l'.got = q.got /\ l'.left = q.left /\ l'.size = q.size
      BY <1>15, <2>3 DEF ReadFields, SameCall
    <2> QED
      BY <1>15, <2>1, <2>2, <2>4, <2>5
  <1>17. SameCall(l', l)
    BY <1>15, <1>16 DEF SameCall
  <1>18. Reads(l', all)
    BY <1>15, <1>16, ReadsSame
  <1>19. Placed(l', f)
    <2>1. l'.lib = "rbf" /\ l'.seg = l.seg
      BY <1>1, <1>17 DEF SameCall
    <2>2. ASSUME l'.left # 0
          PROVE  /\ l'.i \in 1 .. (Len(l.seg) + 1) /\ l'.accum = f[l'.i - 1]
                 /\ l'.accum <= l'.filepos /\ (l'.i <= Len(l.seg) => l'.filepos <= f[l'.i])
      <3>1. q.filepos = l.filepos + u /\ q.left = l.left - u /\ q.left # 0
        BY <1>15, <1>16, <2>2
      <3>2. l'.filepos = f[i]
        BY <1>3, <1>8, <1>16, <3>1
      <3>3. i + 1 \in 1 .. (Len(l.seg) + 1) /\ (i + 1) - 1 = i
        BY <1>3
      <3>4. ASSUME i + 1 <= Len(l.seg) PROVE f[i] <= f[i + 1]
        <4>1. i + 1 \in 1 .. Len(l.seg)
          BY <1>3, <3>4
        <4>2. f[i + 1] = f[(i + 1) - 1] + Reading!Length(l.seg, i + 1)
              /\ Reading!Length(l.seg, i + 1) \in Nat
          BY <1>2, <1>3, <4>1, LaidAt
        <4> QED
          BY <1>6, <3>3, <4>2
      <3> QED
        BY <1>6, <1>16, <3>2, <3>3, <3>4
    <2> QED
      BY <1>16, <2>1, <2>2 DEF Placed
  <1> QED
    BY <1>2, <1>16, <1>17, <1>18, <1>19, CallKept

-----------------------------------------------------------------------------
(* libdecb *)

LEMMA ProductIs ==
  ASSUME NEW a \in Nat \ {0}, NEW b \in Nat \ {0}
  PROVE  a * b \in Nat \ {0}
  OBVIOUS

LEMMA RestIs ==
  ASSUME NEW m \in Nat \ {0}, NEW q \in Nat, NEW r \in Nat, r < m
  PROVE  (q * m + r) % m = r /\ (q * m + r) \div m = q
  OBVIOUS

(* The granule's end, and its place in the file. *)
LEMMA GranuleAt ==
  ASSUME NEW r \in ReadFields, NEW f, NEW all, Laid(r.seg, f, all), Backs(r, f), r.lib = "decb",
         NEW i \in 1 .. Len(r.seg)
  PROVE  /\ f[i - 1] \in Nat /\ f[i] \in Nat /\ f[i] = f[i - 1] + Reading!Granule
         /\ f[i - 1] = (i - 1) * Reading!Granule /\ Reading!Granule \in Nat \ {0}
  <1>1. FileSpg \in Nat \ {0} /\ FileBps \in Nat \ {0} /\ r.seg \in Seq(Nat) /\ Len(r.seg) \in Nat
    BY ReadsAre DEF ReadFields
  <1>2. Reading!Granule = FileSpg * FileBps /\ Reading!Granule \in Nat \ {0}
    BY <1>1, ProductIs DEF Reading!Granule
  <1>3. f[0] = 0 /\ \A k \in 1 .. Len(r.seg) : r.seg[k] = FileSpg /\ f[k] = k * Reading!Granule
    BY <1>2 DEF Laid, Backs
  <1>4. f[i] \in Nat /\ f[i - 1] \in Nat /\ f[i] = f[i - 1] + Reading!Length(r.seg, i)
    BY <1>1, LaidAt
  <1>5. Reading!Length(r.seg, i) = Reading!Granule
    BY <1>2, <1>3 DEF Reading!Length
  <1>6. f[i - 1] = (i - 1) * Reading!Granule
    <2>1. CASE i = 1
      BY <1>2, <1>3, <2>1
    <2>2. CASE i # 1
      <3>1. i - 1 \in 1 .. Len(r.seg)
        BY <1>1, <2>2
      <3> QED
        BY <1>3, <3>1
    <2> QED
      BY <2>1, <2>2
  <1> QED
    BY <1>2, <1>4, <1>5, <1>6

LEMMA GranuleSought ==
  ASSUME NEW f, NEW all, all = Reading!Bytes(l.seg), ReadState(l, f, all), Reading!FindGranule
  PROVE  ReadInv'
  <1>1. /\ l.pc = "find" /\ l.lib = "decb"
        /\ l' = IF l.i = Len(l.seg) \/ l.accum + Reading!Granule > l.filepos
                THEN [l EXCEPT !.pc = "copy"]
                ELSE [l EXCEPT !.i = l.i + 1, !.accum = l.accum + Reading!Granule]
    BY DEF Reading!FindGranule
  <1>2. /\ l \in ReadFields /\ Laid(l.seg, f, all) /\ Backs(l, f) /\ Reads(l, all)
        /\ Placed(l, f) /\ l.start < l.filesize
    BY <1>1 DEF ReadState
  <1>3. /\ l.got = << >> /\ l.i \in 1 .. (Len(l.seg) + 1) /\ l.i <= Len(l.seg)
        /\ l.accum = f[l.i - 1] /\ l.accum <= l.filepos
    BY <1>1, <1>2 DEF Placed
  <1>4. /\ l.seg \in Seq(Nat) /\ Len(l.seg) \in Nat /\ l.filepos \in Nat /\ l.i \in 1 .. Len(l.seg)
        /\ l.filesize \in Nat /\ l.start \in Nat
    BY <1>1, <1>2, <1>3 DEF ReadFields
  <1>5. PICK i \in 1 .. Len(l.seg) : i = l.i
    BY <1>4
  <1>6. f[i - 1] \in Nat /\ f[i] \in Nat /\ f[i] = f[i - 1] + Reading!Granule
    BY <1>1, <1>2, GranuleAt
  <1>7. CASE i = Len(l.seg) \/ f[i] > l.filepos
    <2>1. l' = [l EXCEPT !.pc = "copy"]
      BY <1>1, <1>3, <1>5, <1>6, <1>7
    <2>2. /\ l' \in ReadFields /\ SameCall(l', l) /\ l'.pc = "copy" /\ l'.i = i
          /\ l'.accum = l.accum /\ l'.filepos = l.filepos /\ l'.got = l.got
          /\ l'.left = l.left /\ l'.size = l.size
      BY <1>2, <1>5, <2>1 DEF ReadFields, SameCall
    <2>3. l.filepos < f[i]
      <3>1. l.filepos = l.start
        <4>1. l.filepos = l.start + Len(l.got)
          BY <1>2 DEF Reads, ReadSo
        <4> QED
          BY <1>3, <1>4, <4>1
      <3>2. l.filesize <= f[Len(l.seg)] + 0
        BY <1>1, <1>2 DEF Backs
      <3>3. CASE f[i] > l.filepos
        BY <1>4, <1>6, <3>3
      <3>4. CASE i = Len(l.seg)
        BY <1>2, <1>4, <1>6, <3>1, <3>2, <3>4
      <3> QED
        BY <1>7, <3>3, <3>4
    <2>4. Placed(l', f)
      BY <1>1, <1>3, <1>4, <1>5, <2>2, <2>3 DEF Placed, SameCall
    <2>5. Reads(l', all)
      BY <1>2, <2>2, ReadsSame
    <2> QED
      BY <1>2, <2>2, <2>4, <2>5, CallKept
  <1>8. CASE ~ (i = Len(l.seg) \/ f[i] > l.filepos)
    <2>1. PICK end \in Nat : end = f[i]
      BY <1>6
    <2>2. PICK j \in Nat : j = i + 1
      BY <1>4
    <2>3. l' = [l EXCEPT !.i = j, !.accum = end]
      BY <1>1, <1>3, <1>5, <1>6, <1>8, <2>1, <2>2
    <2>4. /\ l' \in ReadFields /\ SameCall(l', l) /\ l'.pc = "find" /\ l'.i = i + 1
          /\ l'.accum = f[i] /\ l'.filepos = l.filepos /\ l'.got = l.got
          /\ l'.left = l.left /\ l'.size = l.size
      <3>1. l' \in ReadFields
        BY <1>2, <2>3 DEF ReadFields
      <3>2. /\ SameCall(l', l) /\ l'.pc = l.pc /\ l'.i = j /\ l'.accum = end
            /\ l'.filepos = l.filepos /\ l'.got = l.got /\ l'.left = l.left /\ l'.size = l.size
        BY <1>2, <2>3 DEF ReadFields, SameCall
      <3> QED
        BY <1>1, <2>1, <2>2, <3>1, <3>2
    <2>5. /\ i + 1 \in 1 .. (Len(l.seg) + 1) /\ (i + 1) - 1 = i /\ f[i] <= l.filepos
          /\ i + 1 <= Len(l.seg)
      <3>1. Len(l.seg) \in Nat /\ i # Len(l.seg)
        BY <1>4, <1>8
      <3>2. i + 1 \in 1 .. (Len(l.seg) + 1) /\ (i + 1) - 1 = i /\ i + 1 <= Len(l.seg)
        BY ONLY <3>1, i \in 1 .. Len(l.seg)
      <3>3. f[i] <= l.filepos
        BY <1>4, <1>6, <1>8
      <3> QED
        BY <3>2, <3>3
    <2>6. Placed(l', f)
      BY <1>1, <1>3, <2>4, <2>5 DEF Placed, SameCall
    <2>7. Reads(l', all)
      BY <1>2, <2>4, ReadsSame
    <2> QED
      BY <1>2, <2>4, <2>6, <2>7, CallKept
  <1> QED
    BY <1>7, <1>8

(* The bytes of the last granule reach as far as the file. *)
LastBytes(r) == (IF r.line THEN r.mark ELSE r.mark - 1) * FileBps + r.lss

LEMMA OneMore ==
  ASSUME NEW mark \in Nat \ {0}, NEW b \in Nat
  PROVE  mark * b \in Nat /\ (mark - 1) * b \in Nat /\ (mark - 1) * b <= mark * b
  OBVIOUS

LEMMA LastReaches ==
  ASSUME NEW r \in ReadFields, NEW f, NEW all, Laid(r.seg, f, all), Backs(r, f), r.lib = "decb",
         f[Len(r.seg) - 1] < r.filesize
  PROVE  LastBytes(r) \in Nat /\ r.filesize <= f[Len(r.seg) - 1] + LastBytes(r)
  <1>1. /\ FileBps \in Nat /\ Len(r.seg) \in Nat /\ Len(r.seg) # 0 /\ r.mark \in Nat
        /\ r.lss \in Nat /\ r.filesize \in Nat /\ r.line \in BOOLEAN
    BY ReadsAre DEF ReadFields, Backs
  <1>2. PICK i \in 1 .. Len(r.seg) : i = Len(r.seg)
    BY <1>1
  <1>3. f[i - 1] \in Nat /\ f[i - 1] = (i - 1) * Reading!Granule /\ Reading!Granule \in Nat
    BY GranuleAt
  <1>4. r.filesize = f[i - 1] + (IF r.mark = 0 THEN 0 ELSE r.mark - 1) * FileBps + r.lss
        /\ (r.mark = 0 => r.lss = 0)
    BY <1>2, <1>3 DEF Backs, Reading!Granule
  <1>5. r.mark # 0
    <2> SUFFICES ASSUME r.mark = 0 PROVE FALSE
      OBVIOUS
    <2>1. 0 * FileBps = 0
      BY <1>1
    <2>2. r.filesize = f[i - 1] + 0 * FileBps + 0
      BY <1>4
    <2>3. r.filesize = f[i - 1]
      BY <1>3, <2>1, <2>2
    <2> QED
      BY <1>1, <1>2, <2>3
  <1>6. /\ r.mark * FileBps \in Nat /\ (r.mark - 1) * FileBps \in Nat
        /\ (r.mark - 1) * FileBps <= r.mark * FileBps
    BY <1>1, <1>5, OneMore
  <1> DEFINE x == (r.mark - 1) * FileBps
             y == r.mark * FileBps
  <1>7. r.filesize = f[i - 1] + x + r.lss /\ LastBytes(r) = (IF r.line THEN y ELSE x) + r.lss
    BY <1>4, <1>5 DEF LastBytes
  <1> HIDE DEF x, y
  <1>8. x \in Nat /\ y \in Nat /\ x <= y
    BY <1>6 DEF x, y
  <1> QED
    BY <1>1, <1>2, <1>3, <1>7, <1>8

LEMMA ReachesOn ==
  ASSUME NEW a \in Nat, NEW o \in Nat, NEW b \in Nat, NEW left \in Nat, NEW size \in Nat,
         (a + o) + left <= size, size <= a + b
  PROVE  b - o >= left
  OBVIOUS

(* Of a granule a round reads what is left of it, or of the call. *)
LEMMA GranuleRound ==
  ASSUME NEW f, NEW all, ReadState(l, f, all), l.pc = "copy", l.lib = "decb", l.left > 0,
         NEW i \in 1 .. Len(l.seg), i = l.i, NEW offset, offset = l.filepos % Reading!Granule,
         NEW bytes, bytes = IF i # Len(l.seg) THEN Reading!Granule ELSE LastBytes(l),
         NEW u, u = Reading!Upto(bytes - offset, l.left)
  PROVE  /\ offset \in Nat /\ f[i - 1] + offset = l.filepos /\ u \in Nat /\ u <= l.left
         /\ l.filepos + u <= f[i] /\ l.filepos + u <= l.filesize
         /\ u # l.left => i # Len(l.seg) /\ l.filepos + u = f[i]
  <1>1. /\ l \in ReadFields /\ Laid(l.seg, f, all) /\ Backs(l, f) /\ Reads(l, all)
        /\ Placed(l, f) /\ l.start < l.filesize
    BY DEF ReadState
  <1>2. /\ Len(l.seg) \in Nat /\ l.filepos \in Nat /\ l.left \in Nat /\ l.left # 0
        /\ l.filesize \in Nat
    BY <1>1 DEF ReadFields
  <1>3. f[i - 1] <= l.filepos /\ l.filepos < f[i]
    BY <1>1, <1>2 DEF Placed
  <1>4. PICK g \in Nat \ {0} : g = Reading!Granule
    BY <1>1, GranuleAt
  <1>5. f[i - 1] \in Nat /\ f[i] \in Nat /\ f[i] = f[i - 1] + g /\ f[i - 1] = (i - 1) * g
    BY <1>1, <1>4, GranuleAt
  <1>6. offset = l.filepos - f[i - 1]
    <2>1. PICK r \in Nat : r = l.filepos - f[i - 1] /\ r < g
      BY <1>2, <1>3, <1>5
    <2>2. l.filepos = f[i - 1] + r
      BY <1>2, <1>5, <2>1
    <2>3. l.filepos = (i - 1) * g + r
      BY <1>5, <2>2
    <2>4. i - 1 \in Nat
      OBVIOUS
    <2>5. ((i - 1) * g + r) % g = r
      BY ONLY <2>1, <2>4, g \in Nat \ {0}, RestIs
    <2>6. offset = r
      BY <1>4, <2>3, <2>5
    <2> QED
      BY <2>1, <2>6
  <1>11. offset \in Nat /\ offset < g /\ f[i - 1] + offset = l.filepos
         /\ f[i - 1] \in Nat /\ f[i] \in Nat /\ f[i] = f[i - 1] + g
    <2>1. f[i - 1] \in Nat /\ f[i] \in Nat /\ f[i] = f[i - 1] + g
      BY <1>5
    <2> QED
      BY <1>2, <1>3, <1>6, <2>1
  <1>7. l.filepos + l.left <= l.filesize
    BY <1>1, RoomIs
  <1>8. l.filesize <= f[Len(l.seg)] + 0
    BY <1>1 DEF Backs
  <1>9. CASE i # Len(l.seg)
    <2>1. u = Reading!Upto(g - offset, l.left)
      BY <1>4, <1>9
    <2>2. PICK room : room = g - offset
      OBVIOUS
    <2>3. room \in Nat /\ l.filepos + room = f[i]
      <3>1. g \in Int /\ offset \in Nat /\ offset < g /\ f[i - 1] \in Nat
        BY <1>11
      <3>2. room \in Nat /\ (f[i - 1] + offset) + room = f[i - 1] + g
        BY ONLY <2>2, <3>1
      <3> QED
        BY ONLY <1>11, <3>2
    <2>4. u = IF room < l.left THEN room ELSE l.left
      BY <2>1, <2>2 DEF Reading!Upto
    <2>5. l.filepos \in Nat /\ l.left \in Nat /\ l.filesize \in Nat /\ f[i] \in Nat
      BY <1>2, <1>11
    <2>6. u \in Nat /\ u <= l.left /\ u <= room
      BY ONLY <2>3, <2>4, <2>5
    <2>7. l.filepos + u <= f[i] /\ l.filepos + u <= l.filesize
      BY ONLY <1>7, <2>3, <2>5, <2>6
    <2>8. u # l.left => l.filepos + u = f[i]
      BY ONLY <2>3, <2>4
    <2> QED
      BY <1>9, <1>11, <2>6, <2>7, <2>8
  <1>10. CASE i = Len(l.seg)
    <2>1. f[Len(l.seg) - 1] < l.filesize
      BY <1>2, <1>7, <1>10, <1>11
    <2>2. bytes \in Nat /\ l.filesize <= f[i - 1] + bytes
      BY <1>1, <1>10, <2>1, LastReaches
    <2>3. bytes - offset >= l.left
      <3>1. l.filepos \in Nat /\ l.left \in Nat /\ l.filesize \in Nat
        BY <1>2
      <3>2. f[i - 1] \in Nat /\ offset \in Nat /\ bytes \in Nat
        BY <1>11, <2>2
      <3>3. (f[i - 1] + offset) + l.left <= l.filesize /\ l.filesize <= f[i - 1] + bytes
        BY <1>7, <1>11, <2>2
      <3> QED
        BY ONLY <3>1, <3>2, <3>3, ReachesOn
    <2>4. u = l.left
      BY <1>2, <1>11, <2>2, <2>3 DEF Reading!Upto
    <2>5. l.filepos + u <= l.filesize /\ u \in Nat /\ u <= l.left
      BY <1>2, <1>7, <2>4
    <2>6. l.filesize <= f[i] /\ l.filepos + u <= f[i]
      BY <1>2, <1>8, <1>10, <1>11, <2>5
    <2> QED
      BY <1>11, <2>4, <2>5, <2>6
  <1> QED
    BY <1>9, <1>10

LEMMA GranuleCopied ==
  ASSUME NEW f, NEW all, all = Reading!Bytes(l.seg), ReadState(l, f, all), Reading!CopyGranule
  PROVE  ReadInv'
  <1>1. l.pc = "copy" /\ l.lib = "decb" /\ l.left > 0
    BY DEF Reading!CopyGranule
  <1>2. /\ l \in ReadFields /\ Laid(l.seg, f, all) /\ Backs(l, f) /\ Reads(l, all)
        /\ Placed(l, f) /\ l.start < l.filesize
    BY <1>1 DEF ReadState
  <1>3. /\ l.seg \in Seq(Nat) /\ Len(l.seg) \in Nat /\ l.filepos \in Nat /\ l.left \in Nat
        /\ l.left # 0 /\ Len(l.got) \in Nat /\ l.filesize \in Nat
    BY <1>1, <1>2 DEF ReadFields
  <1>4. l.i \in 1 .. Len(l.seg)
    BY <1>1, <1>2, <1>3 DEF Placed
  <1>5. PICK i \in 1 .. Len(l.seg) : i = l.i
    BY <1>4
  <1>6. PICK offset : offset = l.filepos % Reading!Granule
    OBVIOUS
  <1>7. PICK bytes : bytes = IF i # Len(l.seg) THEN Reading!Granule ELSE LastBytes(l)
    OBVIOUS
  <1>8. PICK u : u = Reading!Upto(bytes - offset, l.left)
    OBVIOUS
  <1>9. /\ offset \in Nat /\ f[i - 1] + offset = l.filepos /\ u \in Nat /\ u <= l.left
        /\ l.filepos + u <= f[i] /\ l.filepos + u <= l.filesize
        /\ u # l.left => i # Len(l.seg) /\ l.filepos + u = f[i]
    BY <1>1, <1>5, <1>6, <1>7, <1>8, GranuleRound
  <1>10. Copies(l, Reading!Chunk(i, offset, u), u, all)
    BY ONLY <1>2, <1>9, i \in 1 .. Len(l.seg), CopiesPart
  <1>11. PICK before : before = l.size - l.left
    OBVIOUS
  <1>12. before = Len(l.got)
    BY <1>1, <1>11, ReadingReturns
  <1>13. PICK q : q = Reading!Took(Reading!Chunk(i, offset, u), before)
    OBVIOUS
  <1>14. CopiedOn(q, l, u, all)
    BY <1>2, <1>3, <1>10, <1>12, <1>13, TookIs
  <1>15. l' = [q EXCEPT !.i = IF i = Len(l.seg) THEN q.i ELSE q.i + 1]
    BY <1>5, <1>6, <1>7, <1>8, <1>11, <1>13 DEF Reading!CopyGranule, LastBytes
  <1>16. /\ q \in ReadFields /\ SameCall(q, l) /\ q.pc = "copy" /\ q.i = i /\ Reads(q, all)
         /\ q.left # 0 => q.filepos = l.filepos + u /\ q.left = l.left - u
    BY <1>1, <1>5, <1>14 DEF CopiedOn
  <1>17. PICK j \in Nat : j = IF i = Len(l.seg) THEN i ELSE i + 1
    BY <1>3
  <1>18. /\ l' \in ReadFields /\ SameCall(l', q) /\ l'.pc = "copy" /\ l'.i = j
         /\ l'.filepos = q.filepos /\ l'.got = q.got /\ l'.left = q.left /\ l'.size = q.size
    <2>1. l' = [q EXCEPT !.i = j]
      BY <1>15, <1>16, <1>17
    <2> QED
      BY <1>16, <2>1 DEF ReadFields, SameCall
  <1>19. SameCall(l', l)
    BY <1>16, <1>18 DEF SameCall
  <1>20. Reads(l', all)
    BY <1>16, <1>18, ReadsSame
  <1>21. Placed(l', f)
    <2>1. l'.lib = "decb" /\ l'.seg = l.seg
      BY <1>1, <1>19 DEF SameCall
    <2>2. ASSUME l'.left # 0
          PROVE  /\ l'.i \in 1 .. Len(l.seg)
                 /\ f[l'.i - 1] <= l'.filepos /\ l'.filepos < f[l'.i]
      <3>1. q.filepos = l.filepos + u /\ q.left = l.left - u /\ q.left # 0
        BY <1>16, <1>18, <2>2
      <3>2. u # l.left
        BY <1>3, <1>9, <3>1
      <3>3. l'.filepos = f[i] /\ i # Len(l.seg)
        BY <1>9, <1>18, <3>1, <3>2
      <3>4. i + 1 \in 1 .. Len(l.seg) /\ (i + 1) - 1 = i /\ l'.i = i + 1
        BY <1>3, <1>17, <1>18, <3>3
      <3>5. PICK j1 \in 1 .. Len(l.seg) : j1 = i + 1 /\ j1 - 1 = i
        BY <3>4
      <3>6. f[j1 - 1] \in Nat /\ f[j1] = f[j1 - 1] + Reading!Granule /\ Reading!Granule \in Nat \ {0}
        BY <1>1, <1>2, GranuleAt
      <3>7. f[i] < f[i + 1] /\ f[i] \in Nat
        BY <3>5, <3>6
      <3> QED
        BY <3>3, <3>4, <3>7
    <2> QED
      BY <1>18, <2>1, <2>2 DEF Placed
  <1> QED
    BY <1>2, <1>18, <1>19, <1>20, <1>21, CallKept

-----------------------------------------------------------------------------
(* libdragondos *)

Summed(b, seg) == b = [i \in DOMAIN seg |-> IF i = 1 THEN 0 ELSE b[i - 1] + seg[i - 1]]

LEMMA SumsExist ==
  ASSUME NEW seg \in Seq(Nat)
  PROVE  \E b : Summed(b, seg)
  <1>1. PICK m \in Nat : m = Len(seg) /\ DOMAIN seg = 1 .. m
    OBVIOUS
  <1> DEFINE To(b, u) == /\ b \in [1 .. u -> Nat]
                         /\ \A i \in 1 .. u : b[i] = IF i = 1 THEN 0 ELSE b[i - 1] + seg[i - 1]
             N == { u \in Nat : u <= m => \E b : To(b, u) }
  <1> HIDE DEF To
  <1>2. 0 \in N
    <2>1. To([i \in 1 .. 0 |-> 0], 0)
      BY DEF To
    <2> QED
      BY <2>1
  <1>3. ASSUME NEW u \in Nat, u \in N PROVE u + 1 \in N
    <2> SUFFICES ASSUME u + 1 <= m PROVE \E b : To(b, u + 1)
      OBVIOUS
    <2>1. PICK b : To(b, u)
      BY <1>3
    <2>2. PICK v \in Nat : v = IF u = 0 THEN 0 ELSE b[u] + seg[u]
      <3>1. CASE u = 0
        BY <3>1
      <3>2. CASE u # 0
        <4>1. u \in 1 .. u /\ u \in 1 .. m
          BY <3>2
        <4>2. b[u] \in Nat /\ seg[u] \in Nat
          BY <1>1, <2>1, <4>1 DEF To
        <4> QED
          BY <3>2, <4>2
      <3> QED
        BY <3>1, <3>2
    <2> DEFINE c == [i \in 1 .. (u + 1) |-> IF i = u + 1 THEN v ELSE b[i]]
    <2>3. c \in [1 .. (u + 1) -> Nat]
      BY <2>1 DEF To
    <2>4. ASSUME NEW i \in 1 .. (u + 1)
          PROVE  c[i] = IF i = 1 THEN 0 ELSE c[i - 1] + seg[i - 1]
      <3>1. CASE i = u + 1
        <4>1. CASE u = 0
          BY <2>2, <3>1, <4>1
        <4>2. CASE u # 0
          <5>1. i - 1 = u /\ u \in 1 .. (u + 1) /\ u # u + 1 /\ i # 1
            BY <3>1, <4>2
          <5> QED
            BY <2>2, <3>1, <4>2, <5>1
        <4> QED
          BY <4>1, <4>2
      <3>2. CASE i # u + 1
        <4>1. i \in 1 .. u
          BY <3>2
        <4>2. b[i] = IF i = 1 THEN 0 ELSE b[i - 1] + seg[i - 1]
          BY <2>1, <4>1 DEF To
        <4>3. i # 1 => i - 1 \in 1 .. (u + 1) /\ i - 1 # u + 1
          BY <4>1
        <4> QED
          BY <3>2, <4>2, <4>3
      <3> QED
        BY <3>1, <3>2
    <2> HIDE DEF c
    <2> QED
      BY <2>3, <2>4 DEF To
  <1> HIDE DEF N
  <1>4. m \in N
    BY <1>2, <1>3, AllNumbers
  <1>5. PICK b : To(b, m)
    BY <1>4 DEF N
  <1>6. b = [i \in 1 .. m |-> IF i = 1 THEN 0 ELSE b[i - 1] + seg[i - 1]]
    BY <1>5 DEF To
  <1>7. 1 .. m = DOMAIN seg
    BY <1>1
  <1>8. Summed(b, seg)
    BY ONLY <1>6, <1>7 DEF Summed
  <1> QED
    BY <1>8

LEMMA LsnIs ==
  ASSUME l.seg \in Seq(Nat), NEW k
  PROVE  \E b, i : /\ Summed(b, l.seg)
                   /\ i = CHOOSE j \in DOMAIN l.seg : b[j] <= k /\ k < b[j] + l.seg[j]
                   /\ Reading!SectorLsn(k) = << i, k - b[i] >>
  <1>1. \E b : b = [i \in DOMAIN l.seg |-> IF i = 1 THEN 0 ELSE b[i - 1] + l.seg[i - 1]]
    BY SumsExist DEF Summed
  <1> DEFINE b == CHOOSE b : b = [i \in DOMAIN l.seg |-> IF i = 1 THEN 0 ELSE b[i - 1] + l.seg[i - 1]]
             i == CHOOSE j \in DOMAIN l.seg : b[j] <= k /\ k < b[j] + l.seg[j]
  <1>2. Reading!SectorLsn(k) = << i, k - b[i] >>
    BY DEF Reading!SectorLsn
  <1>3. Summed(b, l.seg)
    BY <1>1 DEF Summed
  <1> HIDE DEF b
  <1> QED
    BY <1>2, <1>3

LEMMA TimesIs ==
  ASSUME NEW a \in Nat, NEW b \in Nat, NEW m \in Nat
  PROVE  /\ a * m \in Nat /\ (a + b) * m = a * m + b * m /\ (a + b) * m \in Nat
         /\ a <= b => a * m <= b * m
  OBVIOUS

(* The sectors before extent i hold the bytes before it. *)
LEMMA SumsAre ==
  ASSUME NEW seg \in Seq(Nat), NEW f, NEW all, Laid(seg, f, all), NEW b, Summed(b, seg)
  PROVE  \A i \in 1 .. Len(seg) : b[i] \in Nat /\ b[i] * FileBps = f[i - 1]
  <1>1. PICK m \in Nat : m = Len(seg) /\ DOMAIN seg = 1 .. m
    OBVIOUS
  <1>2. \A i \in 1 .. m : b[i] = IF i = 1 THEN 0 ELSE b[i - 1] + seg[i - 1]
    BY <1>1 DEF Summed
  <1>3. FileBps \in Nat
    BY ReadsAre
  <1> DEFINE N == { u \in Nat : u \in 1 .. m => b[u] \in Nat /\ b[u] * FileBps = f[u - 1] }
  <1>4. 0 \in N
    OBVIOUS
  <1>5. ASSUME NEW u \in Nat, u \in N PROVE u + 1 \in N
    <2> SUFFICES ASSUME u + 1 \in 1 .. m
                 PROVE  b[u + 1] \in Nat /\ b[u + 1] * FileBps = f[(u + 1) - 1]
      OBVIOUS
    <2>1. b[u + 1] = IF u + 1 = 1 THEN 0 ELSE b[(u + 1) - 1] + seg[(u + 1) - 1]
      BY <1>2
    <2>2. CASE u = 0
      <3>1. b[u + 1] = 0 /\ (u + 1) - 1 = 0 /\ f[0] = 0
        BY <2>1, <2>2 DEF Laid
      <3>2. 0 * FileBps = 0
        BY <1>3
      <3>3. b[u + 1] * FileBps = 0 * FileBps
        BY <3>1
      <3>4. f[(u + 1) - 1] = 0
        BY <3>1
      <3>5. b[u + 1] \in Nat
        BY <3>1
      <3> QED
        BY ONLY <3>2, <3>3, <3>4, <3>5
    <2>3. CASE u # 0
      <3>1. (u + 1) - 1 = u /\ u + 1 # 1 /\ u \in 1 .. m /\ u \in 1 .. Len(seg)
        BY <1>1, <2>3
      <3>2. b[u + 1] = b[u] + seg[u]
        BY <2>1, <3>1
      <3>3. b[u] \in Nat /\ b[u] * FileBps = f[u - 1] /\ seg[u] \in Nat
        BY <1>1, <1>5, <3>1
      <3>4. (b[u] + seg[u]) * FileBps = b[u] * FileBps + seg[u] * FileBps
        BY <1>3, <3>3, TimesIs
      <3>5. f[u] = f[u - 1] + seg[u] * FileBps
        BY <3>1 DEF Laid, Reading!Length
      <3>6. b[u + 1] * FileBps = f[u]
        BY <3>2, <3>3, <3>4, <3>5
      <3> QED
        BY <3>1, <3>2, <3>3, <3>6
    <2> QED
      BY <2>2, <2>3
  <1> HIDE DEF N
  <1>6. ASSUME NEW i \in 1 .. m PROVE i \in N
    <2>1. i \in Nat
      OBVIOUS
    <2> QED
      BY <1>4, <1>5, <2>1, AllNumbers
  <1> QED
    BY <1>1, <1>6 DEF N

LEMMA ByteIsSomewhere ==
  ASSUME NEW seg \in Seq(Nat), NEW f, NEW all, Laid(seg, f, all), NEW at \in Nat, at < f[Len(seg)]
  PROVE  \E i \in 1 .. Len(seg) : f[i - 1] <= at /\ at < f[i]
  <1>1. PICK m \in Nat : m = Len(seg)
    OBVIOUS
  <1>2. f \in [0 .. m -> Nat] /\ f[0] = 0
    BY <1>1 DEF Laid
  <1> DEFINE N == { u \in Nat : u <= m /\ at < f[u] => \E i \in 1 .. m : f[i - 1] <= at /\ at < f[i] }
  <1>3. 0 \in N
    BY <1>2
  <1>4. ASSUME NEW u \in Nat, u \in N PROVE u + 1 \in N
    <2> SUFFICES ASSUME u + 1 <= m, at < f[u + 1]
                 PROVE  \E i \in 1 .. m : f[i - 1] <= at /\ at < f[i]
      OBVIOUS
    <2>1. f[u] \in Nat
      BY <1>2
    <2>2. CASE at < f[u]
      BY <1>4, <2>2
    <2>3. CASE ~ (at < f[u])
      <3>1. u + 1 \in 1 .. m /\ (u + 1) - 1 = u /\ f[u] <= at
        BY <2>1, <2>3
      <3> QED
        BY <3>1
    <2> QED
      BY <2>2, <2>3
  <1> HIDE DEF N
  <1>5. m \in N
    BY <1>3, <1>4, AllNumbers
  <1> QED
    BY <1>1, <1>5 DEF N

LEMMA SectorOfByte ==
  ASSUME NEW m \in Nat \ {0}, NEW a \in Nat
  PROVE  \E d \in Nat, y \in Nat : d = a \div m /\ y = a % m /\ y < m /\ a = d * m + y
  <1>1. PICK q \in Nat : q = a \div m /\ m * q <= a /\ a < m * q + m
    BY DivisionIs
  <1>2. m * q = q * m /\ q * m \in Nat
    BY TimesIs
  <1>3. PICK x \in Nat : x = q * m
    BY <1>2
  <1>7. x <= a /\ a < x + m
    BY <1>1, <1>2, <1>3
  <1>8. a \in Int /\ m \in Int
    OBVIOUS
  <1>4. PICK r \in Nat : r = a - x /\ r < m /\ a = x + r
    BY ONLY <1>7, <1>8, x \in Nat
  <1>5. (q * m + r) % m = r
    BY <1>4, RestIs
  <1>6. q = a \div m /\ r = a % m /\ r < m /\ a = q * m + r
    <2>1. a = q * m + r /\ r < m
      BY <1>3, <1>4
    <2> QED
      BY <1>1, <1>5, <2>1
  <1> QED
    BY <1>6

LEMMA TimesLess ==
  ASSUME NEW m \in Nat \ {0}, NEW x \in Nat, NEW y \in Nat
  PROVE  x < y => x * m + m <= y * m
  <1>1. m * x = x * m /\ m * y = y * m
    OBVIOUS
  <1> QED
    BY <1>1, TimesMonotone

(* Byte o of sector c is one of the bytes of the sectors from w before e. *)
WithinIs(m, c, o, w, e) ==
  /\ w * m <= c * m + o /\ c * m + m <= e * m
  /\ w * m + ((c - w) * m + o) = c * m + o

LEMMA SectorWithin ==
  ASSUME NEW m \in Nat \ {0}, NEW c \in Nat, NEW o \in Nat, o < m, NEW w \in Nat, NEW e \in Nat
  PROVE  /\ w * m <= c * m + o /\ c * m + o < e * m => w <= c /\ c < e
         /\ w <= c /\ c < e => WithinIs(m, c, o, w, e)
  <1> DEFINE cm == c * m
             sm == w * m
             em == e * m
  <1>1. cm \in Nat /\ sm \in Nat /\ em \in Nat
    BY TimesIs
  <1>2. /\ c < w => cm + m <= sm
        /\ e <= c => em <= cm
        /\ w <= c => sm <= cm
        /\ c < e => cm + m <= em
    BY TimesLess, TimesIs
  <1>3. ASSUME w <= c PROVE (c - w) * m = cm - sm
    <2>1. c - w \in Nat /\ w + (c - w) = c
      BY <1>3
    <2>2. (w + (c - w)) * m = w * m + (c - w) * m /\ (c - w) * m \in Nat
      BY <2>1, TimesIs
    <2>3. cm = sm + (c - w) * m
      BY <2>1, <2>2
    <2> HIDE DEF cm, sm
    <2> QED
      BY <1>1, <2>2, <2>3
  <1> SUFFICES /\ sm <= cm + o /\ cm + o < em => w <= c /\ c < e
               /\ w <= c /\ c < e => /\ sm <= cm + o /\ cm + m <= em
                                     /\ sm + ((c - w) * m + o) = cm + o
    BY DEF WithinIs
  <1> HIDE DEF cm, sm, em
  <1>4. sm <= cm + o /\ cm + o < em => w <= c /\ c < e
    BY ONLY <1>1, <1>2, m \in Nat \ {0}, c \in Nat, o \in Nat, o < m, w \in Nat, e \in Nat
  <1>5. ASSUME w <= c, c < e
        PROVE  sm <= cm + o /\ cm + m <= em /\ sm + ((c - w) * m + o) = cm + o
    <2>1. PICK d : d = (c - w) * m
      OBVIOUS
    <2>2. d = cm - sm
      BY <1>3, <1>5, <2>1
    <2>3. sm + (d + o) = cm + o
      BY ONLY <1>1, <2>2, o \in Nat
    <2>4. sm <= cm + o
      BY ONLY <1>1, <1>2, <1>5, o \in Nat
    <2> QED
      BY <1>2, <1>5, <2>1, <2>3, <2>4
  <1> QED
    BY <1>4, <1>5

(* _dd_sector_lsn finds the extent a byte of the file is in. *)
SectorAt(f, at, rest, i, o) ==
  /\ i \in 1 .. Len(l.seg) /\ o \in Nat
  /\ at[1] = i /\ at[2] * FileBps + rest = o
  /\ f[i - 1] + o = l.filepos
  /\ l.filepos + (FileBps - rest) <= f[i]

LEMMA SectorIs ==
  ASSUME NEW f, NEW all, l \in ReadFields, Laid(l.seg, f, all), l.filepos < f[Len(l.seg)],
         NEW lsn, lsn = Reading!SectorLsn(l.filepos \div FileBps),
         NEW rest, rest = l.filepos % FileBps
  PROVE  \E i, o : SectorAt(f, lsn, rest, i, o)
  <1>0. PICK at \in Nat : at = l.filepos
    BY DEF ReadFields
  <1>1. PICK m \in Nat \ {0} : m = FileBps /\ at = l.filepos /\ at \in Nat
    BY <1>0, ReadsAre
  <1>2. PICK seg : seg = l.seg /\ seg \in Seq(Nat) /\ DOMAIN seg = 1 .. Len(seg)
    BY DEF ReadFields
  <1>3. PICK c \in Nat, r \in Nat :
          c = at \div m /\ r = at % m /\ r < m /\ at = c * m + r
    BY <1>1, SectorOfByte
  <1>4. PICK b, i : /\ Summed(b, seg)
                    /\ i = CHOOSE j \in DOMAIN seg : b[j] <= c /\ c < b[j] + seg[j]
                    /\ Reading!SectorLsn(c) = << i, c - b[i] >>
    BY <1>2, LsnIs
  <1>5. \A j \in 1 .. Len(seg) : b[j] \in Nat /\ b[j] * m = f[j - 1]
    BY <1>1, <1>2, <1>4, SumsAre
  <1>6. \A j \in 1 .. Len(seg) : seg[j] \in Nat /\ (b[j] + seg[j]) * m = f[j]
    <2> SUFFICES ASSUME NEW j \in 1 .. Len(seg)
                 PROVE  seg[j] \in Nat /\ (b[j] + seg[j]) * m = f[j]
      OBVIOUS
    <2>1. seg[j] \in Nat /\ b[j] \in Nat /\ b[j] * m = f[j - 1]
      BY <1>2, <1>5
    <2>2. f[j] = f[j - 1] + seg[j] * m
      BY <1>1, <1>2 DEF Laid, Reading!Length
    <2>3. (b[j] + seg[j]) * m = b[j] * m + seg[j] * m
      BY <2>1, TimesIs
    <2> QED
      BY <2>1, <2>2, <2>3
  <1>7. PICK j \in 1 .. Len(seg) : f[j - 1] <= at /\ at < f[j]
    BY <1>1, <1>2, ByteIsSomewhere
  <1>8. b[j] <= c /\ c < b[j] + seg[j]
    <2>1. PICK w \in Nat : w = b[j]
      BY <1>5
    <2>3. PICK e \in Nat : e = w + seg[j]
      BY <1>6, <2>1
    <2>2. w * m <= c * m + r /\ c * m + r < e * m
      BY <1>3, <1>5, <1>6, <1>7, <2>1, <2>3
    <2>4. w <= c /\ c < e
      BY <1>3, <2>2, SectorWithin
    <2> QED
      BY <2>1, <2>3, <2>4
  <1>9. i \in 1 .. Len(seg) /\ b[i] <= c /\ c < b[i] + seg[i]
    BY <1>2, <1>4, <1>8
  <1>17. PICK w \in Nat : w = b[i]
    BY <1>5, <1>9
  <1>10. PICK e \in Nat : w = b[i] /\ e = b[i] + seg[i] /\ w <= c /\ c < e
    BY <1>6, <1>9, <1>17
  <1>11. c * m + m <= e * m /\ w * m + ((c - w) * m + r) = c * m + r
    <2>1. r < m
      BY <1>3
    <2>2. WithinIs(m, c, r, w, e)
      BY ONLY <1>10, <2>1, c \in Nat, r \in Nat, m \in Nat \ {0}, w \in Nat, e \in Nat,
         SectorWithin
    <2> QED
      BY <2>2 DEF WithinIs
  <1>12. w * m = f[i - 1] /\ e * m = f[i]
    BY <1>5, <1>6, <1>9, <1>10
  <1>13. PICK o \in Nat : o = (c - w) * m + r
    <2>1. c - w \in Nat
      BY <1>9, <1>10
    <2>2. (c - w) * m \in Nat
      BY <2>1, TimesIs
    <2> QED
      BY <2>2
  <1>14. f[i - 1] + o = at
    BY <1>3, <1>11, <1>12, <1>13
  <1>15. at + (m - r) <= f[i]
    <2>1. PICK cm \in Nat : cm = c * m
      BY TimesIs
    <2>2. at = cm + r /\ cm + m <= f[i]
      BY <1>3, <1>11, <1>12, <2>1
    <2>3. at + (m - r) = cm + m
      BY ONLY <2>2, cm \in Nat, m \in Nat \ {0}, r \in Nat
    <2> QED
      BY <2>2, <2>3
  <1>16. /\ Reading!SectorLsn(c)[1] = i /\ Reading!SectorLsn(c)[2] = c - w
    BY <1>4, <1>10
  <1>18. rest = r /\ lsn[1] = i /\ lsn[2] = c - w
    <2>1. c = l.filepos \div FileBps /\ r = l.filepos % FileBps
      BY <1>1, <1>3
    <2> QED
      BY <1>16, <2>1
  <1>20. i \in 1 .. Len(l.seg) /\ f[i - 1] + o = l.filepos /\ l.filepos + (FileBps - rest) <= f[i]
    BY <1>1, <1>2, <1>9, <1>14, <1>15, <1>18
  <1>21. lsn[2] * FileBps + rest = o
    BY <1>1, <1>13, <1>18
  <1>19. SectorAt(f, lsn, rest, i, o)
    BY ONLY <1>18, <1>20, <1>21, o \in Nat DEF SectorAt
  <1> QED
    BY <1>19

LEMMA SectorCopied ==
  ASSUME NEW f, NEW all, all = Reading!Bytes(l.seg), ReadState(l, f, all), Reading!CopySector
  PROVE  ReadInv'
  <1>1. l.pc = "copy" /\ l.lib = "dragon" /\ l.left > 0 /\ ~ (l.filepos >= l.filesize)
    BY DEF Reading!CopySector, Reading!AtEnd
  <1>2. /\ l \in ReadFields /\ Laid(l.seg, f, all) /\ Backs(l, f) /\ Reads(l, all)
        /\ l.start < l.filesize
    BY <1>1 DEF ReadState
  <1>3. /\ l.seg \in Seq(Nat) /\ Len(l.seg) \in Nat /\ l.filepos \in Nat /\ l.left \in Nat
        /\ l.left # 0 /\ Len(l.got) \in Nat /\ l.filesize \in Nat
    BY <1>1, <1>2 DEF ReadFields
  <1>4. l.filepos < f[Len(l.seg)]
    <2>1. l.filesize <= f[Len(l.seg)] + 0
      BY <1>1, <1>2 DEF Backs
    <2>2. f[Len(l.seg)] \in Nat
      BY <1>2, <1>3 DEF Laid
    <2> QED
      BY <1>1, <1>3, <2>1, <2>2
  <1>16. PICK rest \in Nat : rest = l.filepos % FileBps /\ rest < FileBps
    BY <1>3, ReadsAre, SectorOfByte
  <1>5. PICK at : /\ at = Reading!SectorLsn(l.filepos \div FileBps)
                  /\ rest = l.filepos % FileBps /\ rest < FileBps
    BY <1>16
  <1>15. PICK i, offset : SectorAt(f, at, rest, i, offset)
    BY <1>2, <1>4, <1>5, SectorIs
  <1>6. /\ i \in 1 .. Len(l.seg) /\ offset \in Nat
        /\ at[1] = i /\ at[2] * FileBps + rest = offset
        /\ f[i - 1] + offset = l.filepos
        /\ l.filepos + (FileBps - rest) <= f[i]
    BY <1>15 DEF SectorAt
  <1>7. PICK u : u = Reading!Upto(IF l.line THEN 1 ELSE FileBps - rest, l.left)
    OBVIOUS
  <1>8. f[i] \in Nat
    BY <1>2, <1>3, <1>6, LaidAt
  <1>9. u \in Nat /\ u <= l.left /\ l.filepos + u <= f[i] /\ l.filepos + u <= l.filesize
    <2>1. PICK m \in Nat : m = FileBps /\ rest < m
      BY <1>5, ReadsAre
    <2>2. m - rest \in Nat /\ 1 <= m - rest /\ l.filepos + (m - rest) <= f[i]
      BY <1>6, <2>1
    <2>3. CASE l.line
      <3>1. u = 1
        BY <1>1, <1>3, <1>7, <2>3 DEF Reading!Upto
      <3> QED
        BY ONLY <1>1, <1>3, <1>8, <2>2, <3>1
    <2>4. CASE ~ l.line
      <3>1. u = IF m - rest < l.left THEN m - rest ELSE l.left
        BY <1>7, <2>1, <2>4 DEF Reading!Upto
      <3>2. l.filepos + l.left <= l.filesize
        BY <1>2, <2>4, RoomIs
      <3>3. u \in Nat /\ u <= l.left /\ u <= m - rest
        BY ONLY <1>3, <2>2, <3>1
      <3> QED
        BY ONLY <1>3, <1>8, <2>2, <3>2, <3>3
    <2> QED
      BY <2>3, <2>4
  <1>10. Copies(l, Reading!Chunk(i, offset, u), u, all)
    BY ONLY <1>2, <1>6, <1>9, CopiesPart
  <1>11. l' = Reading!Took(Reading!Chunk(i, offset, u), Len(l.got))
    BY <1>5, <1>6, <1>7 DEF Reading!CopySector
  <1>12. CopiedOn(l', l, u, all)
    BY <1>2, <1>3, <1>10, <1>11, TookIs
  <1>13. l' \in ReadFields /\ SameCall(l', l) /\ l'.pc = "copy" /\ Reads(l', all)
    BY <1>1, <1>12 DEF CopiedOn
  <1>14. Placed(l', f)
    BY <1>1, <1>13 DEF Placed, SameCall
  <1> QED
    BY <1>2, <1>13, <1>14, CallKept

-----------------------------------------------------------------------------
(* What calls begin from *)

LEMMA ListIs ==
  ASSUME NEW S, S \subseteq Nat, NEW u \in Nat, NEW seg \in Reading!SeqOf(S, u) \ {<< >>}
  PROVE  seg \in Seq(Nat) /\ Len(seg) \in Nat /\ Len(seg) # 0 /\ \A k \in 1 .. Len(seg) : seg[k] \in S
  <1>1. PICK m \in 0 .. u : seg \in [1 .. m -> S]
    BY DEF Reading!SeqOf
  <1>2. seg \in Seq(S) /\ Len(seg) = m
    BY <1>1, SequenceIs
  <1>3. seg \in Seq(Nat)
    <2>1. seg \in [1 .. m -> Nat]
      BY <1>1
    <2> QED
      BY <2>1, SequenceIs
  <1>4. seg # << >>
    OBVIOUS
  <1>5. Len(seg) # 0
    BY <1>2, <1>4
  <1> QED
    BY <1>1, <1>2, <1>3, <1>5

(* A file as one of the libraries has it, with the size it keeps of it. *)
FileIs(x, f) ==
  /\ x.lib \in {"rbf", "decb", "dragon"} /\ x.seg \in Seq(Nat) /\ Len(x.seg) # 0
  /\ x.mark \in Nat /\ x.lss \in Nat /\ x.filesize \in Nat
  /\ Laid(x.seg, f, Reading!Bytes(x.seg))
  /\ x.filesize <= f[Len(x.seg)] + (IF x.lib = "rbf" THEN 1 ELSE 0)
  /\ x.lib = "decb" =>
       /\ \A k \in 1 .. Len(x.seg) : x.seg[k] = FileSpg /\ f[k] = k * (FileSpg * FileBps)
       /\ x.mark \in 0 .. FileSpg /\ x.lss \in 0 .. FileBps
       /\ x.filesize = (Len(x.seg) - 1) * (FileSpg * FileBps)
                         + (IF x.mark = 0 THEN 0 ELSE x.mark - 1) * FileBps + x.lss
       /\ x.mark = 0 => x.lss = 0

LEMMA SegmentsHold ==
  ASSUME NEW x, NEW lib \in {"rbf", "dragon"},
         NEW seg \in Reading!SeqOf(SegSizes, NumSegs) \ {<< >>}, NEW more,
         more = (IF lib = "rbf" THEN 1 ELSE 0), NEW size \in 0 .. (Len(Reading!Bytes(seg)) + more),
         x = [lib |-> lib, seg |-> seg, mark |-> 0, lss |-> 0, filesize |-> size]
  PROVE  \E f : FileIs(x, f)
  <1>1. seg \in Seq(Nat) /\ Len(seg) # 0
    BY ReadsAre, ListIs
  <1>2. PICK f : Laid(seg, f, Reading!Bytes(seg))
    BY <1>1, FileBytesAre
  <1>3. Len(Reading!Bytes(seg)) = f[Len(seg)] /\ Len(Reading!Bytes(seg)) \in Nat
    BY <1>2 DEF Laid
  <1>4. size \in Nat /\ size <= f[Len(seg)] + more
    BY <1>3
  <1>5. FileIs(x, f)
    BY <1>1, <1>2, <1>4 DEF FileIs
  <1> QED
    BY <1>5

LEMMA GranulesLaid ==
  ASSUME NEW seg \in Seq(Nat), \A k \in 1 .. Len(seg) : seg[k] = FileSpg, NEW f, NEW all,
         Laid(seg, f, all), NEW g \in Nat, g = FileSpg * FileBps
  PROVE  \A k \in 1 .. Len(seg) : f[k] = k * g
  <1>1. PICK m \in Nat : m = Len(seg)
    OBVIOUS
  <1>2. f[0] = 0 /\ \A k \in 1 .. m : f[k] = f[k - 1] + g
    BY <1>1 DEF Laid, Reading!Length
  <1> DEFINE N == { u \in Nat : u <= m => f[u] = u * g }
  <1>3. 0 \in N
    BY <1>2
  <1>4. ASSUME NEW u \in Nat, u \in N PROVE u + 1 \in N
    <2> SUFFICES ASSUME u + 1 <= m PROVE f[u + 1] = (u + 1) * g
      OBVIOUS
    <2>1. u + 1 \in 1 .. m /\ (u + 1) - 1 = u /\ f[u] = u * g
      BY <1>4
    <2>2. f[u + 1] = f[u] + g
      BY <1>2, <2>1
    <2>4. 1 * g = g
      OBVIOUS
    <2>5. (u + 1) * g = u * g + 1 * g
      BY TimesIs
    <2>3. (u + 1) * g = u * g + 1 * g /\ 1 * g = g
      BY <2>4, <2>5
    <2> QED
      BY <2>1, <2>2, <2>3
  <1> HIDE DEF N
  <1>5. ASSUME NEW k \in 1 .. m PROVE f[k] = k * g
    <2>1. k \in Nat /\ k <= m
      BY <1>1
    <2>2. k \in N
      BY <1>3, <1>4, <2>1, AllNumbers
    <2> QED
      BY <2>1, <2>2 DEF N
  <1> QED
    BY <1>1, <1>5

LEMMA Associates ==
  ASSUME NEW a \in Nat, NEW b \in Nat, NEW c \in Nat
  PROVE  (a * b) * c = a * (b * c)
  OBVIOUS

LEMMA GranulesHold ==
  ASSUME NEW x, NEW seg \in Reading!SeqOf({FileSpg}, NumSegs) \ {<< >>},
         NEW mark \in 0 .. FileSpg, NEW lss \in 0 .. FileBps, mark = 0 => lss = 0,
         x = [lib |-> "decb", seg |-> seg, mark |-> mark, lss |-> lss,
              filesize |-> Reading!DecbSize(seg, mark, lss)]
  PROVE  \E f : FileIs(x, f)
  <1>1. FileSpg \in Nat \ {0} /\ FileBps \in Nat \ {0} /\ NumSegs \in Nat
    BY ReadsAre
  <1>2. /\ seg \in Seq(Nat) /\ Len(seg) \in Nat /\ Len(seg) # 0
        /\ \A k \in 1 .. Len(seg) : seg[k] = FileSpg
    <2>1. {FileSpg} \subseteq Nat
      BY <1>1
    <2>2. /\ seg \in Seq(Nat) /\ Len(seg) \in Nat /\ Len(seg) # 0
          /\ \A k \in 1 .. Len(seg) : seg[k] \in {FileSpg}
      BY <1>1, <2>1, ListIs
    <2> QED
      BY <2>2
  <1>3. PICK f : Laid(seg, f, Reading!Bytes(seg))
    BY <1>2, FileBytesAre
  <1>4. PICK g \in Nat : g = FileSpg * FileBps
    BY <1>1, ProductIs
  <1>5. \A k \in 1 .. Len(seg) : f[k] = k * g
    BY <1>2, <1>3, <1>4, GranulesLaid
  <1>6. PICK p \in Nat : p = (IF mark = 0 THEN 0 ELSE mark - 1)
    BY <1>1
  <1>7. PICK before \in Nat : before = (Len(seg) - 1) * g
    <2>1. Len(seg) - 1 \in Nat
      BY <1>2
    <2> QED
      BY <2>1, TimesIs
  <1>8. Reading!DecbSize(seg, mark, lss) = before + p * FileBps + lss
    <2>1. Len(seg) - 1 \in Nat
      BY <1>2
    <2>2. ((Len(seg) - 1) * FileSpg) * FileBps = before
      BY <1>1, <1>4, <1>7, <2>1, Associates
    <2> QED
      BY <1>6, <2>2 DEF Reading!DecbSize
  <1>9. PICK z \in Nat : z = p * FileBps
    BY <1>1, TimesIs
  <1>10. z + lss <= g
    <2>1. p < FileSpg
      BY <1>1, <1>6
    <2>2. p * FileBps + FileBps <= FileSpg * FileBps
      BY <1>1, <2>1, TimesLess
    <2> QED
      BY <1>1, <1>4, <1>9, <2>2
  <1>11. f[Len(seg)] = before + g
    <2>1. Len(seg) \in 1 .. Len(seg) /\ Len(seg) - 1 \in Nat /\ (Len(seg) - 1) + 1 = Len(seg)
      BY <1>2
    <2>2. ((Len(seg) - 1) + 1) * g = (Len(seg) - 1) * g + 1 * g /\ 1 * g = g
      BY <2>1, TimesIs
    <2> QED
      BY <1>5, <1>7, <2>1, <2>2
  <1>12. PICK size \in Nat : size = Reading!DecbSize(seg, mark, lss) /\ size <= f[Len(seg)] + 0
         /\ size = before + p * FileBps + lss
    <2>1. lss \in Nat
      BY <1>1
    <2>2. before + z + lss \in Nat /\ before + z + lss <= before + g
      BY <1>10, <2>1
    <2> QED
      BY <1>8, <1>9, <1>11, <2>2
  <1>13. FileIs(x, f)
    <2>1. mark \in Nat /\ lss \in Nat
      BY <1>1
    <2>2. /\ x.lib = "decb" /\ x.seg = seg /\ x.mark = mark /\ x.lss = lss /\ x.filesize = size
      BY <1>12
    <2>3. \A k \in 1 .. Len(seg) : seg[k] = FileSpg /\ f[k] = k * (FileSpg * FileBps)
      BY <1>2, <1>4, <1>5
    <2>4. size = (Len(seg) - 1) * (FileSpg * FileBps)
                   + (IF mark = 0 THEN 0 ELSE mark - 1) * FileBps + lss
      BY <1>4, <1>6, <1>7, <1>12
    <2> QED
      BY <1>2, <1>3, <1>12, <2>1, <2>2, <2>3, <2>4 DEF FileIs
  <1> QED
    BY <1>13

LEMMA FilesAre ==
  ASSUME NEW x \in Reading!Files
  PROVE  \E f : FileIs(x, f)
  <1>1. \/ x \in Reading!OfSegments("rbf", 1) \/ x \in Reading!OfSegments("dragon", 0)
        \/ x \in Reading!OfGranules
    BY DEF Reading!Files
  <1> DEFINE lists == Reading!SeqOf(SegSizes, NumSegs) \ {<< >>}
             granules == Reading!SeqOf({FileSpg}, NumSegs) \ {<< >>}
             lasts == {<< 0, 0 >>} \cup (1 .. FileSpg) \X (0 .. FileBps)
  <1>2. ASSUME x \in Reading!OfSegments("rbf", 1) PROVE \E f : FileIs(x, f)
    <2>1. \E seg \in lists : \E size \in 0 .. (Len(Reading!Bytes(seg)) + 1) :
            x = Reading!File("rbf", seg, 0, 0, size)
      BY <1>2 DEF Reading!OfSegments
    <2> QED
      BY <2>1, SegmentsHold DEF Reading!File
  <1>3. ASSUME x \in Reading!OfSegments("dragon", 0) PROVE \E f : FileIs(x, f)
    <2>1. \E seg \in lists : \E size \in 0 .. (Len(Reading!Bytes(seg)) + 0) :
            x = Reading!File("dragon", seg, 0, 0, size)
      BY <1>3 DEF Reading!OfSegments
    <2> QED
      BY <2>1, SegmentsHold DEF Reading!File
  <1>4. ASSUME x \in Reading!OfGranules PROVE \E f : FileIs(x, f)
    <2>1. Reading!OfGranules = { Reading!File("decb", seg, last[1], last[2],
                                              Reading!DecbSize(seg, last[1], last[2]))
                                 : seg \in granules, last \in lasts }
      BY DEF Reading!OfGranules
    <2> HIDE DEF granules, lasts
    <2>2. PICK seg \in granules, last \in lasts :
            x = Reading!File("decb", seg, last[1], last[2], Reading!DecbSize(seg, last[1], last[2]))
      BY <1>4, <2>1
    <2>3. PICK mark, lss : mark = last[1] /\ lss = last[2]
      OBVIOUS
    <2>4. mark \in 0 .. FileSpg /\ lss \in 0 .. FileBps /\ (mark = 0 => lss = 0)
      BY <2>3, ReadsAre DEF lasts
    <2> QED
      BY <2>2, <2>3, <2>4, GranulesHold DEF Reading!File, granules
  <1> QED
    BY <1>1, <1>2, <1>3, <1>4

LEMMA EndsAre ==
  ASSUME NEW line \in BOOLEAN, NEW seg, Reading!Bytes(seg) \in Seq(Address),
         NEW eols \in Reading!Ends(line, seg)
  PROVE  eols \in SUBSET Address
  <1>1. Reading!ToSet(Reading!Bytes(seg)) \subseteq Address
    BY DEF Reading!ToSet
  <1> QED
    BY <1>1 DEF Reading!Ends

LEMMA CallBegins == Reading!Init => ReadInv
  <1> SUFFICES ASSUME Reading!Init PROVE ReadInv
    OBVIOUS
  <1>1. PICK x \in Reading!Files, line \in BOOLEAN :
          \E start \in 0 .. x.filesize, asked \in Asked, eols \in Reading!Ends(line, x.seg) :
            l = [loop |-> "read", lib |-> x.lib, line |-> line, seg |-> x.seg, mark |-> x.mark,
                 lss |-> x.lss, filesize |-> x.filesize, eols |-> eols, start |-> start,
                 asked |-> asked, pc |-> "begin", i |-> 1, accum |-> 0, left |-> 0,
                 size |-> asked, filepos |-> start, got |-> << >>, ec |-> "ok"]
    BY DEF Reading!Init
  <1>2. PICK start \in 0 .. x.filesize, asked \in Asked, eols \in Reading!Ends(line, x.seg) :
            l = [loop |-> "read", lib |-> x.lib, line |-> line, seg |-> x.seg, mark |-> x.mark,
                 lss |-> x.lss, filesize |-> x.filesize, eols |-> eols, start |-> start,
                 asked |-> asked, pc |-> "begin", i |-> 1, accum |-> 0, left |-> 0,
                 size |-> asked, filepos |-> start, got |-> << >>, ec |-> "ok"]
    BY <1>1
  <1>3. PICK f : FileIs(x, f)
    BY FilesAre
  <1>4. /\ x.lib \in {"rbf", "decb", "dragon"} /\ x.seg \in Seq(Nat) /\ x.mark \in Nat
        /\ x.lss \in Nat /\ x.filesize \in Nat /\ Laid(x.seg, f, Reading!Bytes(x.seg))
    BY <1>3 DEF FileIs
  <1>5. eols \in SUBSET Address
    BY <1>4, EndsAre DEF Laid
  <1>6. asked \in Nat /\ start \in Nat /\ start <= x.filesize /\ << >> \in Seq(Address)
    BY <1>4, ReadsAre
  <1>7. l \in ReadFields /\ l.pc = "begin" /\ Begun(l)
    BY <1>2, <1>4, <1>5, <1>6 DEF ReadFields, Begun
  <1>8. Backs(l, f)
    BY <1>2, <1>3, <1>6 DEF FileIs, Backs
  <1>9. Laid(l.seg, f, Reading!Bytes(l.seg))
    BY <1>2, <1>4
  <1>10. ReadState(l, f, Reading!Bytes(l.seg))
    BY <1>7, <1>8, <1>9 DEF ReadState
  <1> QED
    BY <1>10 DEF ReadInv

LEMMA CallGoesOn == ASSUME ReadInv, l.loop = "read", Reading!Next PROVE ReadInv'
  <1>1. PICK f, all : all = Reading!Bytes(l.seg) /\ ReadState(l, f, all)
    BY DEF ReadInv
  <1> QED
    BY <1>1, EndReached, ReadBegun, SegmentSought, SegmentMissed, SegmentCopied, GranuleSought,
       GranuleCopied, LineEndedFile, SectorCopied, ReadDone, DescriptorFailed, ReadFailed
       DEF Reading!Next

LEMMA ReadingGoesOn == ASSUME HasLoop, [Next]_vars, l.loop = "read" PROVE Reading!Next \/ UNCHANGED l
  BY DEF Next, HasLoop, vars

(* A read returns the bytes of the file that were asked for, in order and   *)
(* once each, and says how many unless it begins at the end of the file,    *)
(* through each of the three libraries: for every size of sector and        *)
(* granule, every list of segments, granules or extents, every position,    *)
(* and wherever the lines end.                                              *)
THEOREM FileIsRead == Spec => []ReadsTheFile
  <1>1. Init => HasLoop /\ ReadInv
    <2> SUFFICES ASSUME Init PROVE ReadInv
      BY LoopBegins DEF Init
    <2>1. CASE Reading!Init
      BY <2>1, CallBegins
    <2>2. CASE l.loop # "read"
      BY <2>2 DEF ReadInv
    <2> QED
      BY <2>1, <2>2, LoopBegins DEF Init
  <1>2. HasLoop /\ ReadInv /\ [Next]_vars => (HasLoop /\ ReadInv)'
    <2> SUFFICES ASSUME HasLoop, ReadInv, [Next]_vars PROVE ReadInv'
      BY LoopStays
    <2>1. CASE l.loop = "read" /\ Reading!Next
      BY <2>1, CallGoesOn
    <2>2. CASE UNCHANGED l
      BY <2>2 DEF ReadInv
    <2>3. CASE l.loop # "read"
      BY <2>3, LoopStays DEF ReadInv
    <2> QED
      BY <2>1, <2>2, <2>3, ReadingGoesOn
  <1>3. ReadInv => ReadsTheFile
    BY AnsweredIs DEF ReadInv, ReadsTheFile
  <1> QED
    BY <1>1, <1>2, <1>3, PTL DEF Spec
=============================================================================

------------------------------ MODULE Iteration ------------------------------
(***************************************************************************)
(* Induction on the natural numbers, and the sequence of a function's      *)
(* iterates, from the fact that < is well founded on Nat.  What follows a  *)
(* chain of links in a table (a FAT, a directory) is such a sequence.      *)
(***************************************************************************)
EXTENDS Integers, FiniteSets, FiniteSetTheorems, WellFoundedInduction, TLAPS

(* A set of numbers that is not empty has a least one.                      *)
LEMMA LeastNumber ==
  ASSUME NEW T \in SUBSET Nat, T # {}
  PROVE  \E x \in T : \A y \in T : x <= y
  <1> DEFINE R == OpToRel(<, Nat)
  <1>1. IsWellFoundedOn(R, Nat)
    BY NatLessThanWellFounded
  <1>2. \A x, y \in Nat : x < y => << x, y >> \in R
    BY DEF OpToRel
  <1> HIDE DEF R
  <1>3. PICK x \in T : \A y \in T : ~ (<< y, x >> \in R)
    BY <1>1, WFMin
  <1>4. \A y \in T : ~ (y < x)
    BY <1>2, <1>3
  <1> QED
    BY <1>4

(* A set that has 0, and with a number the next one, has every number.      *)
LEMMA AllNumbers ==
  ASSUME NEW S, 0 \in S, \A n \in Nat : n \in S => n + 1 \in S
  PROVE  Nat \subseteq S
  <1> SUFFICES ASSUME Nat \ S # {} PROVE FALSE
    OBVIOUS
  <1>1. PICK x \in Nat \ S : \A y \in Nat \ S : x <= y
    BY LeastNumber
  <1>2. x - 1 \in Nat /\ x - 1 \in S
    BY <1>1
  <1> QED
    BY <1>1, <1>2

(* The first k iterates of n from x on. *)
Iterates(S, x, n, k) ==
  { h \in [0 .. k -> S] : h[0] = x /\ \A i \in 1 .. k : h[i] = n[h[i - 1]] }

LEMMA IteratesAgree ==
  ASSUME NEW S, NEW x \in S, NEW n \in [S -> S],
         NEW a \in Nat, NEW b \in Nat,
         NEW h \in Iterates(S, x, n, a), NEW k \in Iterates(S, x, n, b)
  PROVE  \A i \in Nat : i <= a /\ i <= b => h[i] = k[i]
  <1> DEFINE T == { i \in Nat : i <= a /\ i <= b => h[i] = k[i] }
  <1>1. 0 \in T
    BY DEF Iterates
  <1>2. ASSUME NEW i \in Nat, i \in T PROVE i + 1 \in T
    <2> SUFFICES ASSUME i + 1 <= a, i + 1 <= b PROVE h[i + 1] = k[i + 1]
      OBVIOUS
    <2>1. h[i] = k[i]
      BY <1>2
    <2>2. i + 1 \in 1 .. a /\ i + 1 \in 1 .. b /\ (i + 1) - 1 = i
      OBVIOUS
    <2>3. h[i + 1] = n[h[i]] /\ k[i + 1] = n[k[i]]
      BY <2>2 DEF Iterates
    <2> QED
      BY <2>1, <2>3
  <1> HIDE DEF T
  <1>3. Nat \subseteq T
    BY <1>1, <1>2, AllNumbers
  <1> QED
    BY <1>3 DEF T

LEMMA IteratesExist ==
  ASSUME NEW S, NEW x \in S, NEW n \in [S -> S]
  PROVE  \A k \in Nat : Iterates(S, x, n, k) # {}
  <1> DEFINE T == { k \in Nat : Iterates(S, x, n, k) # {} }
  <1>1. 0 \in T
    <2>1. [i \in 0 .. 0 |-> x] \in Iterates(S, x, n, 0)
      BY DEF Iterates
    <2> QED
      BY <2>1
  <1>2. ASSUME NEW k \in Nat, k \in T PROVE k + 1 \in T
    <2>1. PICK h \in Iterates(S, x, n, k) : TRUE
      BY <1>2
    <2> DEFINE g == [i \in 0 .. k + 1 |-> IF i = k + 1 THEN n[h[k]] ELSE h[i]]
    <2>2. h \in [0 .. k -> S] /\ h[0] = x /\ \A i \in 1 .. k : h[i] = n[h[i - 1]]
      BY DEF Iterates
    <2>3. g \in [0 .. k + 1 -> S] /\ g[0] = x
      BY <2>2
    <2>4. ASSUME NEW i \in 1 .. k + 1 PROVE g[i] = n[g[i - 1]]
      <3>1. CASE i = k + 1
        BY <3>1, <2>2
      <3>2. CASE i # k + 1
        BY <3>2, <2>2
      <3> QED
        BY <3>1, <3>2
    <2> HIDE DEF g
    <2>5. g \in Iterates(S, x, n, k + 1)
      BY <2>3, <2>4 DEF Iterates
    <2> QED
      BY <2>5
  <1> HIDE DEF T
  <1>3. Nat \subseteq T
    BY <1>1, <1>2, AllNumbers
  <1> QED
    BY <1>3 DEF T

(* The iterates are the one function that the recursive definition names.   *)
LEMMA IterationExists ==
  ASSUME NEW S, NEW x \in S, NEW n \in [S -> S]
  PROVE  \E w \in [Nat -> S] : w = [k \in Nat |-> IF k = 0 THEN x ELSE n[w[k - 1]]]
  <1> DEFINE I(k) == CHOOSE h \in Iterates(S, x, n, k) : TRUE
             w == [k \in Nat |-> I(k)[k]]
  <1>1. \A k \in Nat : I(k) \in Iterates(S, x, n, k)
    BY IteratesExist
  <1> HIDE DEF I
  <1>2. w \in [Nat -> S] /\ w[0] = x
    BY <1>1 DEF Iterates
  <1>3. ASSUME NEW k \in Nat \ {0} PROVE w[k] = n[w[k - 1]]
    <2>1. k - 1 \in Nat /\ k - 1 <= k /\ k \in 1 .. k
      OBVIOUS
    <2>2. I(k) \in Iterates(S, x, n, k) /\ I(k - 1) \in Iterates(S, x, n, k - 1)
      BY <1>1, <2>1
    <2>3. I(k)[k - 1] = I(k - 1)[k - 1]
      BY <2>1, <2>2, IteratesAgree
    <2>4. I(k)[k] = n[I(k)[k - 1]]
      BY <2>1, <2>2 DEF Iterates
    <2> QED
      BY <2>1, <2>3, <2>4
  <1> HIDE DEF w
  <1>4. \A k \in Nat : w[k] = IF k = 0 THEN x ELSE n[w[k - 1]]
    BY <1>2, <1>3
  <1>5. w = [k \in Nat |-> w[k]]
    BY <1>2
  <1>6. w = [k \in Nat |-> IF k = 0 THEN x ELSE n[w[k - 1]]]
    BY <1>4, <1>5
  <1> QED
    BY <1>2, <1>6
-----------------------------------------------------------------------------
(* The iterates of n from x on, as a walk along the links n.                *)
IsWalk(w, S, x, n) == w \in [Nat -> S] /\ w[0] = x /\ \A k \in Nat : w[k + 1] = n[w[k]]

(* A walk that begins like another, along links that are the same.          *)
LEMMA WalksAgree ==
  ASSUME NEW S, NEW x \in S, NEW n, NEW o, NEW v, NEW w, NEW m \in Nat,
         IsWalk(v, S, x, n), IsWalk(w, S, x, o),
         \A k \in 0 .. (m - 1) : n[v[k]] = o[v[k]]
  PROVE  \A k \in 0 .. m : w[k] = v[k]
  <1> DEFINE T == { k \in Nat : k <= m => w[k] = v[k] }
  <1>1. 0 \in T
    BY DEF IsWalk
  <1>2. ASSUME NEW k \in Nat, k \in T PROVE k + 1 \in T
    <2> SUFFICES ASSUME k + 1 <= m PROVE w[k + 1] = v[k + 1]
      OBVIOUS
    <2>1. w[k] = v[k] /\ k \in 0 .. (m - 1)
      BY <1>2
    <2>2. w[k + 1] = o[w[k]] /\ v[k + 1] = n[v[k]]
      BY DEF IsWalk
    <2> QED
      BY <2>1, <2>2
  <1> HIDE DEF T
  <1>3. Nat \subseteq T
    BY <1>1, <1>2, AllNumbers
  <1> QED
    BY <1>3 DEF T

(* A walk does not leave a set that its links do not leave.                 *)
LEMMA WalkClosed ==
  ASSUME NEW S, NEW x, NEW n, NEW w, IsWalk(w, S, x, n), NEW C,
         x \in C, \A y \in C : n[y] \in C
  PROVE  \A k \in Nat : w[k] \in C
  <1> DEFINE T == { k \in Nat : w[k] \in C }
  <1>1. 0 \in T
    BY DEF IsWalk
  <1>2. ASSUME NEW k \in Nat, k \in T PROVE k + 1 \in T
    BY <1>2 DEF IsWalk
  <1> HIDE DEF T
  <1>3. Nat \subseteq T
    BY <1>1, <1>2, AllNumbers
  <1> QED
    BY <1>3 DEF T

(* Links that lead from the ends of walks to themselves. *)
LEMMA WalkStays ==
  ASSUME NEW S, NEW x, NEW n, NEW w, IsWalk(w, S, x, n),
         NEW m \in Nat, n[w[m]] = w[m]
  PROVE  \A k \in Nat : k >= m => w[k] = w[m]
  <1> DEFINE T == { k \in Nat : k >= m => w[k] = w[m] }
  <1>1. 0 \in T
    OBVIOUS
  <1>2. ASSUME NEW k \in Nat, k \in T PROVE k + 1 \in T
    <2>1. w[k + 1] = n[w[k]]
      BY DEF IsWalk
    <2>2. CASE k >= m
      BY <1>2, <2>1, <2>2
    <2>3. CASE ~ (k >= m)
      BY <2>3
    <2> QED
      BY <2>2, <2>3
  <1> HIDE DEF T
  <1>3. Nat \subseteq T
    BY <1>1, <1>2, AllNumbers
  <1> QED
    BY <1>3 DEF T

(* Up to its first end a walk is nowhere twice: it would go round.          *)
LEMMA WalkDistinct ==
  ASSUME NEW S, NEW x, NEW n, NEW w, IsWalk(w, S, x, n), NEW E,
         NEW m \in Nat, w[m] \in E, \A k \in 0 .. (m - 1) : w[k] \notin E
  PROVE  \A i, j \in 0 .. m : w[i] = w[j] => i = j
  <1>1. ASSUME NEW i \in 0 .. m, NEW j \in 0 .. m, i < j, w[i] = w[j] PROVE FALSE
    <2> DEFINE T == { d \in Nat : w[i + d] = w[j + d] }
    <2>1. 0 \in T
      BY <1>1
    <2>2. ASSUME NEW d \in Nat, d \in T PROVE d + 1 \in T
      <3>1. w[(i + d) + 1] = n[w[i + d]] /\ w[(j + d) + 1] = n[w[j + d]]
        BY DEF IsWalk
      <3>2. w[(i + d) + 1] = w[(j + d) + 1]
        BY <2>2, <3>1
      <3> QED
        BY <3>2
    <2> HIDE DEF T
    <2>3. Nat \subseteq T
      BY <2>1, <2>2, AllNumbers
    <2>4. m - j \in Nat /\ i + (m - j) \in 0 .. (m - 1) /\ j + (m - j) = m
      BY <1>1
    <2>5. w[i + (m - j)] = w[j + (m - j)]
      BY <2>3, <2>4 DEF T
    <2> QED
      BY <2>4, <2>5
  <1> QED
    BY <1>1

(* So it is in as many places as it has made steps, and one, of the finite  *)
(* set it is in.                                                            *)
LEMMA WalkShort ==
  ASSUME NEW S, IsFiniteSet(S), NEW x, NEW n, NEW w, IsWalk(w, S, x, n), NEW E,
         NEW m \in Nat, w[m] \in E, \A k \in 0 .. (m - 1) : w[k] \notin E,
         NEW C, C = { w[k] : k \in 0 .. m }
  PROVE  m + 1 <= Cardinality(S) /\ IsFiniteSet(C) /\ Cardinality(C) = m + 1
  <1> DEFINE h == [k \in 0 .. m |-> w[k]]
  <1>1. \A i, j \in 0 .. m : w[i] = w[j] => i = j
    BY WalkDistinct
  <1>2. C \subseteq S
    BY DEF IsWalk
  <1>3. h \in Bijection(0 .. m, C)
    <2>1. h \in [0 .. m -> C] /\ \A k \in 0 .. m : h[k] = w[k]
      OBVIOUS
    <2>2. \A y \in C : \E k \in 0 .. m : h[k] = y
      OBVIOUS
    <2> HIDE DEF h
    <2>3. h \in Injection(0 .. m, C)
      BY <1>1, <2>1 DEF Injection, IsInjective
    <2>4. h \in Surjection(0 .. m, C)
      BY <2>1, <2>2 DEF Surjection
    <2> QED
      BY <2>3, <2>4 DEF Bijection
  <1>4. IsFiniteSet(0 .. m) /\ Cardinality(0 .. m) = m + 1
    BY FS_Interval
  <1> HIDE DEF h
  <1>5. IsFiniteSet(C) /\ Cardinality(C) = Cardinality(0 .. m)
    BY <1>3, <1>4, FS_Bijection DEF ExistsBijection
  <1>6. Cardinality(C) <= Cardinality(S)
    BY <1>2, FS_Subset
  <1> QED
    BY <1>4, <1>5, <1>6
=============================================================================

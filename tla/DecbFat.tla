------------------------------- MODULE DecbFat -------------------------------
(***************************************************************************)
(* The file allocation table of a Disk BASIC disk, and the chain of        *)
(* granules of a file in it (libdecbgs.c, libdecbwrite.c, libdecbkill.c).  *)
(***************************************************************************)
EXTENDS Integers, FiniteSets

CONSTANTS
  Granules,  \* granules of the disk (68): two to a track
  SpG,       \* sectors per granule (9)
  Bps        \* bytes per sector (256)

ASSUME FatAssumption ==
  /\ Granules \in 1 .. 192 /\ Granules % 2 = 0
  /\ SpG \in 1 .. 62
  /\ Bps \in Nat \ {0}

Granule == 0 .. (Granules - 1)

(* The byte of a granule: the next granule of its file, or that it is the  *)
(* last one and k sectors of it are used, or that it is free.              *)
Last(k) == 192 + k

Free == 255

Byte == Granule \cup { Last(k) : k \in 0 .. SpG } \cup {Free}

EndsAt(f, g) == f[g] >= 192

GranuleSize == SpG * Bps

(* The granules from g on: number k, and the last one for every k past it. *)
Walk(f, g) ==
  LET w[k \in Nat] ==
        IF k = 0 THEN g
        ELSE LET h == w[k - 1] IN IF EndsAt(f, h) THEN h ELSE f[h]
  IN  w

Chain(f, g) == { Walk(f, g)[k] : k \in 0 .. (Granules - 1) }

LastOf(f, g) == Walk(f, g)[Granules - 1]

(* A chain that does not come to an end: the loops that follow it would    *)
(* not either.                                                             *)
Endless(f, g) == ~ EndsAt(f, LastOf(f, g))

(* Granules of a file before its last one, and the bytes in them. *)
EndOf(f, g) == Cardinality(Chain(f, g)) - 1

SizeBefore(f, g) == GranuleSize * EndOf(f, g)

(* Bytes of its last granule a file uses: the whole sectors but one, and   *)
(* what the directory entry says of that one.                              *)
UsedInLast(v, last) == Bps * (v - Last(1)) + last

(* _decb_gs_size *)
FileSize(f, e) ==
  LET v == f[LastOf(f, e.first)] IN
  SizeBefore(f, e.first) + (IF v = Last(0) THEN e.last ELSE UsedInLast(v, e.last))

(* The granules find_free_granule looks at, in this order: the track's of  *)
(* granule near, then by turns one further below and one further above.    *)
Rank(near, g) ==
  LET t == near - (near % 2)
      b == g - (g % 2)
  IN  2 * (IF b < t THEN t - b - 1 ELSE b - t) + (g % 2)

IsNearestFree(f, near, g) ==
  /\ f[g] = Free
  /\ \A h \in Granule : f[h] = Free => Rank(near, g) <= Rank(near, h)

IsFull(f) == \A g \in Granule : f[g] # Free

(* Mutant: the last sector of a size that fills its sectors counts as one  *)
(* more.                                                                   *)
LastForRounded(used) == Last(used \div Bps + 1)

(* How the FAT and the entry say that used bytes of the last granule are.  *)
LastFor(used) == IF used % Bps = 0 THEN Last(used \div Bps) ELSE Last(used \div Bps + 1)

BytesInLastSector(used) == IF used % Bps = 0 THEN Bps ELSE used % Bps
=============================================================================

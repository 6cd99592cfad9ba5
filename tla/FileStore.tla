------------------------------ MODULE FileStore ------------------------------
(***************************************************************************)
(* What a file system promises of a directory of files: a call on a name   *)
(* changes that name's file only, at one instant, and leaves the others.   *)
(* A file is its size; that it also holds what was written is an invariant *)
(* of the file systems, each of which implements this specification.       *)
(***************************************************************************)
EXTENDS Integers

CONSTANTS
  Names,   \* names of files
  Sizes    \* sizes a file may have

VARIABLE files   \* files[n]: the size of file n, or Absent

Absent == -1

Init == files = [n \in Names |-> Absent]

Create(n) ==
  /\ files[n] = Absent
  /\ files' = [files EXCEPT ![n] = 0]

Grow(n) ==
  /\ files[n] # Absent
  /\ files'[n] \in Sizes
  /\ files'[n] > files[n]
  /\ files' = [files EXCEPT ![n] = files'[n]]

Remove(n) ==
  /\ files[n] # Absent
  /\ files' = [files EXCEPT ![n] = Absent]

Rename(n, m) ==
  /\ files[n] # Absent /\ files[m] = Absent
  /\ files' = [files EXCEPT ![n] = Absent, ![m] = files[n]]

Next ==
  \/ \E n \in Names : Create(n) \/ Grow(n) \/ Remove(n)
  \/ \E n, m \in Names : Rename(n, m)

Spec == Init /\ [][Next]_files
=============================================================================

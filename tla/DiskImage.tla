------------------------------ MODULE DiskImage ------------------------------
(***************************************************************************)
(* A raw disk image, which has no header and grows as it is written        *)
(* (libdiskimagesector.c, libdiskimageopen.c), under the LSNs of an OS-9   *)
(* disk with or without a short track 0 (librbfdisk.c), while several      *)
(* opens of the file read and write it.                                    *)
(*                                                                         *)
(* A sector has two halves, which hold the number of the write that wrote  *)
(* them: a write of a sector or of half of one is one step, and each time  *)
(* it writes to the file the write may fail.                               *)
(*                                                                         *)
(* Each open reads through a buffer of its own, that of its FILE.  A seek  *)
(* inside it does not read the file again, one elsewhere and a write empty *)
(* it.                                                                     *)
(***************************************************************************)
EXTENDS Integers, Sequences

CONSTANTS
  Spt,        \* sectors per track, and slots of the file (18)
  Track0s,    \* sectors that track 0 may have, 1 .. Spt; Spt when it is not short
  DiskTotal,  \* sectors the disk has, whatever its track 0
  Opens,      \* the opens of the file
  BufferSlots,  \* slots a FILE's buffer has room for (16)
  MaxWrites   \* Bound: writes

VARIABLES
  t0,     \* sectors of track 0, as LSN 0 has it
  file,   \* the sectors in the file
  opens,  \* per open: slots, total: raw_slots, total_sectors; or Closed
  held,   \* per open: what its buffer has, by slot
  wrote,  \* history: per LSN and half, the last write to it
  blind,  \* history: the LSNs half of which an open wrote that did not see the rest
  missed, \* history: per open, the LSNs another open wrote while its buffer had them
  n       \* writes so far

vars == << t0, file, opens, held, wrote, blind, missed, n >>

Lsn == 0 .. (DiskTotal - 1)
Half == {"low", "high"}
Closed == [slots |-> -1, total |-> -1]

Zero == [h \in Half |-> 0]
FF == [h \in Half |-> -1]

Missing == Spt - t0

(* Mutant: the unused slots of a short track 0 are left out. *)
SlotUnshifted(lsn) == lsn

(* locate and di_linear_slot: the slot of the file an LSN is in. *)
Slot(lsn) == IF lsn >= t0 THEN lsn + Missing ELSE lsn

(* di_raw_set_slots: the sectors there are in so many slots. *)
TotalOf(slots) ==
  IF Missing = 0 \/ slots <= t0 THEN slots
  ELSE IF slots >= Spt THEN slots - Missing
  ELSE t0

SetSlots(slots) == [slots |-> slots, total |-> TotalOf(slots)]

(* The initial file holds LSN 0, and no more than the disk. *)
Init ==
  /\ t0 \in Track0s
  /\ file \in { [i \in 1 .. k |-> Zero] : k \in 1 .. (DiskTotal + Missing) }
  /\ opens = [o \in Opens |-> Closed]
  /\ held = [o \in Opens |-> << >>]
  /\ missed = [o \in Opens |-> {}]
  /\ wrote = [lsn \in Lsn |-> Zero]
  /\ blind = {}
  /\ n = 0

(* What a buffer can have when the file is read at a slot: from there on, or *)
(* from where the slot's block of the file begins.                          *)
Filled(slot) ==
  { [i \in (from .. (from + BufferSlots - 1)) \cap (0 .. (Len(file) - 1)) |-> file[i + 1]]
    : from \in {slot, slot - (slot % BufferSlots)} }

Fill(o, slot) ==
  /\ \E buffer \in Filled(slot) : held' = [held EXCEPT ![o] = buffer]
  /\ missed' = [missed EXCEPT ![o] = {}]

(* The first sector is read to tell the format, and track 0.                *)
Open(o) ==
  /\ opens[o] = Closed
  /\ opens' = [opens EXCEPT ![o] = SetSlots(Len(file))]
  /\ Fill(o, 0)
  /\ UNCHANGED << t0, file, wrote, blind, n >>

Close(o) ==
  /\ opens[o] # Closed
  /\ opens' = [opens EXCEPT ![o] = Closed]
  /\ held' = [held EXCEPT ![o] = << >>]
  /\ missed' = [missed EXCEPT ![o] = {}]
  /\ UNCHANGED << t0, file, wrote, blind, n >>

(* Mutant: the file's size is only looked at when it is opened. *)
NoRefresh(o, lsn) == opens[o]

(* The open after the image's locate, which looks at the file's size if the *)
(* sector is past the end of what is known of it.                           *)
Refreshed(o, lsn) ==
  IF lsn >= opens[o].total /\ Len(file) > opens[o].slots THEN SetSlots(Len(file))
  ELSE opens[o]

(* A sector is read from the buffer if it is there, but not after a look at *)
(* the file's size, which is a seek to its end.                             *)
Buffered(o, lsn) == lsn < opens[o].total /\ Slot(lsn) \in DOMAIN held[o]

(* read_address, at the sector of an LSN: what it holds, or an error. *)
ReadSector(o, p, lsn) ==
  IF lsn >= p.total THEN [ec |-> "EOS_SECT", data |-> Zero]
  ELSE IF Buffered(o, lsn) THEN [ec |-> "ok", data |-> held[o][Slot(lsn)]]
  ELSE IF Slot(lsn) >= Len(file) THEN [ec |-> "EOS_READ", data |-> Zero]
  ELSE [ec |-> "ok", data |-> file[Slot(lsn) + 1]]

Read(o, lsn) ==
  LET p == Refreshed(o, lsn) IN
  /\ opens[o] # Closed
  /\ opens' = [opens EXCEPT ![o] = p]
  /\ IF Buffered(o, lsn) THEN UNCHANGED << held, missed >>
     ELSE Fill(o, IF lsn < p.total THEN Slot(lsn) ELSE Len(file))
  /\ UNCHANGED << t0, file, wrote, blind, n >>

(* The file with a slot written, at its end or before it. *)
Put(f, slot, data) == [i \in 1 .. (IF slot < Len(f) THEN Len(f) ELSE slot + 1) |->
                         IF i = slot + 1 THEN data ELSE IF i <= Len(f) THEN f[i] ELSE Zero]

(* raw_extend has written zeros to the slots from raw_slots to before k. *)
Extended(from, k) ==
  [i \in 1 .. (IF k <= from \/ k < Len(file) THEN Len(file) ELSE k) |->
     IF i \in (from + 1) .. k \/ i > Len(file) THEN Zero ELSE file[i]]

(* What put_bytes writes to the sector: half of one is read first, and the  *)
(* rest of a new one is $FF.                                                *)
Merged(o, p, lsn, halves) ==
  LET r == ReadSector(o, p, lsn)
      rest == IF r.ec = "EOS_SECT" THEN FF ELSE r.data
  IN [h \in Half |-> IF h \in halves THEN n + 1 ELSE rest[h]]

(* What an open would read of a sector is older than what is in the file.   *)
Stale(o, lsn) == lsn < opens[o].total /\ lsn \in missed[o]

(* Half a write whose open takes the sector for a new one that is not, or   *)
(* reads the other half as it was.                                          *)
WritesBlind(o, p, lsn, halves) ==
  halves # Half /\ (Stale(o, lsn) \/ (lsn >= p.total /\ Slot(lsn) < Len(file)))

(* The writer's buffer is empty then, and others keep theirs.               *)
Overtakes(o, lsn) ==
  /\ held' = [held EXCEPT ![o] = << >>]
  /\ missed' = [q \in Opens |->
       IF q = o THEN {}
       ELSE IF Slot(lsn) \in DOMAIN held[q] THEN missed[q] \cup {lsn} ELSE missed[q]]

Write(o, lsn, halves) ==
  LET p == Refreshed(o, lsn)
      grows == lsn >= p.total
      grown == IF grows THEN Extended(p.slots, Slot(lsn)) ELSE file
  IN
  /\ n < MaxWrites /\ opens[o] # Closed
  /\ halves = Half \/ ReadSector(o, p, lsn).ec # "EOS_READ"
  /\ n' = n + 1
  /\ file' = Put(grown, Slot(lsn), Merged(o, p, lsn, halves))
  /\ opens' = [opens EXCEPT ![o] =
                 IF grows THEN [slots |-> Slot(lsn) + 1, total |-> lsn + 1] ELSE p]
  /\ wrote' = [wrote EXCEPT ![lsn] = [h \in Half |-> IF h \in halves THEN n + 1 ELSE @[h]]]
  /\ blind' = IF WritesBlind(o, p, lsn, halves) THEN blind \cup {lsn}
              ELSE IF halves = Half THEN blind \ {lsn} ELSE blind
  /\ Overtakes(o, lsn)
  /\ UNCHANGED t0

(* The write fails: k slots are there when it does, of those it adds. *)
FailedWrite(o, lsn) ==
  LET p == Refreshed(o, lsn)  last == Slot(lsn) IN
  /\ n < MaxWrites /\ opens[o] # Closed
  /\ n' = n + 1
  /\ \E k \in IF lsn >= p.total /\ p.slots < last THEN p.slots .. last ELSE {last} :
       IF lsn >= p.total
         THEN /\ file' = Extended(p.slots, k)
              /\ opens' = [opens EXCEPT ![o] = [p EXCEPT !.slots = IF @ < k THEN k ELSE @]]
         ELSE /\ file' = file
              /\ opens' = [opens EXCEPT ![o] = p]
  /\ held' = [held EXCEPT ![o] = << >>]
  /\ missed' = [missed EXCEPT ![o] = {}]
  /\ UNCHANGED << t0, wrote, blind >>

Next ==
  \E o \in Opens :
    \/ Open(o) \/ Close(o)
    \/ \E lsn \in Lsn : Read(o, lsn)
    \/ \E lsn \in Lsn \ {0} :
         \/ \E halves \in { {"low"}, {"high"}, Half } : Write(o, lsn, halves)
         \/ FailedWrite(o, lsn)

-----------------------------------------------------------------------------
(* An open whose write failed while it grew the file: it has counted slots  *)
(* but no sectors, and takes those of its own and of others for missing.    *)
Behind(o) == opens[o].total < TotalOf(opens[o].slots)

(* What was last written to a sector, through any open, is what every open  *)
(* reads, when the file grew under it too, and with a track 0 of any size.  *)
(* An open may miss it only if its own growth of the file failed, or if the *)
(* sector was written after its buffer took it in and it has neither        *)
(* written nor read past its buffer since; and of a sector of which such an *)
(* open wrote half, the other half may be lost.                             *)
WrittenIsRead ==
  \A o \in Opens, lsn \in Lsn :
    opens[o] # Closed /\ ~ Behind(o) /\ ~ Stale(o, lsn) /\ lsn \notin blind =>
      LET r == ReadSector(o, Refreshed(o, lsn), lsn) IN
      /\ wrote[lsn] # Zero => r.ec = "ok"
      /\ \A h \in Half : wrote[lsn][h] # 0 => r.data[h] = wrote[lsn][h]

(* The file never shrinks, and a write changes one sector of those it had:  *)
(* growing it writes over none, and nothing is put in the slots of a short  *)
(* track 0 that are not sectors.                                            *)
ChangesOneSector ==
  /\ Len(file') >= Len(file)
  /\ \A i, j \in DOMAIN file : file'[i] # file[i] /\ file'[j] # file[j] => i = j
  /\ \A i \in DOMAIN file' : i \in (t0 + 1) .. Spt => file'[i] = Zero
=============================================================================

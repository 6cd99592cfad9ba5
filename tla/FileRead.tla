------------------------------- MODULE FileRead -------------------------------
(***************************************************************************)
(* Reading: one call of read or readln of librbf, libdecb or libdragondos  *)
(* on a file of any size in any segments, granules or extents, from any    *)
(* position.  One step is one round of a loop, and each read of the image  *)
(* may fail.                                                               *)
(***************************************************************************)
EXTENDS Integers, SequencesExt

CONSTANTS
  Bps,       \* bytes per sector
  NumSegs,   \* segments in a list (NUM_SEGS); granules and extents of a file
  SegSizes,  \* sectors in a segment or an extent
  Spg,       \* sectors in a granule
  Asked      \* bytes a caller asks for, at least 1

VARIABLE
  l  \* lib, line: read or readln; seg: sectors in each segment, granule or
     \* extent; mark, lss: sectors in the last granule, bytes in the last
     \* sector, as FAT and entry have them; filesize; eols: the addresses with
     \* a CR; start, asked: the input; pc, i, accum, left (bytes_left), size,
     \* filepos, ec; got: the addresses of what was read

(* A byte's address: the segment and the offset in it. *)
Length(seg, i) == seg[i] * Bps

Bytes(seg) ==
  FlattenSeq([i \in DOMAIN seg |-> [o \in 1 .. Length(seg, i) |-> << i, o - 1 >>]])

Upto(a, b) == IF a < b THEN a ELSE b

(* _decb_gs_size *)
DecbSize(seg, mark, lss) ==
  (Len(seg) - 1) * Spg * Bps + (IF mark = 0 THEN 0 ELSE mark - 1) * Bps + lss

(* A file of lib, the size its library keeps of it, and for libdecb what the *)
(* FAT and the entry say of its last granule: mark sectors, and lss bytes.   *)
File(lib, seg, mark, lss, size) ==
  [lib |-> lib, seg |-> seg, mark |-> mark, lss |-> lss, filesize |-> size]

OfSegments(lib, more) ==
  UNION { { File(lib, seg, 0, 0, size) : size \in 0 .. (Len(Bytes(seg)) + more) }
          : seg \in SeqOf(SegSizes, NumSegs) \ {<< >>} }

OfGranules ==
  { File("decb", seg, last[1], last[2], DecbSize(seg, last[1], last[2]))
    : seg \in SeqOf({Spg}, NumSegs) \ {<< >>}, last \in {<< 0, 0 >>} \cup (1 .. Spg) \X (0 .. Bps) }

(* A file of librbf may have a byte more than its segments: _os9_ss_size     *)
(* makes such.                                                              *)
Files == OfSegments("rbf", 1) \cup OfSegments("dragon", 0) \cup OfGranules

(* Bound: no CR, one, or nothing else. *)
Ends(line, seg) ==
  IF line THEN {{}, ToSet(Bytes(seg))} \cup { {b} : b \in ToSet(Bytes(seg)) } ELSE {{}}

Init ==
  \E f \in Files, line \in BOOLEAN :
    \E start \in 0 .. f.filesize, asked \in Asked, eols \in Ends(line, f.seg) :
      l = [loop |-> "read", lib |-> f.lib, line |-> line, seg |-> f.seg, mark |-> f.mark,
           lss |-> f.lss, filesize |-> f.filesize, eols |-> eols, start |-> start,
           asked |-> asked, pc |-> "begin", i |-> 1, accum |-> 0, left |-> 0,
           size |-> asked, filepos |-> start, got |-> << >>, ec |-> "ok"]

Return(ec, size) == l' = [l EXCEPT !.pc = "done", !.ec = ec, !.size = size]

AtEnd == l.filepos >= l.filesize

(* _os9_readln leaves the size that was asked for. *)
EndOfFile ==
  /\ l.pc = "begin" /\ AtEnd
  /\ Return("EOS_EOF", IF l.lib = "rbf" /\ l.line THEN l.size ELSE 0)

Begin ==
  /\ l.pc = "begin" /\ ~ AtEnd
  /\ LET size == IF l.lib = "dragon" /\ l.line THEN l.size
                 ELSE Upto(l.size, l.filesize - l.filepos)
     IN l' = [l EXCEPT !.size = size, !.left = size,
                       !.pc = IF l.lib = "dragon" THEN "copy" ELSE "find"]

(* What was read is a line's end and what is left of it, or all of it; the  *)
(* caller had got before it what before says.                               *)
Took(chunk, before) ==
  LET end == SelectInSeq(chunk, LAMBDA b : b \in l.eols)
      n == IF end = 0 THEN Len(chunk) ELSE end
  IN [l EXCEPT !.got = @ \o SubSeq(chunk, 1, n),
               !.filepos = @ + n,
               !.left = IF end = 0 THEN @ - n ELSE 0,
               !.size = IF end = 0 THEN @ ELSE before + n]

Chunk(i, offset, n) == [k \in 1 .. n |-> << i, offset + k - 1 >>]

-----------------------------------------------------------------------------
(* librbf *)

Past == l.i > Len(l.seg)

(* Mutant: the last byte of a segment is looked for in the next one. *)
FindSegmentLate ==
  /\ l.pc = "find" /\ l.lib = "rbf" /\ ~ Past
  /\ l' = IF l.accum + Length(l.seg, l.i) > l.filepos + 1 THEN [l EXCEPT !.pc = "copy"]
          ELSE [l EXCEPT !.i = @ + 1, !.accum = @ + Length(l.seg, l.i)]

FindSegment ==
  /\ l.pc = "find" /\ l.lib = "rbf" /\ ~ Past
  /\ l' = IF l.accum + Length(l.seg, l.i) > l.filepos THEN [l EXCEPT !.pc = "copy"]
          ELSE [l EXCEPT !.i = @ + 1, !.accum = @ + Length(l.seg, l.i)]

(* _os9_readln goes on past the end of the list, to what is in memory there. *)
NoSegment ==
  /\ l.pc = "find" /\ l.lib = "rbf" /\ Past
  /\ IF l.line THEN Return("undefined", l.size) ELSE Return("1", 0)

CopySegment ==
  /\ l.pc = "copy" /\ l.lib = "rbf" /\ l.left > 0 /\ ~ Past
  /\ LET accum == l.accum + Length(l.seg, l.i)
         n == Upto(accum - l.filepos, l.left)
     IN l' = [Took(Chunk(l.i, l.filepos - l.accum, n), Len(l.got))
              EXCEPT !.i = @ + 1, !.accum = accum]

-----------------------------------------------------------------------------
(* libdecb *)

Granule == Spg * Bps

FindGranule ==
  /\ l.pc = "find" /\ l.lib = "decb"
  /\ l' = IF l.i = Len(l.seg) \/ l.accum + Granule > l.filepos THEN [l EXCEPT !.pc = "copy"]
          ELSE [l EXCEPT !.i = @ + 1, !.accum = @ + Granule]

CopyGranule ==
  /\ l.pc = "copy" /\ l.lib = "decb" /\ l.left > 0
  /\ LET last == l.i = Len(l.seg)
         bytes == IF ~ last THEN Granule
                  ELSE (IF l.line THEN l.mark ELSE l.mark - 1) * Bps + l.lss
         offset == l.filepos % Granule
         n == Upto(bytes - offset, l.left)
     IN l' = [Took(Chunk(l.i, offset, n), l.size - l.left)
              EXCEPT !.i = IF last THEN @ ELSE @ + 1]

-----------------------------------------------------------------------------
(* libdragondos *)

(* _dd_sector_lsn: a sector of the file, as extent and sector in it. *)
SectorLsn(k) ==
  LET before[i \in DOMAIN l.seg] == IF i = 1 THEN 0 ELSE before[i - 1] + l.seg[i - 1]
      i == CHOOSE i \in DOMAIN l.seg : before[i] <= k /\ k < before[i] + l.seg[i]
  IN << i, k - before[i] >>

(* _dragondos_readln reads a byte at a time, and may come to the end. *)
LineEndsFile ==
  /\ l.pc = "copy" /\ l.lib = "dragon" /\ l.left > 0 /\ AtEnd
  /\ Return("ok", Len(l.got))

CopySector ==
  /\ l.pc = "copy" /\ l.lib = "dragon" /\ l.left > 0 /\ ~ AtEnd
  /\ LET at == SectorLsn(l.filepos \div Bps)
         offset == l.filepos % Bps
         n == Upto(IF l.line THEN 1 ELSE Bps - offset, l.left)
     IN l' = Took(Chunk(at[1], at[2] * Bps + offset, n), Len(l.got))

-----------------------------------------------------------------------------
(* The rest of the file is not there, or all that was asked for was read. *)
Copied ==
  /\ l.pc = "copy" /\ (l.left = 0 \/ (l.lib = "rbf" /\ Past))
  /\ Return("ok", l.size)

(* librbf reads the descriptor again in every call. *)
DescriptorFails ==
  /\ l.pc = "begin" /\ l.lib = "rbf"
  /\ Return("failed", 0)

(* The sectors of a segment, granule or extent cannot be read. *)
ReadFails ==
  /\ l.pc = "copy" /\ l.left > 0
  /\ CASE l.lib = "rbf" -> ~ Past
       [] l.lib = "decb" -> TRUE
       [] l.lib = "dragon" -> ~ AtEnd
  /\ Return("failed", l.size - l.left)

Next ==
  \/ EndOfFile \/ Begin
  \/ FindSegment \/ NoSegment \/ CopySegment
  \/ FindGranule \/ CopyGranule
  \/ LineEndsFile \/ CopySector
  \/ Copied \/ DescriptorFails \/ ReadFails

Spec == Init /\ [][Next]_l

-----------------------------------------------------------------------------
(* The bytes of the file from where the call begins, as many as asked for,  *)
(* and for readln none after the first line end.                            *)
Wanted ==
  LET all == Bytes(l.seg)
      bytes == SubSeq(all, l.start + 1, Upto(l.start + l.asked, Upto(l.filesize, Len(all))))
      end == SelectInSeq(bytes, LAMBDA b : b \in l.eols)
  IN IF end = 0 THEN bytes ELSE SubSeq(bytes, 1, end)

Backed == l.filesize <= Len(Bytes(l.seg))

(* A read returns the bytes of the file that were asked for, in their order *)
(* and once each, wherever they lie on the disk; a readln as many as up to  *)
(* a line end.  When the image cannot be read it returns those before, and  *)
(* the position says how many, and so does the size, except after a call    *)
(* that begins at the end of the file: _os9_readln leaves it as asked.      *)
(* Exception: of a file made larger than its segments a read returns what   *)
(* these have, and the size may say more.                                   *)
ReadsTheFile ==
  l.pc = "done" =>
    /\ IsPrefix(l.got, Wanted)
    /\ l.filepos = l.start + Len(l.got)
    /\ Backed =>
         /\ l.ec \in {"ok", "failed", "EOS_EOF"}
         /\ l.ec = "ok" => l.got = Wanted /\ l.start < l.filesize
         /\ l.ec = "EOS_EOF" => l.start >= l.filesize
         /\ l.ec # "EOS_EOF" => l.size = Len(l.got)
=============================================================================

------------------------------ MODULE Cassette ------------------------------
(***************************************************************************)
(* libcecb on a CAS or C10 image: a few files are recorded one after the   *)
(* other, as cecb copy does, and read by name.  A tape is bytes, but a     *)
(* file is appended at the tape's last bit and goes on from there, so what *)
(* is read is found bit by bit.  Writing is one round of _cecb_write a     *)
(* step, reading one round of _cecb_read.                                  *)
(***************************************************************************)
EXTENDS Integers, SequencesExt

CONSTANTS
  Names,     \* file names, each a byte
  Silence,   \* bytes in half a second of silence (10 or 11)
  Pause,     \* bytes of silence in a leader (2)
  Leader,    \* bytes of $55 in a leader (128)
  MaxBlock,  \* data bytes in a block (255)
  Sizes,     \* Bound: of one write or read
  MaxData,   \* Bound: bytes in a file
  MaxFiles   \* Bound: files recorded

VARIABLE
  l  \* tape: its bytes; made: the files begun so far; files: those recorded,
     \* with name, data and bad, of which clean says that nothing lies between
     \* them; path: the path that is open, if mode is not "none"

None == [mode |-> "none"]

Init ==
  l = [loop |-> "tape", tape |-> << >>, made |-> 0, files |-> << >>, clean |-> TRUE,
       path |-> None]

Least(a, b) == IF a < b THEN a ELSE b

Checksum(type, data) == FoldLeft(LAMBDA a, b : (a + b) % 256, type + Len(data), data) % 256

-----------------------------------------------------------------------------
(* What is recorded *)

Fill(n, byte) == [i \in 1 .. n |-> byte]

WriteLeader == Fill(Pause, 0) \o Fill(Leader, 85)

(* bad: the tape has its first byte wrong. *)
Block(type, data, bad) ==
  << 85, 60, type, Len(data) >>
    \o (IF bad THEN << (data[1] + 1) % 256 >> \o Tail(data) ELSE data)
    \o << Checksum(type, data), 85 >>

(* A block after the header, with the gap before it when the file asks.     *)
DataBlock(gap, type, data, bad) ==
  (IF gap THEN Fill(Silence, 0) \o WriteLeader ELSE << >>) \o Block(type, data, bad)

GapFlag(gap) == IF gap THEN 255 ELSE 0

Header(name, gap) ==
  Fill(Silence, 0) \o WriteLeader \o Block(0, << name, GapFlag(gap) >>, FALSE)
    \o Fill(Silence, 0) \o WriteLeader

(* The last byte is written out only when the next bit comes. *)
Whole(start, out) == ((start % 8) + 8 * Len(out) - 1) \div 8

(* The tape when m bytes were written out: the bits of out from start on,   *)
(* and zeros before them in the byte where they begin.                      *)
Laid(tape, start, out, m) ==
  LET q == start \div 8
      r == start % 8
      At(k) == IF k \in DOMAIN out THEN out[k] ELSE 0
      byte(j) == (At(j) \div 2 ^ (8 - r)) + (At(j + 1) % 2 ^ (8 - r)) * 2 ^ r
  IN [i \in 1 .. (IF q + m > Len(tape) THEN q + m ELSE Len(tape)) |->
        IF i \in q + 1 .. q + m THEN byte(i - q - 1) ELSE tape[i]]

-----------------------------------------------------------------------------
(* What is read *)

(* The bytes that are read from bit pos on: cas is the byte read last, which *)
(* is looked at again for its bits that are left.                           *)
Seen(tape, pos, cas) ==
  Append(IF pos % 8 = 0 THEN tape ELSE [tape EXCEPT ![pos \div 8 + 1] = cas], 0)

(* The eight bits from bit p on. *)
ByteAt(seen, p) ==
  IF p % 8 = 0 THEN seen[p \div 8 + 1]
  ELSE ((seen[p \div 8 + 1] \div 2 ^ (p % 8)) + seen[p \div 8 + 2] * 2 ^ (8 - (p % 8))) % 256

(* Where $3C is found from bit pos on: the search begins with zeros. *)
Syncs(seen, pos) ==
  LET Window(p) == IF p < pos THEN (ByteAt(seen, pos) * 2 ^ (pos - p)) % 256
                   ELSE ByteAt(seen, p)
  IN { p \in (pos - 7) .. (8 * Len(seen) - 16) : Window(p) = 60 }

(* _cecb_read_next_block from bit pos on. *)
NextBlock(tape, pos, cas) ==
  LET bits == 8 * Len(tape)
      seen == Seen(tape, pos, cas)
      syncs == Syncs(seen, pos)
      h == Min(syncs) + 8
      len == ByteAt(seen, h + 8)
      end == h + 8 * (3 + len)
      type == ByteAt(seen, h)
      data == [i \in 1 .. len |-> ByteAt(seen, h + 8 * (i + 1))]
  IN IF syncs = {} THEN [ec |-> "EOS_EOF"]
     ELSE IF h + 16 > bits THEN [ec |-> "EOS_EOF"]
     ELSE IF end > bits THEN [ec |-> "EOS_EOF"]
     ELSE [ec |-> IF Checksum(type, data) = ByteAt(seen, end - 8) THEN "ok" ELSE "EOS_CRC",
           type |-> type, data |-> data, pos |-> end, cas |-> seen[(end - 1) \div 8 + 1]]

-----------------------------------------------------------------------------
(* _cecb_create, _cecb_write, _cecb_close of a path for writing *)

(* Where a file begins: at the last bit, or where -p lets it, Bound: at 0. *)
Starts == {0, IF l.tape = << >> THEN 0 ELSE 8 * Len(l.tape) - 1}

Create ==
  /\ l.path = None /\ l.made < MaxFiles
  /\ \E name \in Names, gap \in BOOLEAN, start \in Starts :
       l' = [l EXCEPT !.made = @ + 1,
                      !.path = [mode |-> "write", name |-> name, gap |-> gap, start |-> start,
                                out |-> Header(name, gap), data |-> << >>, left |-> 0,
                                all |-> << >>, bad |-> FALSE]]

Writing == l.path.mode = "write"

Write ==
  /\ Writing /\ l.path.left = 0
  /\ \E n \in Sizes : Len(l.path.all) + n <= MaxData /\ l' = [l EXCEPT !.path.left = n]

(* A file's bytes count up from one that looks like a block's begin. *)
Datum(k) == (60 * l.made + k - 1) % 256

WriteRound ==
  /\ Writing /\ l.path.left > 0
  /\ \E bad \in {FALSE, Len(l.path.data) = MaxBlock /\ ~ l.path.bad} :
       LET p == l.path
           full == Len(p.data) = MaxBlock
           held == IF full THEN << >> ELSE p.data
           n == Least(MaxBlock - Len(held), p.left)
           new == [k \in 1 .. n |-> Datum(Len(p.all) + k)]
       IN l' = [l EXCEPT !.path.out = IF full THEN @ \o DataBlock(p.gap, 1, p.data, bad) ELSE @,
                         !.path.data = held \o new,
                         !.path.all = @ \o new,
                         !.path.left = @ - n,
                         !.path.bad = @ \/ bad]

(* The file is recorded over others, and what it leaves of them comes next. *)
Over == l.path.start = 0 /\ l.tape # << >>

CloseWritten ==
  /\ Writing /\ l.path.left = 0
  /\ \E bad \in {FALSE, l.path.data # << >> /\ ~ l.path.bad} :
       LET p == l.path
           out == p.out \o (IF p.data = << >> THEN << >> ELSE DataBlock(p.gap, 1, p.data, bad))
                    \o DataBlock(p.gap, 255, << >>, FALSE) \o Fill(Silence, 0)
           m == Whole(p.start, out)
           f == [name |-> p.name, data |-> p.all, bad |-> p.bad \/ bad]
       IN l' = [l EXCEPT !.tape = Laid(@, p.start, out, m),
                         !.files = IF Over THEN << f >> ELSE IF l.clean THEN Append(@, f) ELSE @,
                         !.clean = IF Over THEN m >= Len(l.tape) ELSE @,
                         !.path = None]

(* The process ends, or the host's disk is full, of which libcecb takes no  *)
(* notice: of what was written any part is there.  Bound: all, half, none.  *)
Interrupted ==
  /\ Writing
  /\ LET p == l.path  all == Whole(p.start, p.out)
     IN \E m \in {0, all \div 2, all} :
          l' = [l EXCEPT !.tape = Laid(@, p.start, p.out, m),
                         !.files = IF Over /\ m > 0 THEN << >> ELSE @,
                         !.clean = @ /\ m = 0,
                         !.path = None]

-----------------------------------------------------------------------------
(* _cecb_open, _cecb_read, _cecb_seek, and _cecb_close of a path for reading *)

Open ==
  /\ l.path = None
  /\ \E name \in Names :
       l' = [l EXCEPT !.path = [mode |-> "read", pc |-> "scan", name |-> name, pos |-> 0,
                                cas |-> 0, start |-> 0, data |-> << >>, at |-> 0,
                                eof |-> FALSE, left |-> 0, filepos |-> 0, ec |-> "ok",
                                got |-> << >>]]

Reading(pc) == l.path.mode = "read" /\ l.path.pc = pc

(* A file is looked for from the tape's beginning.  A header with a wrong   *)
(* checksum is a header.                                                    *)
Scan ==
  /\ Reading("scan")
  /\ LET p == l.path  b == NextBlock(l.tape, p.pos, p.cas)
     IN IF b.ec = "EOS_EOF" THEN l' = [l EXCEPT !.path.pc = "done", !.path.ec = "EOS_PNNF"]
        ELSE l' = [l EXCEPT !.path.pos = b.pos, !.path.start = b.pos, !.path.cas = b.cas,
                            !.path.pc = IF b.type = 0 /\ Len(b.data) = 2 /\ b.data[1] = p.name
                                        THEN "open" ELSE @]

Read == Reading("open") /\ \E n \in Sizes : l' = [l EXCEPT !.path.pc = "read", !.path.left = n]

(* _cecb_gs_eof *)
AtEnd == l.path.eof /\ l.path.at = Len(l.path.data)

(* When the block is used up the next is read at once, and what is wrong    *)
(* with it is the result of the call; callers stop then.  Any block that is *)
(* not the last is data.                                                    *)
ReadRound ==
  /\ Reading("read") /\ l.path.left > 0 /\ ~ AtEnd
  /\ LET p == l.path
         n == Least(Len(p.data) - p.at, p.left)
         took == [p EXCEPT !.got = @ \o SubSeq(p.data, p.at + 1, p.at + n),
                           !.at = @ + n, !.left = @ - n, !.filepos = @ + n]
         b == NextBlock(l.tape, p.pos, p.cas)
     IN l' = [l EXCEPT !.path =
                IF took.at < Len(p.data) THEN took
                ELSE IF b.ec # "ok" THEN [took EXCEPT !.pc = "done", !.ec = b.ec]
                ELSE [took EXCEPT !.data = b.data, !.at = 0, !.pos = b.pos, !.cas = b.cas,
                                  !.eof = b.type = 255]]

ReadReturns ==
  /\ Reading("read") /\ (l.path.left = 0 \/ AtEnd)
  /\ l' = [l EXCEPT !.path.pc = "open", !.path.left = 0]

(* Mutant: the block that was being read is kept. *)
RewindKeepsBlock ==
  /\ Reading("open") /\ l.path.filepos # 0
  /\ l' = [l EXCEPT !.path.pos = l.path.start, !.path.filepos = 0, !.path.eof = FALSE,
                    !.path.got = << >>]

(* The byte read last is not read again. *)
Rewind ==
  /\ Reading("open") /\ l.path.filepos # 0
  /\ l' = [l EXCEPT !.path.pos = l.path.start, !.path.filepos = 0, !.path.eof = FALSE,
                    !.path.at = 0, !.path.data = << >>, !.path.got = << >>]

Close == (Reading("open") \/ Reading("done")) /\ l' = [l EXCEPT !.path = None]

Next ==
  \/ Create \/ Write \/ WriteRound \/ CloseWritten \/ Interrupted
  \/ Open \/ Scan \/ Read \/ ReadRound \/ ReadReturns \/ Rewind \/ Close

Spec == Init /\ [][Next]_l

-----------------------------------------------------------------------------
(* A file that was recorded is found by its name, the first of that name on *)
(* the tape, and read as it was written, again after a rewind, whatever was *)
(* recorded or interrupted after it: no read returns another byte, the end  *)
(* is where it is, and only a block that is bad on the tape is an error.    *)
RecordedIsRead ==
  LET p == l.path
      Named == { i \in DOMAIN l.files : l.files[i].name = p.name }
  IN p.mode = "read" /\ Named # {} =>
       LET f == l.files[Min(Named)] IN
         /\ IsPrefix(p.got, f.data)
         /\ p.filepos = Len(p.got)
         /\ AtEnd => p.got = f.data /\ ~ f.bad
         /\ p.ec = "ok" \/ (p.ec = "EOS_CRC" /\ f.bad)
=============================================================================

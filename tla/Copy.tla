-------------------------------- MODULE Copy --------------------------------
(***************************************************************************)
(* TSCopyFile (libtoolshed): a file of a disk image or of the host is      *)
(* copied to another, a buffer at a time, with its line ends translated or *)
(* as it is.  One step is one call of libcoco, or the read and the write   *)
(* of one buffer; a call on an image may fail.                             *)
(*                                                                         *)
(* External: what the calls do to a file of an image is in Rbf, Decb and   *)
(* DragonDos.  Here a file is its contents, or Gone.                       *)
(***************************************************************************)
EXTENDS Integers, SequencesExt

CONSTANTS
  CR, LF, Other,  \* the bytes: $0D, $0A and any other
  MaxLen,         \* Bound: bytes of a source
  Buffers,        \* sizes of the buffer, at least 1
  Gone,           \* a file that is not there
  Faults          \* calls may fail

VARIABLES
  job,  \* from, to: "native" or "coco", source: the contents, old: what the
        \* destination was, size: of the buffer, eolTranslate, rewrite
  dst,  \* the destination
  s     \* pc, position in the source, ec; left: the destination could not be
        \* closed or deleted; missed: the host failed and it went unnoticed

vars == << job, dst, s >>

Bytes == {CR, LF, Other}

Init ==
  /\ job \in [from : {"native", "coco"}, to : {"native", "coco"},
              source : SeqOf(Bytes, MaxLen), old : {Gone, << LF >>},
              size : Buffers, eolTranslate : BOOLEAN, rewrite : BOOLEAN]
  /\ dst = job.old
  /\ s = [pc |-> "open", position |-> 0, ec |-> "running", left |-> FALSE,
          missed |-> FALSE]

-----------------------------------------------------------------------------
(* The line ends of a buffer. *)

(* DetermineEOLType: what the first line end says, but that an LF as the    *)
(* first byte only counts if none follows.                                  *)
LineEnd(b) ==
  LET pair(i) == i < Len(b) /\ b[i] = CR /\ b[i + 1] = LF
      ends == { i \in 1 .. Len(b) : b[i] = CR \/ (b[i] = LF /\ i > 1) }
  IN IF ends = {} THEN IF b # << >> /\ b[1] = LF THEN "unix" ELSE "none"
     ELSE LET i == CHOOSE i \in ends : \A j \in ends : i <= j IN
          IF pair(i) THEN "dos" ELSE IF b[i] = LF THEN "unix" ELSE "os9"

Replaced(b, old, new) == [i \in DOMAIN b |-> IF b[i] = old THEN new ELSE b[i]]

TranslateNativeToCoCo(b) ==
  CASE LineEnd(b) = "unix" -> Replaced(b, LF, CR)
    [] LineEnd(b) = "dos" -> SelectSeq(b, LAMBDA c : c # LF)
    [] OTHER -> b

TranslateCoCoToNative(b) == Replaced(b, CR, LF)

Translate(b) ==
  IF ~ job.eolTranslate \/ job.from = job.to THEN b
  ELSE IF job.from = "native" THEN TranslateNativeToCoCo(b)
  ELSE TranslateCoCoToNative(b)

-----------------------------------------------------------------------------
Goto(pc) == s' = [s EXCEPT !.pc = pc]

Fail(pc, ec) == s' = [s EXCEPT !.pc = pc, !.ec = ec]

Begins(b) == { SubSeq(b, 1, n) : n \in 0 .. Len(b) }

OpenSource ==
  /\ s.pc = "open"
  /\ Goto("create") \/ Fail("done", "failed")
  /\ UNCHANGED << job, dst >>

(* _native_create does not look at FAM_NOCREATE. *)
CreateDestination ==
  /\ s.pc = "create"
  /\ UNCHANGED job
  /\ IF job.to = "coco" /\ job.old # Gone /\ ~ job.rewrite
       THEN Fail("done", "EOS_FAE") /\ UNCHANGED dst
       ELSE Goto(IF job.eolTranslate THEN "buffer" ELSE "copy") /\ dst' = << >>

(* _os9_create deletes the old file first, and opens the new one last. *)
CreateFails ==
  /\ s.pc = "create" /\ Faults
  /\ job.to = "coco" /\ (job.old = Gone \/ job.rewrite)
  /\ dst' \in {job.old, Gone, << >>}
  /\ Fail("done", "failed")
  /\ UNCHANGED job

(* The destination is closed and deleted, or it stays as it is. *)
GivesUp(ec) ==
  \/ dst' = Gone /\ s' = [s EXCEPT !.pc = "done", !.ec = ec]
  \/ Faults /\ dst' = dst /\ s' = [s EXCEPT !.pc = "done", !.ec = ec, !.left = TRUE]

GetBuffer ==
  /\ s.pc = "buffer"
  /\ UNCHANGED job
  /\ \/ Goto("copy") /\ UNCHANGED dst
     \/ Faults /\ GivesUp("EOS_MF")

AtEnd == s.position = Len(job.source)

(* Mutant: a part of a buffer at the end is not copied. *)
WholeBuffer ==
  IF s.position + job.size > Len(job.source) THEN << >>
  ELSE SubSeq(job.source, s.position + 1, s.position + job.size)

Buffer ==
  SubSeq(job.source, s.position + 1,
         IF s.position + job.size > Len(job.source) THEN Len(job.source)
         ELSE s.position + job.size)

CopyBuffer ==
  /\ s.pc = "copy" /\ ~ AtEnd
  /\ dst' = dst \o Translate(Buffer)
  /\ s' = [s EXCEPT !.position = IF @ + job.size > Len(job.source) THEN Len(job.source)
                                 ELSE @ + job.size]
  /\ UNCHANGED job

(* _coco_gs_eof or _coco_read of an image fails. *)
ReadFails ==
  /\ s.pc = "copy" /\ Faults /\ job.from = "coco"
  /\ Fail("fail", "failed")
  /\ UNCHANGED << job, dst >>

(* It is full, or cannot be written; a part of the buffer is there. *)
WriteFails ==
  /\ s.pc = "copy" /\ ~ AtEnd /\ Faults /\ job.to = "coco"
  /\ dst' \in { dst \o b : b \in Begins(Translate(Buffer)) }
  /\ Fail("fail", "failed")
  /\ UNCHANGED job

(* _native_read returns what fread could read, as if the file ended there.  *)
(* Bound: as HostReadFails.                                                 *)
HostReadsLess ==
  /\ s.pc = "copy" /\ Faults /\ job.from = "native" /\ ~ s.missed
  /\ \E n \in 1 .. (Len(Buffer) - 1) :
       /\ dst' = dst \o Translate(SubSeq(Buffer, 1, n))
       /\ s' = [s EXCEPT !.position = @ + n, !.missed = TRUE]
  /\ UNCHANGED job

(* _native_gs_eof only looks for the end of the file: if fread reads nothing *)
(* for another reason it pushes back a byte it never read, which is copied. *)
(* Bound: once, and not after another failure of the host; it may go on     *)
(* for ever.                                                                *)
HostReadFails ==
  /\ s.pc = "copy" /\ Faults /\ job.from = "native" /\ ~ s.missed
  /\ \E byte \in Bytes : dst' = dst \o Translate(<< byte >>)
  /\ s' = [s EXCEPT !.missed = TRUE]
  /\ UNCHANGED job

(* _native_write returns 0 whatever fwrite could write. *)
HostWriteFails ==
  /\ s.pc = "copy" /\ ~ AtEnd /\ Faults /\ job.to = "native"
  /\ dst' \in { dst \o b : b \in Begins(Translate(Buffer)) }
  /\ s' = [s EXCEPT !.position = IF @ + job.size > Len(job.source) THEN Len(job.source)
                                 ELSE @ + job.size,
                    !.missed = TRUE]
  /\ UNCHANGED job

SourceEnds ==
  /\ s.pc = "copy" /\ AtEnd
  /\ Goto("close")
  /\ UNCHANGED << job, dst >>

(* Mutant: a copy that failed is left. *)
LeaveIt ==
  /\ s.pc = "fail"
  /\ Fail("done", s.ec)
  /\ UNCHANGED << job, dst >>

DeleteHalf ==
  /\ s.pc = "fail"
  /\ GivesUp(s.ec)
  /\ UNCHANGED job

CloseDestination ==
  /\ s.pc = "close"
  /\ Fail("meta", "ok")
  /\ UNCHANGED << job, dst >>

(* What is left of it is not deleted. *)
CloseFails ==
  /\ s.pc = "close" /\ Faults /\ job.to = "coco"
  /\ dst' \in Begins(dst)
  /\ s' = [s EXCEPT !.pc = "meta", !.ec = "failed", !.left = TRUE]
  /\ UNCHANGED job

(* _native_close does not look at what fclose returns. *)
HostCloseFails ==
  /\ s.pc = "close" /\ Faults /\ job.to = "native"
  /\ dst' \in Begins(dst)
  /\ s' = [s EXCEPT !.pc = "meta", !.ec = "ok", !.missed = TRUE]
  /\ UNCHANGED job

(* The destination is opened again for its times and attributes, and what   *)
(* fails of that is not looked at.                                          *)
SetMetadata ==
  /\ s.pc = "meta"
  /\ Goto("done")
  /\ UNCHANGED << job, dst >>

Next ==
  \/ OpenSource \/ CreateDestination \/ CreateFails \/ GetBuffer \/ CopyBuffer
  \/ ReadFails \/ WriteFails
  \/ HostReadsLess \/ HostReadFails \/ HostWriteFails
  \/ SourceEnds \/ DeleteHalf
  \/ CloseDestination \/ CloseFails \/ HostCloseFails \/ SetMetadata

Spec == Init /\ [][Next]_vars

-----------------------------------------------------------------------------
Byte(i) == IF i \in DOMAIN job.source THEN job.source[i] ELSE Other

(* The line ends of the source are all of one kind. *)
IsUnix == CR \notin Range(job.source)
IsDos == \A i \in 1 .. Len(job.source) : Byte(i) = LF <=> Byte(i - 1) = CR
IsOS9 == LF \notin Range(job.source)

(* A buffer begins between the two bytes of a line end, and has no other    *)
(* that is whole.                                                           *)
CutPair ==
  \E k \in 1 .. Len(job.source) :
    LET from == k * job.size + 1  to == from + job.size - 1 IN
    /\ Byte(from - 1) = CR /\ Byte(from) = LF
    /\ ~ \E i \in from .. (to - 1) : Byte(i) = CR /\ Byte(i + 1) = LF

(* The source with all its line ends those of the destination. *)
Whole ==
  IF ~ job.eolTranslate \/ job.from = job.to THEN job.source
  ELSE IF job.from = "coco" THEN Replaced(job.source, CR, LF)
  ELSE IF IsUnix THEN Replaced(job.source, LF, CR)
  ELSE SelectSeq(job.source, LAMBDA c : c # LF)

(* When TSCopyFile returns without an error the destination is the source   *)
(* to its last byte, whatever the size of the buffer; and with translation  *)
(* its lines are those of the source, if the source ends all of them in one *)
(* way.  Exceptions: an MS-DOS line end that two buffers share, and what    *)
(* the host failed to read or write.                                        *)
CopyIsWhole ==
  s.pc = "done" /\ s.ec = "ok" /\ ~ s.missed =>
    \/ dst = Whole
    \/ job.eolTranslate /\ job.from = "native" /\ job.to = "coco"
         /\ (CutPair \/ ~ (IsUnix \/ IsDos \/ IsOS9))

(* A copy that fails leaves no part of the file: the destination is what it *)
(* was, or empty or gone, unless it could not be closed or deleted.         *)
FailureLeavesNoHalf ==
  s.pc = "done" /\ s.ec # "ok" /\ ~ s.left => dst \in {job.old, Gone, << >>}
=============================================================================

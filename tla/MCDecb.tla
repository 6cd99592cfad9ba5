------------------------------- MODULE MCDecb -------------------------------
EXTENDS Decb

(* Names a caller gives, and the entries they make and open.  foo and FOO   *)
(* are two entries; _decb_create and _decb_rename tell them apart,          *)
(* _decb_open does not.                                                     *)
MCEntryOf ==
  [a \in Args |-> IF a = "foo" THEN "foo" ELSE IF a = "FOO" THEN "FOO" ELSE "bar"]

MCOpens ==
  [a \in Args |-> IF a \in {"foo", "FOO"} THEN EntryNames \cap {"foo", "FOO"}
                  ELSE IF a = "bar" THEN {"bar"} ELSE {}]

(* Bound: what a failure that may have cost any file leaves is not explored, *)
(* nor what comes after writes to two of the files on the disk have failed. *)
FewFailures == lost # "files" /\ Cardinality(torn) <= 1

(* The result of the last call decides nothing, except of _decb_kill, where *)
(* RewriteIsDone looks at it.                                               *)
State == << fat, dir, data, [s EXCEPT !.ec = "ok"], held, torn, lost >>
=============================================================================
